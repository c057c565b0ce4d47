------------------------- MODULE DistributionProofs -------------------------
(***************************************************************************)
(* Lemmas on the reward ledger of one validator: what each operator of     *)
(* Distribution does to the reference counts of the historical records, to *)
(* what a delegation has earned (Accrued) and to the balance of what is    *)
(* outstanding. The sums over finite sets that the balance needs are       *)
(* proved about by induction on sets; the induction theorems of the        *)
(* library take an operator as a parameter, so the statement that is       *)
(* proved by it is the set of those for which it holds.                    *)
(***************************************************************************)
EXTENDS Distribution, FiniteSets, FiniteSetsExt, FiniteSetTheorems, WellFoundedInduction, TLAPS

LEMMA LeastNat ==
    ASSUME NEW T, T \subseteq Nat, T # {}
    PROVE  \E n \in T : \A m \in T : n <= m
<1> DEFINE R == OpToRel(<, Nat)
<1>1. IsWellFoundedOn(R, Nat)
  BY NatLessThanWellFounded
<1>2. \A m, n \in Nat : <<m, n>> \in R <=> m < n
  <2>1. R = {ss \in Nat \X Nat : ss[1] < ss[2]}
    BY DEF OpToRel
  <2> HIDE DEF R
  <2> QED
    BY <2>1
<1> HIDE DEF R
<1>3. PICK n \in T : \A m \in T : ~ (<<m, n>> \in R)
  BY <1>1, WFMin
<1>4. \A m \in T : n <= m
  <2> SUFFICES ASSUME NEW m \in T PROVE n <= m
    OBVIOUS
  <2>1. m \in Nat /\ n \in Nat
    OBVIOUS
  <2>2. ~ (m < n)
    BY <1>2, <1>3, <2>1
  <2> QED
    BY <2>1, <2>2
<1> QED
  BY <1>4

\* Induction on the naturals from a first one.
LEMMA NatSteps ==
    ASSUME NEW lo \in Nat, NEW A, lo \in A,
           \A n \in Nat : n >= lo /\ n \in A => n + 1 \in A
    PROVE  \A n \in Nat : n >= lo => n \in A
<1> DEFINE T == {n \in Nat : n >= lo /\ n \notin A}
<1>1. SUFFICES ASSUME T # {} PROVE FALSE
  OBVIOUS
<1>2. PICK n \in T : \A m \in T : n <= m
  <2> T \subseteq Nat
    OBVIOUS
  <2> HIDE DEF T
  <2> QED
    BY <1>1, LeastNat
<1>3. n \in Nat /\ n >= lo /\ n \notin A /\ n # lo
  OBVIOUS
<1>4. n - 1 \in Nat /\ n - 1 >= lo /\ n - 1 \notin T
  BY <1>2, <1>3
<1>5. n - 1 \in A
  BY <1>4
<1>6. (n - 1) + 1 \in A
  BY <1>4, <1>5
<1> QED
  BY <1>3, <1>6

\* Induction on a finite set.
LEMMA SetSteps ==
    ASSUME NEW S, IsFiniteSet(S), NEW Good, {} \in Good,
           \A T \in SUBSET S : \A x \in S \ T : T \in Good => T \union {x} \in Good
    PROVE  S \in Good
<1> DEFINE A == {n \in Nat : \A T \in SUBSET S : Cardinality(T) = n => T \in Good}
<1>1. 0 \in A
  <2> SUFFICES ASSUME NEW T \in SUBSET S, Cardinality(T) = 0 PROVE T \in Good
    OBVIOUS
  <2>1. IsFiniteSet(T)
    BY FS_Subset
  <2> QED
    BY <2>1, FS_EmptySet
<1>2. ASSUME NEW n \in Nat, n >= 0 /\ n \in A PROVE n + 1 \in A
  <2> SUFFICES ASSUME NEW T \in SUBSET S, Cardinality(T) = n + 1 PROVE T \in Good
    OBVIOUS
  <2>1. IsFiniteSet(T)
    BY FS_Subset
  <2>2. Cardinality({}) = 0
    BY FS_EmptySet
  <2>3. PICK x : x \in T
    <3>1. T # {}
      BY <1>2, <2>2
    <3> QED
      BY <3>1
  <2>4. Cardinality(T \ {x}) = n
    <3>1. Cardinality(T \ {x}) = Cardinality(T) - 1
      BY <2>1, <2>3, FS_RemoveElement
    <3> QED
      BY <1>2, <3>1
  <2>5. T \ {x} \in Good /\ T \ {x} \in SUBSET S /\ x \in S \ (T \ {x})
    BY <1>2, <2>3, <2>4
  <2>6. (T \ {x}) \union {x} \in Good
    BY <2>5
  <2>7. (T \ {x}) \union {x} = T
    BY <2>3
  <2> QED
    BY <2>6, <2>7
<1> HIDE DEF A
<1>3. \A n \in Nat : n >= 0 => n \in A
  BY <1>1, <1>2, NatSteps
<1>4. Cardinality(S) \in Nat
  BY FS_CardinalityType
<1> QED
  BY <1>3, <1>4 DEF A

----------------------------------------------------------------------------
\* The sum of f over S.

Sum(f, S) == MapThenSumSet(LAMBDA v : f[v], S)

Chosen(T) == CHOOSE x \in T : TRUE

\* The function that MapThenSumSet computes the sum with.
Summed(f, S, it) ==
    it = [T \in SUBSET S |-> IF T = {} THEN 0 ELSE f[Chosen(T)] + it[T \ {Chosen(T)}]]

LEMMA SumUnfolds ==
    ASSUME NEW f, NEW S
    PROVE  Sum(f, S) = (CHOOSE it : Summed(f, S, it))[S]
  BY DEF Sum, MapThenSumSet, MapThenFoldSet, Summed, Chosen

LEMMA ChosenIn == ASSUME NEW T, T # {} PROVE Chosen(T) \in T
  BY DEF Chosen

LEMMA SummedExists ==
    ASSUME NEW f, NEW S, IsFiniteSet(S)
    PROVE  \E it : Summed(f, S, it)
<1> DEFINE
      Small(n) == {T \in SUBSET S : Cardinality(T) <= n}
      Step(it, T) == IF T = {} THEN 0 ELSE f[Chosen(T)] + it[T \ {Chosen(T)}]
      A == {n \in Nat : \E it : \A T \in Small(n) : it[T] = Step(it, T)}
<1>1. 0 \in A
  <2> DEFINE it == [T \in SUBSET S |-> 0]
  <2>1. \A T \in Small(0) : T = {}
    <3> SUFFICES ASSUME NEW T \in Small(0) PROVE T = {}
      OBVIOUS
    <3>1. IsFiniteSet(T)
      BY FS_Subset
    <3>2. Cardinality(T) \in Nat
      BY <3>1, FS_CardinalityType
    <3>3. Cardinality(T) = 0
      BY <3>2
    <3> QED
      BY <3>1, <3>3, FS_EmptySet
  <2>2. \A T \in Small(0) : it[T] = Step(it, T)
    BY <2>1
  <2> QED
    BY <2>2
<1>2. ASSUME NEW n \in Nat, n >= 0 /\ n \in A PROVE n + 1 \in A
  <2>1. PICK g : \A T \in Small(n) : g[T] = Step(g, T)
    BY <1>2
  <2> DEFINE it == [T \in SUBSET S |-> Step(g, T)]
  <2>2. ASSUME NEW T \in Small(n + 1) PROVE it[T] = Step(it, T)
    <3>1. CASE T = {}
      BY <3>1
    <3>2. CASE T # {}
      <4> DEFINE x == Chosen(T)
                 U == T \ {x}
      <4>1. x \in T
        BY <3>2, ChosenIn
      <4>2. IsFiniteSet(T)
        BY FS_Subset
      <4>3. Cardinality(U) = Cardinality(T) - 1 /\ Cardinality(T) \in Nat
        BY <4>1, <4>2, FS_RemoveElement, FS_CardinalityType
      <4>4. U \in Small(n)
        BY <4>3
      <4>5. it[U] = Step(g, U) /\ g[U] = Step(g, U)
        BY <2>1, <4>4
      <4>6. it[T] = f[x] + g[U]
        BY <3>2
      <4> QED
        BY <3>2, <4>5, <4>6
    <3> QED
      BY <3>1, <3>2
  <2> HIDE DEF it, Step
  <2> QED
    BY <2>2
<1> HIDE DEF A
<1>3. \A n \in Nat : n >= 0 => n \in A
  BY <1>1, <1>2, NatSteps
<1>4. Cardinality(S) \in Nat /\ \A T \in SUBSET S : Cardinality(T) <= Cardinality(S)
  BY FS_CardinalityType, FS_Subset
<1>5. PICK g : \A T \in Small(Cardinality(S)) : g[T] = Step(g, T)
  <2> DEFINE n == Cardinality(S)
  <2>1. n \in A
    BY <1>3, <1>4
  <2> HIDE DEF n
  <2>2. \E g : \A T \in Small(n) : g[T] = Step(g, T)
    BY <2>1 DEF A
  <2> QED
    BY <2>2 DEF n
<1>6. \A T \in SUBSET S : g[T] = Step(g, T)
  BY <1>4, <1>5
<1> DEFINE it == [T \in SUBSET S |-> Step(g, T)]
<1>7. \A T \in SUBSET S : it[T] = g[T]
  BY <1>6
<1>8. \A T \in SUBSET S : Step(it, T) = Step(g, T)
  <2> SUFFICES ASSUME NEW T \in SUBSET S PROVE Step(it, T) = Step(g, T)
    OBVIOUS
  <2>1. T \ {Chosen(T)} \in SUBSET S
    OBVIOUS
  <2>2. it[T \ {Chosen(T)}] = g[T \ {Chosen(T)}]
    BY <1>7, <2>1
  <2> HIDE DEF it
  <2> QED
    BY <2>2
<1>9. it = [T \in SUBSET S |-> Step(it, T)]
  <2>1. it = [T \in SUBSET S |-> Step(g, T)]
    OBVIOUS
  <2> HIDE DEF it, Step
  <2> QED
    BY <1>8, <2>1
<1> QED
  BY <1>9 DEF Summed

\* The sum over S unfolds on every subset of S.
LEMMA SumSteps ==
    ASSUME NEW f, NEW S, IsFiniteSet(S)
    PROVE  \E it : Summed(f, S, it) /\ Sum(f, S) = it[S]
<1> DEFINE it == CHOOSE it : Summed(f, S, it)
<1>1. Summed(f, S, it)
  BY SummedExists
<1>2. Sum(f, S) = it[S]
  BY SumUnfolds
<1> QED
  BY <1>1, <1>2

\* Two such functions agree where both are defined.
LEMMA SummedAgree ==
    ASSUME NEW f, NEW S, IsFiniteSet(S), NEW R, R \subseteq S,
           NEW it, Summed(f, S, it), NEW iu, Summed(f, R, iu)
    PROVE  it[R] = iu[R]
<1> DEFINE A == {n \in Nat : \A T \in SUBSET R : Cardinality(T) <= n => it[T] = iu[T]}
<1>0. IsFiniteSet(R)
  BY FS_Subset
<1>1. /\ \A T \in SUBSET S : it[T] = IF T = {} THEN 0 ELSE f[Chosen(T)] + it[T \ {Chosen(T)}]
      /\ \A T \in SUBSET R : iu[T] = IF T = {} THEN 0 ELSE f[Chosen(T)] + iu[T \ {Chosen(T)}]
  BY DEF Summed
<1>2. \A T \in SUBSET R : IsFiniteSet(T) /\ Cardinality(T) \in Nat
  BY <1>0, FS_Subset, FS_CardinalityType
<1>3. 0 \in A
  <2> SUFFICES ASSUME NEW T \in SUBSET R, Cardinality(T) <= 0 PROVE it[T] = iu[T]
    OBVIOUS
  <2>1. T = {}
    BY <1>2, FS_EmptySet
  <2> QED
    BY <1>1, <2>1
<1>4. ASSUME NEW n \in Nat, n >= 0 /\ n \in A PROVE n + 1 \in A
  <2> SUFFICES ASSUME NEW T \in SUBSET R, Cardinality(T) <= n + 1 PROVE it[T] = iu[T]
    OBVIOUS
  <2>1. CASE T = {}
    BY <1>1, <2>1
  <2>2. CASE T # {}
    <3>1. Chosen(T) \in T
      BY <2>2, ChosenIn
    <3>2. Cardinality(T \ {Chosen(T)}) = Cardinality(T) - 1
      BY <1>2, <3>1, FS_RemoveElement
    <3>3. Cardinality(T \ {Chosen(T)}) <= n
      BY <1>2, <3>2
    <3>4. it[T \ {Chosen(T)}] = iu[T \ {Chosen(T)}]
      BY <1>4, <3>3
    <3> QED
      BY <1>1, <2>2, <3>4
  <2> QED
    BY <2>1, <2>2
<1> HIDE DEF A
<1>5. \A n \in Nat : n >= 0 => n \in A
  BY <1>3, <1>4, NatSteps
<1>6. Cardinality(R) \in A
  BY <1>2, <1>5
<1> QED
  BY <1>2, <1>6 DEF A

LEMMA SumChosen ==
    ASSUME NEW f, NEW S, IsFiniteSet(S), S # {}
    PROVE  Sum(f, S) = f[Chosen(S)] + Sum(f, S \ {Chosen(S)})
<1> DEFINE R == S \ {Chosen(S)}
<1>1. PICK it : Summed(f, S, it) /\ Sum(f, S) = it[S]
  BY SumSteps
<1>2. IsFiniteSet(R) /\ R \subseteq S
  BY FS_Subset
<1> HIDE DEF R
<1>3. PICK iu : Summed(f, R, iu) /\ Sum(f, R) = iu[R]
  BY <1>2, SumSteps
<1>4. it[R] = iu[R]
  BY <1>1, <1>2, <1>3, SummedAgree
<1>5. it[S] = f[Chosen(S)] + it[S \ {Chosen(S)}]
  BY <1>1 DEF Summed
<1> QED
  BY <1>1, <1>3, <1>4, <1>5 DEF R

\* The sum over nothing is zero.
LEMMA SumEmpty == ASSUME NEW f PROVE Sum(f, {}) = 0
<1>1. IsFiniteSet({})
  BY FS_EmptySet
<1>2. PICK it : Summed(f, {}, it) /\ Sum(f, {}) = it[{}]
  BY <1>1, SumSteps
<1> QED
  BY <1>2 DEF Summed

\* Any element can be taken out of a sum.
LEMMA SumRemove ==
    ASSUME NEW f, NEW S, IsFiniteSet(S), \A y \in S : f[y] \in Int, NEW x \in S
    PROVE  /\ Sum(f, S) \in Int
           /\ Sum(f, S) = f[x] + Sum(f, S \ {x})
<1> DEFINE
      OK(T) == Sum(f, T) \in Int /\ \A y \in T : Sum(f, T) = f[y] + Sum(f, T \ {y})
      A == {n \in Nat : \A T \in SUBSET S : Cardinality(T) <= n => OK(T)}
<1>1. \A T \in SUBSET S : IsFiniteSet(T) /\ Cardinality(T) \in Nat
  BY FS_Subset, FS_CardinalityType
<1>2. OK({})
  BY SumEmpty
<1>3. 0 \in A
  <2> SUFFICES ASSUME NEW T \in SUBSET S, Cardinality(T) <= 0 PROVE OK(T)
    OBVIOUS
  <2>1. T = {}
    BY <1>1, FS_EmptySet
  <2> QED
    BY <1>2, <2>1
<1>4. ASSUME NEW n \in Nat, n >= 0 /\ n \in A PROVE n + 1 \in A
  <2> SUFFICES ASSUME NEW T \in SUBSET S, Cardinality(T) <= n + 1 PROVE OK(T)
    OBVIOUS
  <2>1. \A y \in T : OK(T \ {y})
    <3> SUFFICES ASSUME NEW y \in T PROVE OK(T \ {y})
      OBVIOUS
    <3>1. Cardinality(T \ {y}) = Cardinality(T) - 1
      BY <1>1, FS_RemoveElement
    <3>2. Cardinality(T \ {y}) <= n /\ T \ {y} \in SUBSET S
      BY <1>1, <3>1
    <3> HIDE DEF OK
    <3> QED
      BY <1>4, <3>2
  <2>2. CASE T = {}
    BY <1>2, <2>2
  <2>3. CASE T # {}
    <3> DEFINE c == Chosen(T)
    <3>1. c \in T
      BY <2>3, ChosenIn
    <3>2. Sum(f, T) = f[c] + Sum(f, T \ {c})
      BY <1>1, <2>3, SumChosen
    <3> HIDE DEF c
    <3>3. Sum(f, T \ {c}) \in Int /\ f[c] \in Int
      BY <2>1, <3>1
    <3>4. ASSUME NEW y \in T, y # c
          PROVE  Sum(f, T) = f[y] + Sum(f, T \ {y})
      <4>1. Sum(f, T \ {c}) = f[y] + Sum(f, (T \ {c}) \ {y})
        BY <2>1, <3>1, <3>4
      <4>2. Sum(f, T \ {y}) = f[c] + Sum(f, (T \ {y}) \ {c})
        BY <2>1, <3>1, <3>4
      <4>3. (T \ {c}) \ {y} = (T \ {y}) \ {c}
        OBVIOUS
      <4> DEFINE r == Sum(f, (T \ {y}) \ {c})
      <4>4. r \in Int /\ f[y] \in Int
        <5>1. Sum(f, T \ {y}) \in Int /\ f[y] \in Int
          BY <2>1
        <5>2. y \in T \ {c}
          BY <3>4
        <5>3. (T \ {y}) \ {c} \in SUBSET S
          OBVIOUS
        <5>4. Cardinality((T \ {y}) \ {c}) <= n
          <6>1. Cardinality(T \ {y}) = Cardinality(T) - 1
            BY <1>1, FS_RemoveElement
          <6>2. Cardinality((T \ {y}) \ {c}) = Cardinality(T \ {y}) - 1
            <7>1. IsFiniteSet(T \ {y}) /\ c \in T \ {y}
              BY <1>1, <3>1, <3>4
            <7> QED
              BY <7>1, FS_RemoveElement
          <6> QED
            BY <1>1, <6>1, <6>2
        <5>5. OK((T \ {y}) \ {c})
          <6> HIDE DEF OK
          <6> QED
            BY <1>4, <5>3, <5>4
        <5> QED
          BY <5>1, <5>5
      <4>5. Sum(f, T \ {c}) = f[y] + r /\ Sum(f, T \ {y}) = f[c] + r
        BY <4>1, <4>2, <4>3
      <4> HIDE DEF r
      <4> QED
        BY <3>2, <3>3, <4>4, <4>5
    <3> QED
      BY <3>2, <3>3, <3>4
  <2> QED
    BY <2>2, <2>3
<1> HIDE DEF A, OK
<1>5. \A n \in Nat : n >= 0 => n \in A
  BY <1>3, <1>4, NatSteps
<1>6. OK(S)
  BY <1>1, <1>5 DEF A
<1> QED
  BY <1>6 DEF OK

LEMMA SumType ==
    ASSUME NEW f, NEW S, IsFiniteSet(S), \A y \in S : f[y] \in Int
    PROVE  Sum(f, S) \in Int
<1>1. CASE S = {}
  BY <1>1, SumEmpty
<1>2. CASE S # {}
  BY <1>2, SumRemove
<1> QED
  BY <1>1, <1>2

LEMMA SumAdd ==
    ASSUME NEW f, NEW S, IsFiniteSet(S), NEW x, x \notin S,
           \A y \in S \union {x} : f[y] \in Int
    PROVE  Sum(f, S \union {x}) = f[x] + Sum(f, S)
<1>1. IsFiniteSet(S \union {x})
  BY FS_AddElement
<1>2. (S \union {x}) \ {x} = S
  OBVIOUS
<1>3. Sum(f, S \union {x}) = f[x] + Sum(f, (S \union {x}) \ {x})
  BY <1>1, SumRemove
<1> QED
  BY <1>2, <1>3

\* Comparing a sum with a combination of two others, term by term.
LEMMA SumBound ==
    ASSUME NEW S, IsFiniteSet(S), NEW f, NEW g, NEW h, NEW c \in Int,
           \A y \in S : f[y] \in Int /\ g[y] \in Int /\ h[y] \in Int,
           \A y \in S : g[y] <= f[y] + c * h[y]
    PROVE  Sum(g, S) <= Sum(f, S) + c * Sum(h, S)
<1> DEFINE Good == {T \in SUBSET S : Sum(g, T) <= Sum(f, T) + c * Sum(h, T)}
<1>1. {} \in Good
  BY SumEmpty
<1>2. ASSUME NEW T \in SUBSET S, NEW x \in S \ T, T \in Good
      PROVE  T \union {x} \in Good
  <2>1. IsFiniteSet(T)
    BY FS_Subset
  <2>2. /\ Sum(f, T \union {x}) = f[x] + Sum(f, T)
        /\ Sum(g, T \union {x}) = g[x] + Sum(g, T)
        /\ Sum(h, T \union {x}) = h[x] + Sum(h, T)
    BY <2>1, SumAdd
  <2>3. Sum(f, T) \in Int /\ Sum(g, T) \in Int /\ Sum(h, T) \in Int
    BY <2>1, SumType
  <2>4. Sum(g, T) <= Sum(f, T) + c * Sum(h, T) /\ g[x] <= f[x] + c * h[x]
    BY <1>2
  <2>5. \A a, b \in Int : c * (a + b) = c * a + c * b /\ c * a \in Int
    OBVIOUS
  <2>6. c * Sum(h, T \union {x}) = c * h[x] + c * Sum(h, T)
    BY <2>2, <2>3, <2>5
  <2>7. f[x] \in Int /\ g[x] \in Int /\ c * h[x] \in Int /\ c * Sum(h, T) \in Int
    BY <2>3, <2>5
  <2>8. Sum(g, T \union {x}) <= Sum(f, T \union {x}) + c * Sum(h, T \union {x})
    BY <2>2, <2>3, <2>4, <2>6, <2>7
  <2> QED
    BY <2>8
<1> HIDE DEF Good
<1>3. S \in Good
  BY <1>1, <1>2, SetSteps
<1> QED
  BY <1>3 DEF Good

LEMMA SumSame ==
    ASSUME NEW S, IsFiniteSet(S), NEW f, NEW g, \A y \in S : f[y] \in Int,
           \A y \in S : g[y] = f[y]
    PROVE  Sum(g, S) = Sum(f, S)
<1>1. Sum(g, S) <= Sum(f, S) + 0 * Sum(f, S)
  BY SumBound
<1>2. Sum(f, S) <= Sum(g, S) + 0 * Sum(g, S)
  BY SumBound
<1>3. Sum(f, S) \in Int /\ Sum(g, S) \in Int
  BY SumType
<1> QED
  BY <1>1, <1>2, <1>3

LEMMA SumCombined ==
    ASSUME NEW S, IsFiniteSet(S), NEW f, NEW g, NEW h, NEW c \in Int,
           \A y \in S : f[y] \in Int /\ g[y] \in Int /\ h[y] \in Int,
           \A y \in S : g[y] = f[y] + c * h[y]
    PROVE  Sum(g, S) = Sum(f, S) + c * Sum(h, S)
<1> DEFINE d == -c
<1>1. Sum(g, S) <= Sum(f, S) + c * Sum(h, S)
  BY SumBound
<1>2. d \in Int /\ \A a \in Int : d * a = - (c * a) /\ c * a \in Int
  OBVIOUS
<1>3. \A y \in S : f[y] <= g[y] + d * h[y]
  BY <1>2
<1> HIDE DEF d
<1>4. Sum(f, S) <= Sum(g, S) + d * Sum(h, S)
  BY <1>2, <1>3, SumBound
<1>5. Sum(f, S) \in Int /\ Sum(g, S) \in Int /\ Sum(h, S) \in Int
  BY SumType
<1>6. d * Sum(h, S) = - (c * Sum(h, S)) /\ c * Sum(h, S) \in Int
  BY <1>2, <1>5
<1>7. \A p, q, r, t, u \in Int : p <= q + t /\ q <= p + u /\ u = - t => p = q + t
  OBVIOUS
<1>8. d * Sum(h, S) \in Int
  BY <1>6
<1> QED
  BY <1>1, <1>4, <1>5, <1>6, <1>7, <1>8

\* A sum of which one term changes.
LEMMA SumChange ==
    ASSUME NEW S, IsFiniteSet(S), NEW f, NEW g, NEW x \in S,
           \A y \in S : f[y] \in Int, g[x] \in Int,
           \A y \in S \ {x} : g[y] = f[y]
    PROVE  Sum(g, S) = Sum(f, S) + (g[x] - f[x])
<1>1. /\ Sum(f, S) = f[x] + Sum(f, S \ {x})
      /\ Sum(g, S) = g[x] + Sum(g, S \ {x})
  BY SumRemove
<1>2. IsFiniteSet(S \ {x})
  BY FS_Subset
<1>3. Sum(g, S \ {x}) = Sum(f, S \ {x})
  BY <1>2, SumSame
<1>4. Sum(f, S \ {x}) \in Int
  BY <1>2, SumType
<1> QED
  BY <1>1, <1>3, <1>4

LEMMA SumOfZeros ==
    ASSUME NEW S, IsFiniteSet(S), NEW f, \A y \in S : f[y] = 0
    PROVE  Sum(f, S) = 0
<1> DEFINE Good == {T \in SUBSET S : Sum(f, T) = 0}
<1>1. {} \in Good
  BY SumEmpty
<1>2. ASSUME NEW T \in SUBSET S, NEW x \in S \ T, T \in Good
      PROVE  T \union {x} \in Good
  <2>1. IsFiniteSet(T)
    BY FS_Subset
  <2>2. Sum(f, T \union {x}) = f[x] + Sum(f, T)
    BY <2>1, SumAdd
  <2> QED
    BY <1>2, <2>2
<1> HIDE DEF Good
<1>3. S \in Good
  BY <1>1, <1>2, SetSteps
<1> QED
  BY <1>3 DEF Good

\* A sum of naturals is at least each of its terms.
LEMMA SumOfNaturals ==
    ASSUME NEW S, IsFiniteSet(S), NEW f, \A y \in S : f[y] \in Nat
    PROVE  Sum(f, S) \in Nat /\ \A x \in S : f[x] <= Sum(f, S)
<1>1. ASSUME NEW R, R \subseteq S PROVE Sum(f, R) \in Nat
  <2>1. IsFiniteSet(R)
    BY <1>1, FS_Subset
  <2> DEFINE Good == {T \in SUBSET R : Sum(f, T) \in Nat}
  <2>2. {} \in Good
    BY SumEmpty
  <2>3. ASSUME NEW T \in SUBSET R, NEW x \in R \ T, T \in Good
        PROVE  T \union {x} \in Good
    <3>1. IsFiniteSet(T)
      BY <2>1, FS_Subset
    <3>2. \A y \in T \union {x} : f[y] \in Nat
      BY <1>1
    <3>3. Sum(f, T \union {x}) = f[x] + Sum(f, T)
      BY <3>1, <3>2, SumAdd
    <3> QED
      BY <2>3, <3>2, <3>3
  <2> HIDE DEF Good
  <2>4. R \in Good
    BY <2>1, <2>2, <2>3, SetSteps
  <2> QED
    BY <2>4 DEF Good
<1>2. ASSUME NEW x \in S PROVE f[x] <= Sum(f, S)
  <2>1. Sum(f, S) = f[x] + Sum(f, S \ {x})
    BY SumRemove
  <2>2. Sum(f, S \ {x}) \in Nat
    BY <1>1
  <2> QED
    BY <2>1, <2>2
<1> QED
  BY <1>1, <1>2

\* A sum over a part of a set is a sum over the set.
LEMMA SumOfPart ==
    ASSUME NEW S, IsFiniteSet(S), NEW P, P \subseteq S, NEW f, \A y \in S : f[y] \in Int
    PROVE  Sum(f, P) = Sum([y \in S |-> IF y \in P THEN f[y] ELSE 0], S)
<1> DEFINE g == [y \in S |-> IF y \in P THEN f[y] ELSE 0]
           Good == {T \in SUBSET S : Sum(g, T) = Sum(f, T \intersect P)}
<1>1. {} \in Good
  BY SumEmpty
<1>2. ASSUME NEW T \in SUBSET S, NEW x \in S \ T, T \in Good
      PROVE  T \union {x} \in Good
  <2>1. IsFiniteSet(T) /\ IsFiniteSet(T \intersect P)
    BY FS_Subset
  <2>2. \A y \in S : g[y] \in Int
    OBVIOUS
  <2>3. Sum(g, T \union {x}) = g[x] + Sum(g, T)
    BY <2>1, <2>2, SumAdd
  <2>4. CASE x \in P
    <3>1. (T \union {x}) \intersect P = (T \intersect P) \union {x}
      BY <2>4
    <3>2. Sum(f, (T \intersect P) \union {x}) = f[x] + Sum(f, T \intersect P)
      BY <2>1, SumAdd
    <3> QED
      BY <1>2, <2>3, <2>4, <3>1, <3>2
  <2>5. CASE x \notin P
    <3>1. (T \union {x}) \intersect P = T \intersect P
      BY <2>5
    <3>2. Sum(f, T \intersect P) \in Int
      BY <2>1, SumType
    <3>3. Sum(g, T \union {x}) = Sum(f, T \intersect P)
      BY <1>2, <2>3, <2>5, <3>2
    <3> QED
      BY <3>1, <3>3
  <2> QED
    BY <2>4, <2>5
<1>3. S \in Good
  <2> HIDE DEF Good
  <2> QED
    BY <1>1, <1>2, SetSteps
<1>4. S \intersect P = P
  OBVIOUS
<1> QED
  BY <1>3, <1>4

----------------------------------------------------------------------------
\* Reference counts.

Refs(r, p) == Record(r, p).refs

\* The counts are exact: st gives the starting period of each delegation that
\* counts.
Counted(r, st) ==
    /\ RewardsOK(r)
    /\ r.period \in Nat \ {0}
    /\ \A d \in DOMAIN st : st[d] \in Nat /\ st[d] < r.period
    /\ \A e \in r.slashes : e.period < r.period
    /\ \A c, d \in DOMAIN st : c # d => st[c] # st[d]
    /\ \A p \in DOMAIN r.historical : p < r.period /\ r.historical[p].refs > 0
    /\ \A p \in Nat : Refs(r, p) = One(\E d \in DOMAIN st : st[d] = p)
                                     + One(\E e \in r.slashes : e.period = p)
                                     + One(p = r.period - 1)

\* Nobody but the period in progress refers to the period before it.
Untouched(r, st) ==
    /\ \A d \in DOMAIN st : st[d] # r.period - 1
    /\ \A e \in r.slashes : e.period # r.period - 1

LEMMA IncrementRefCounts ==
    ASSUME NEW r, RewardsOK(r), NEW p \in Nat
    PROVE  LET s == IncrementRef(r, p) IN
           /\ RewardsOK(s)
           /\ s.period = r.period /\ s.slashes = r.slashes
           /\ s.outstanding = r.outstanding
           /\ s.commission = r.commission /\ s.current = r.current
           /\ \A q \in Nat : Refs(s, q) = Refs(r, q) + One(q = p)
           /\ DOMAIN s.historical = DOMAIN r.historical \union {p}
           /\ \A q \in DOMAIN r.historical : s.historical[q].refs >= r.historical[q].refs
           /\ s.historical[p].refs > 0
  BY DEF IncrementRef, RewardsOK, IsPartial, Refs, Record, Put, One

\* One more reference to the period that has just ended.
LEMMA IncrementLastCounts ==
    ASSUME NEW r, RewardsOK(r), r.period \in Nat \ {0}
    PROVE  LET q == r.period - 1
               s == IncrementRef(r, q)
           IN
           /\ RewardsOK(s) /\ s.period = r.period /\ s.slashes = r.slashes
           /\ \A p \in Nat : Refs(s, p) = Refs(r, p) + One(p = q)
           /\ DOMAIN s.historical = DOMAIN r.historical \union {q}
           /\ \A p \in DOMAIN r.historical : s.historical[p].refs >= r.historical[p].refs
           /\ s.historical[q].refs > 0
<1> DEFINE q == r.period - 1
<1>1. q \in Nat
  OBVIOUS
<1> HIDE DEF q
<1>2. LET s == IncrementRef(r, q) IN
           /\ RewardsOK(s) /\ s.period = r.period /\ s.slashes = r.slashes
           /\ \A p \in Nat : Refs(s, p) = Refs(r, p) + One(p = q)
           /\ DOMAIN s.historical = DOMAIN r.historical \union {q}
           /\ \A p \in DOMAIN r.historical : s.historical[p].refs >= r.historical[p].refs
           /\ s.historical[q].refs > 0
  BY <1>1, IncrementRefCounts
<1> QED
  BY <1>2 DEF q

LEMMA DecrementRefCounts ==
    ASSUME NEW r, RewardsOK(r), NEW p \in Nat, MayDecrementRef(r, p)
    PROVE  LET s == DecrementRef(r, p) IN
           /\ RewardsOK(s)
           /\ s.period = r.period /\ s.slashes = r.slashes
           /\ s.outstanding = r.outstanding
           /\ s.commission = r.commission /\ s.current = r.current
           /\ \A q \in Nat : Refs(s, q) = Refs(r, q) - One(q = p)
           /\ DOMAIN s.historical \subseteq DOMAIN r.historical
           /\ (\A q \in DOMAIN r.historical : r.historical[q].refs > 0)
                => \A q \in DOMAIN s.historical : s.historical[q].refs > 0
<1>1. p \in DOMAIN r.historical /\ Record(r, p) = r.historical[p]
  BY DEF MayDecrementRef, Record, RewardsOK, IsPartial
<1>2. CASE Record(r, p).refs = 1
  BY <1>1, <1>2 DEF DecrementRef, RewardsOK, IsPartial, Refs, Record, Drop, One
<1>3. CASE Record(r, p).refs # 1
  BY <1>1, <1>3 DEF DecrementRef, MayDecrementRef, RewardsOK, IsPartial, Refs, Record, Put, One
<1> QED
  BY <1>2, <1>3

\* Ending a period moves the reference of the period in progress.
LEMMA EndPeriodCounts ==
    ASSUME NEW r, NEW st, Counted(r, st), NEW tokens \in Nat
    PROVE  LET s == EndPeriod(r, tokens) IN
           /\ Counted(s, st) /\ Untouched(s, st)
           /\ s.period = r.period + 1 /\ s.slashes = r.slashes
           /\ Refs(s, r.period) = 1
<1> DEFINE t == DecrementRef(r, r.period - 1)
           s == EndPeriod(r, tokens)
<1>1. /\ RewardsOK(r) /\ r.period \in Nat \ {0} /\ r.period - 1 \in Nat
      /\ \A d \in DOMAIN st : st[d] \in Nat
  BY DEF Counted
<1>2. MayDecrementRef(r, r.period - 1)
  BY <1>1 DEF Counted, MayDecrementRef, Refs, One
<1>3. /\ RewardsOK(t)
      /\ \A q \in Nat : Refs(t, q) = Refs(r, q) - One(q = r.period - 1)
      /\ DOMAIN t.historical \subseteq DOMAIN r.historical
      /\ \A q \in DOMAIN t.historical : t.historical[q].refs > 0
  BY <1>1, <1>2, DecrementRefCounts DEF Counted
<1>4. EndedRatio(r, tokens) \in Int /\ Unclaimed(r, tokens) \in Int
  BY <1>1 DEF EndedRatio, Unclaimed, Record, RewardsOK, IsPartial
<1>5. /\ RewardsOK(s)
      /\ s.period = r.period + 1 /\ s.slashes = r.slashes
      /\ s.historical = Put(t.historical, r.period,
                            [ratio |-> EndedRatio(r, tokens), refs |-> 1])
  BY <1>1, <1>3, <1>4 DEF EndPeriod, RewardsOK, IsPartial, Put
<1>6. \A q \in Nat : Refs(s, q) = IF q = r.period THEN 1 ELSE Refs(t, q)
  BY <1>5 DEF Refs, Record, Put
<1>7. \A q \in DOMAIN s.historical : q < s.period /\ s.historical[q].refs > 0
  BY <1>1, <1>3, <1>5 DEF Put, Counted, RewardsOK, IsPartial
<1>8. Untouched(s, st)
  BY <1>1, <1>5 DEF Untouched, Counted
<1>9. ASSUME NEW p \in Nat
      PROVE  Refs(s, p) = One(\E d \in DOMAIN st : st[d] = p)
                            + One(\E e \in s.slashes : e.period = p)
                            + One(p = s.period - 1)
  <2>1. CASE p = r.period
    <3>1. ~ \E d \in DOMAIN st : st[d] = p
      BY <2>1 DEF Counted
    <3>2. ~ \E e \in s.slashes : e.period = p
      BY <1>1, <1>5, <2>1 DEF Counted, RewardsOK
    <3> QED
      BY <1>1, <1>5, <1>6, <2>1, <3>1, <3>2 DEF One
  <2>2. CASE p # r.period
    <3>1. Refs(s, p) = Refs(r, p) - One(p = r.period - 1)
      BY <1>3, <1>6, <2>2
    <3>2. One(p = s.period - 1) = 0
      BY <1>1, <1>5, <2>2 DEF One
    <3>3. Refs(r, p) = One(\E d \in DOMAIN st : st[d] = p)
                        + One(\E e \in r.slashes : e.period = p)
                        + One(p = r.period - 1)
      BY DEF Counted
    <3> QED
      BY <1>5, <3>1, <3>2, <3>3 DEF One
  <2> QED
    BY <2>1, <2>2
<1>10. Counted(s, st)
  <2>1. \A e \in s.slashes : e.period < s.period
    BY <1>1, <1>5 DEF Counted, RewardsOK, SlashEvent
  <2>2. \A d \in DOMAIN st : st[d] \in Nat /\ st[d] < s.period
    BY <1>1, <1>5 DEF Counted
  <2>3. \A c, d \in DOMAIN st : c # d => st[c] # st[d]
    BY DEF Counted
  <2>4. RewardsOK(s) /\ s.period \in Nat \ {0}
    BY <1>1, <1>5
  <2> HIDE DEF s
  <2> QED
    BY <1>7, <1>9, <2>1, <2>2, <2>3, <2>4 DEF Counted
<1> QED
  BY <1>1, <1>5, <1>6, <1>8, <1>10

\* Amounts do not matter to the counts.
LEMMA CountedOfSame ==
    ASSUME NEW r, NEW s, NEW st, Counted(r, st), RewardsOK(s),
           s.period = r.period, s.historical = r.historical, s.slashes = r.slashes
    PROVE  /\ Counted(s, st)
           /\ Untouched(r, st) => Untouched(s, st)
<1>1. \A p : Refs(s, p) = Refs(r, p)
  BY DEF Refs, Record
<1>2. \A p \in DOMAIN s.historical : p < s.period /\ s.historical[p].refs > 0
  BY DEF Counted
<1>3. ASSUME NEW p \in Nat
      PROVE  Refs(s, p) = One(\E d \in DOMAIN st : st[d] = p)
                            + One(\E e \in s.slashes : e.period = p)
                            + One(p = s.period - 1)
  <2>1. Refs(r, p) = One(\E d \in DOMAIN st : st[d] = p)
                        + One(\E e \in r.slashes : e.period = p)
                        + One(p = r.period - 1)
    BY DEF Counted
  <2> QED
    BY <1>1, <2>1
<1>4. /\ s.period \in Nat \ {0}
      /\ \A d \in DOMAIN st : st[d] \in Nat /\ st[d] < s.period
      /\ \A e \in s.slashes : e.period < s.period
      /\ \A c, d \in DOMAIN st : c # d => st[c] # st[d]
  BY DEF Counted
<1>5. Counted(s, st)
  BY <1>2, <1>3, <1>4 DEF Counted
<1> QED
  BY <1>5 DEF Untouched

\* A delegation starts after the period that has just ended.
LEMMA StartCounts ==
    ASSUME NEW r, NEW st, Counted(r, st), Untouched(r, st), NEW d, d \notin DOMAIN st
    PROVE  Counted(IncrementRef(r, r.period - 1), Put(st, d, r.period - 1))
<1> DEFINE q == r.period - 1
           s == IncrementRef(r, q)
           su == Put(st, d, q)
<1>1. RewardsOK(r) /\ q \in Nat /\ r.period \in Nat \ {0}
  BY DEF Counted
<1>2. /\ RewardsOK(s) /\ s.period = r.period /\ s.slashes = r.slashes
      /\ \A p \in Nat : Refs(s, p) = Refs(r, p) + One(p = q)
      /\ DOMAIN s.historical = DOMAIN r.historical \union {q}
      /\ \A p \in DOMAIN r.historical : s.historical[p].refs >= r.historical[p].refs
      /\ s.historical[q].refs > 0
  BY <1>1, IncrementLastCounts
<1>3. \A p \in DOMAIN s.historical : p < s.period /\ s.historical[p].refs > 0
  BY <1>1, <1>2 DEF Counted, RewardsOK, IsPartial
<1>4. \A p : (\E c \in DOMAIN su : su[c] = p) <=> p = q \/ \E c \in DOMAIN st : st[c] = p
  BY DEF Put
<1>5. ASSUME NEW p \in Nat
      PROVE  Refs(s, p) = One(\E c \in DOMAIN su : su[c] = p)
                            + One(\E e \in s.slashes : e.period = p)
                            + One(p = s.period - 1)
  <2>1. Refs(r, p) = One(\E c \in DOMAIN st : st[c] = p)
                        + One(\E e \in r.slashes : e.period = p)
                        + One(p = r.period - 1)
    BY DEF Counted
  <2>2. CASE p = q
    <3>1. (\E c \in DOMAIN su : su[c] = p) /\ ~ \E c \in DOMAIN st : st[c] = p
      BY <1>4, <2>2 DEF Untouched
    <3> HIDE DEF su, s
    <3> QED
      BY <1>1, <1>2, <2>1, <2>2, <3>1 DEF One
  <2>3. CASE p # q
    <3>1. (\E c \in DOMAIN su : su[c] = p) <=> (\E c \in DOMAIN st : st[c] = p)
      BY <1>4, <2>3
    <3>2. Refs(s, p) = Refs(r, p)
      BY <1>1, <1>2, <2>3 DEF One, Refs, Record, RewardsOK, IsPartial
    <3> HIDE DEF su, s
    <3> QED
      BY <1>2, <2>1, <3>1, <3>2 DEF One
  <2> QED
    BY <2>2, <2>3
<1>6. \A c \in DOMAIN su : su[c] \in Nat /\ su[c] < s.period
  BY <1>1, <1>2 DEF Put, Counted
<1>7. \A c, e \in DOMAIN su : c # e => su[c] # su[e]
  BY DEF Put, Counted, Untouched
<1>8. \A e \in s.slashes : e.period < s.period
  BY <1>2 DEF Counted
<1> HIDE DEF su, s
<1>9. Counted(s, su)
  BY <1>1, <1>2, <1>3, <1>5, <1>6, <1>7, <1>8 DEF Counted
<1> QED
  BY <1>9 DEF s, su

\* A delegation that stops counting gives its reference back.
LEMMA StopCounts ==
    ASSUME NEW r, NEW st, Counted(r, st), NEW d \in DOMAIN st
    PROVE  /\ MayDecrementRef(r, st[d])
           /\ Counted(DecrementRef(r, st[d]), Drop(st, d))
           /\ Untouched(r, st) => Untouched(DecrementRef(r, st[d]), Drop(st, d))
<1> DEFINE q == st[d]
           s == DecrementRef(r, q)
           su == Drop(st, d)
<1>1. RewardsOK(r) /\ q \in Nat /\ q < r.period /\ r.period \in Nat \ {0}
  BY DEF Counted
<1>2. MayDecrementRef(r, q)
  BY <1>1 DEF Counted, MayDecrementRef, Refs, One
<1>3. /\ RewardsOK(s) /\ s.period = r.period /\ s.slashes = r.slashes
      /\ \A p \in Nat : Refs(s, p) = Refs(r, p) - One(p = q)
      /\ DOMAIN s.historical \subseteq DOMAIN r.historical
      /\ \A p \in DOMAIN s.historical : s.historical[p].refs > 0
  BY <1>1, <1>2, DecrementRefCounts DEF Counted
<1>4. \A p : (\E c \in DOMAIN su : su[c] = p) <=> p # q /\ \E c \in DOMAIN st : st[c] = p
  BY DEF Drop, Counted
<1>5. ASSUME NEW p \in Nat
      PROVE  Refs(s, p) = One(\E c \in DOMAIN su : su[c] = p)
                            + One(\E e \in s.slashes : e.period = p)
                            + One(p = s.period - 1)
  <2>1. Refs(r, p) = One(\E c \in DOMAIN st : st[c] = p)
                        + One(\E e \in r.slashes : e.period = p)
                        + One(p = r.period - 1)
    BY DEF Counted
  <2>2. Refs(s, p) = Refs(r, p) - One(p = q)
    BY <1>3
  <2>3. CASE p = q
    <3>1. (\E c \in DOMAIN st : st[c] = p) /\ ~ \E c \in DOMAIN su : su[c] = p
      BY <1>4, <2>3
    <3> HIDE DEF s, su
    <3> QED
      BY <1>3, <2>1, <2>2, <2>3, <3>1 DEF One
  <2>4. CASE p # q
    <3>1. (\E c \in DOMAIN su : su[c] = p) <=> (\E c \in DOMAIN st : st[c] = p)
      BY <1>4, <2>4
    <3> HIDE DEF s, su
    <3> QED
      BY <1>3, <2>1, <2>2, <2>4, <3>1 DEF One
  <2> QED
    BY <2>3, <2>4
<1>6. /\ \A c \in DOMAIN su : su[c] \in Nat /\ su[c] < s.period
      /\ \A c, e \in DOMAIN su : c # e => su[c] # su[e]
  BY <1>1, <1>3 DEF Drop, Counted
<1>7. /\ \A e \in s.slashes : e.period < s.period
      /\ \A p \in DOMAIN s.historical : p < s.period /\ s.historical[p].refs > 0
  BY <1>3 DEF Counted
<1>8. Untouched(r, st) => Untouched(s, su)
  BY <1>3 DEF Untouched, Drop
<1> HIDE DEF su, s
<1>9. Counted(s, su)
  BY <1>1, <1>3, <1>5, <1>6, <1>7 DEF Counted
<1> QED
  BY <1>2, <1>8, <1>9 DEF s, su

\* A slash event refers to the period it ended.
LEMMA SlashCounts ==
    ASSUME NEW r, NEW st, Counted(r, st), Untouched(r, st),
           NEW h \in Nat, NEW f \in Int
    PROVE  Counted(WithSlash(r, h, f), st)
<1> DEFINE q == r.period - 1
           event == [height |-> h, period |-> q, fraction |-> f]
           s == IncrementRef(r, q)
           t == [s EXCEPT !.slashes = @ \union {event}]
<1>1. RewardsOK(r) /\ q \in Nat /\ r.period \in Nat \ {0}
  BY DEF Counted
<1>2. /\ RewardsOK(s) /\ s.period = r.period /\ s.slashes = r.slashes
      /\ \A p \in Nat : Refs(s, p) = Refs(r, p) + One(p = q)
      /\ DOMAIN s.historical = DOMAIN r.historical \union {q}
      /\ \A p \in DOMAIN r.historical : s.historical[p].refs >= r.historical[p].refs
      /\ s.historical[q].refs > 0
  BY <1>1, IncrementLastCounts
<1>3. event \in SlashEvent /\ event.period = q
  BY <1>1 DEF SlashEvent
<1> HIDE DEF event, s
<1>4. /\ t.slashes = s.slashes \union {event} /\ t.period = s.period
      /\ t.historical = s.historical /\ RewardsOK(t)
  BY <1>2, <1>3 DEF RewardsOK, IsPartial
<1> HIDE DEF t
<1>5. \A p \in DOMAIN t.historical : p < t.period /\ t.historical[p].refs > 0
  BY <1>1, <1>2, <1>4 DEF Counted, RewardsOK, IsPartial
<1>6. \A p : (\E e \in t.slashes : e.period = p) <=> p = q \/ \E e \in r.slashes : e.period = p
  BY <1>2, <1>3, <1>4
<1>7. ASSUME NEW p \in Nat
      PROVE  Refs(t, p) = One(\E d \in DOMAIN st : st[d] = p)
                            + One(\E e \in t.slashes : e.period = p)
                            + One(p = t.period - 1)
  <2>1. Refs(r, p) = One(\E d \in DOMAIN st : st[d] = p)
                        + One(\E e \in r.slashes : e.period = p)
                        + One(p = r.period - 1)
    BY DEF Counted
  <2>2. Refs(t, p) = Refs(r, p) + One(p = q)
    BY <1>2, <1>4 DEF Refs, Record
  <2>3. CASE p = q
    <3>1. (\E e \in t.slashes : e.period = p) /\ ~ \E e \in r.slashes : e.period = p
      BY <1>6, <2>3 DEF Untouched
    <3> QED
      BY <1>1, <1>2, <1>4, <2>1, <2>2, <2>3, <3>1 DEF One
  <2>4. CASE p # q
    <3>1. (\E e \in t.slashes : e.period = p) <=> (\E e \in r.slashes : e.period = p)
      BY <1>6, <2>4
    <3> QED
      BY <1>1, <1>2, <1>4, <2>1, <2>2, <2>4, <3>1 DEF One
  <2> QED
    BY <2>3, <2>4
<1>8. /\ \A d \in DOMAIN st : st[d] \in Nat /\ st[d] < t.period
      /\ \A c, d \in DOMAIN st : c # d => st[c] # st[d]
  BY <1>2, <1>4 DEF Counted
<1>9. \A e \in t.slashes : e.period < t.period
  BY <1>1, <1>2, <1>3, <1>4 DEF Counted
<1>10. t.period \in Nat \ {0}
  BY <1>1, <1>2, <1>4
<1>11. Counted(t, st)
  BY <1>4, <1>5, <1>7, <1>8, <1>9, <1>10 DEF Counted
<1> QED
  BY <1>11 DEF t, s, event, WithSlash

\* What initializeValidator writes where nothing is left of the old periods.
LEMMA FreshCounts ==
    ASSUME NEW r, r.historical = Empty, r.slashes = {}
    PROVE  Counted([outstanding |-> 0, commission |-> 0, current |-> 0, period |-> 1,
                    historical  |-> Put(r.historical, 0, [ratio |-> 0, refs |-> 1]),
                    slashes     |-> r.slashes], Empty)
<1> DEFINE h == Put(r.historical, 0, [ratio |-> 0, refs |-> 1])
           s == [outstanding |-> 0, commission |-> 0, current |-> 0, period |-> 1,
                 historical  |-> h, slashes |-> r.slashes]
<1>1. DOMAIN h = {0} /\ h[0] = [ratio |-> 0, refs |-> 1] /\ h \in [{0} -> [ratio : Int, refs : Nat]]
  BY DEF Put, Empty
<1> HIDE DEF h
<1>2. RewardsOK(s)
  BY <1>1 DEF RewardsOK, IsPartial
<1>3. \A p \in Nat : Refs(s, p) = One(p = 0)
  BY <1>1 DEF Refs, Record, One
<1>4. DOMAIN Empty = {}
  BY DEF Empty
<1>5. s.period = 1 /\ s.slashes = {} /\ DOMAIN s.historical = {0} /\ s.historical[0].refs = 1
  BY <1>1
<1> HIDE DEF s
<1>6. \A p \in Nat : Refs(s, p) = One(\E d \in DOMAIN Empty : Empty[d] = p)
                                    + One(\E e \in s.slashes : e.period = p)
                                    + One(p = s.period - 1)
  BY <1>3, <1>4, <1>5 DEF One
<1>7. /\ \A d \in DOMAIN Empty : Empty[d] \in Nat /\ Empty[d] < s.period
      /\ \A c, d \in DOMAIN Empty : c # d => Empty[c] # Empty[d]
  BY <1>4
<1>8. /\ \A p \in DOMAIN s.historical : p < s.period /\ s.historical[p].refs > 0
      /\ \A e \in s.slashes : e.period < s.period
      /\ s.period \in Nat \ {0}
  BY <1>5
<1>9. Counted(s, Empty)
  BY <1>2, <1>6, <1>7, <1>8 DEF Counted
<1> QED
  BY <1>9 DEF s, h

----------------------------------------------------------------------------
\* What a delegation has earned.

Ratio(r, p) == Record(r, p).ratio

\* One period of the recursion in Accrued, from what there was before it.
Base(info) == [reward |-> 0, stake |-> info.stake, from |-> info.period]

AfterSlash(r, p, b, e) ==
    [reward |-> b.reward + Between(r, b.from, p, b.stake),
     stake  |-> (b.stake * (Precision - e.fraction)) \div Precision,
     from   |-> p]

After(r, info, h, p, b) ==
    IF SlashesAt(r, info, h, p) = {} THEN b
    ELSE AfterSlash(r, p, b, CHOOSE e \in SlashesAt(r, info, h, p) : TRUE)

Accruing(r, info, h, n, At) ==
    At = [p \in info.period .. n |->
            IF p = info.period THEN Base(info) ELSE After(r, info, h, p, At[p - 1])]

LEMMA AccruedUnfolds ==
    ASSUME NEW r, NEW info, NEW h, NEW n
    PROVE  Accrued(r, info, h, n) = (CHOOSE At : Accruing(r, info, h, n, At))[n]
  BY DEF Accrued, Accruing, Base, After, AfterSlash

LEMMA AccruingExists ==
    ASSUME NEW r, NEW info, NEW h, info.period \in Nat, NEW n \in Nat, n >= info.period
    PROVE  \E At : Accruing(r, info, h, n, At)
<1> DEFINE lo == info.period
           A == {m \in Nat : \E At : Accruing(r, info, h, m, At)}
<1>1. lo \in A
  <2> DEFINE At == [p \in lo .. lo |-> Base(info)]
  <2>1. Accruing(r, info, h, lo, At)
    BY DEF Accruing
  <2> QED
    BY <2>1
<1>2. ASSUME NEW m \in Nat, m >= lo /\ m \in A PROVE m + 1 \in A
  <2>1. PICK g : Accruing(r, info, h, m, g)
    BY <1>2
  <2>2. \A p \in lo .. m : g[p] = IF p = lo THEN Base(info) ELSE After(r, info, h, p, g[p - 1])
    BY <2>1 DEF Accruing
  <2> DEFINE At == [p \in lo .. (m + 1) |->
                      IF p = lo THEN Base(info) ELSE After(r, info, h, p, g[p - 1])]
  <2>3. \A p \in lo .. m : At[p] = g[p]
    BY <2>2
  <2>4. \A p \in lo .. (m + 1) : p # lo => At[p - 1] = g[p - 1]
    <3> SUFFICES ASSUME NEW p \in lo .. (m + 1), p # lo PROVE At[p - 1] = g[p - 1]
      OBVIOUS
    <3>1. p - 1 \in lo .. m
      OBVIOUS
    <3> HIDE DEF At
    <3> QED
      BY <2>3, <3>1
  <2>5. Accruing(r, info, h, m + 1, At)
    <3>1. At = [p \in lo .. (m + 1) |->
                  IF p = lo THEN Base(info) ELSE After(r, info, h, p, g[p - 1])]
      OBVIOUS
    <3> HIDE DEF At
    <3>2. At = [p \in lo .. (m + 1) |->
                  IF p = lo THEN Base(info) ELSE After(r, info, h, p, At[p - 1])]
      BY <2>4, <3>1
    <3> QED
      BY <3>2 DEF Accruing
  <2> HIDE DEF At
  <2> QED
    BY <2>5
<1> HIDE DEF A
<1>3. \A m \in Nat : m >= lo => m \in A
  BY <1>1, <1>2, NatSteps
<1> QED
  BY <1>3 DEF A

\* Accrued follows its recursion, whatever the period it ends with.
LEMMA AccruedSteps ==
    ASSUME NEW r, NEW info, NEW h, info.period \in Nat
    PROVE  /\ Accrued(r, info, h, info.period) = Base(info)
           /\ \A n \in Nat : n > info.period =>
                Accrued(r, info, h, n) = After(r, info, h, n, Accrued(r, info, h, n - 1))
<1> DEFINE lo == info.period
           F(n) == CHOOSE At : Accruing(r, info, h, n, At)
<1>1. \A n \in Nat : n >= lo => Accruing(r, info, h, n, F(n))
  BY AccruingExists
<1>2. \A n : Accrued(r, info, h, n) = F(n)[n]
  BY AccruedUnfolds
<1> HIDE DEF F
<1>3. \A n \in Nat : n >= lo =>
        \A p \in lo .. n : F(n)[p] = IF p = lo THEN Base(info)
                                     ELSE After(r, info, h, p, F(n)[p - 1])
  BY <1>1 DEF Accruing
<1>4. ASSUME NEW n \in Nat, n > lo PROVE F(n)[n - 1] = F(n - 1)[n - 1]
  <2> DEFINE A == {p \in Nat : p <= n - 1 => F(n)[p] = F(n - 1)[p]}
  <2>1. n - 1 \in Nat /\ n - 1 >= lo /\ n >= lo
    BY <1>4
  <2>2. lo \in A
    BY <1>3, <2>1
  <2>3. ASSUME NEW p \in Nat, p >= lo /\ p \in A PROVE p + 1 \in A
    <3> SUFFICES ASSUME p + 1 <= n - 1 PROVE F(n)[p + 1] = F(n - 1)[p + 1]
      OBVIOUS
    <3>1. F(n)[p] = F(n - 1)[p]
      BY <2>3
    <3>2. p + 1 \in lo .. n /\ p + 1 \in lo .. (n - 1) /\ p + 1 # lo /\ (p + 1) - 1 = p
      BY <2>1, <2>3
    <3> QED
      BY <1>3, <2>1, <3>1, <3>2
  <2> HIDE DEF A
  <2>4. \A p \in Nat : p >= lo => p \in A
    BY <2>2, <2>3, NatSteps
  <2>5. n - 1 \in A
    BY <2>1, <2>4
  <2> QED
    BY <2>1, <2>5 DEF A
<1>5. F(lo)[lo] = Base(info)
  BY <1>3
<1>6. ASSUME NEW n \in Nat, n > lo
      PROVE  F(n)[n] = After(r, info, h, n, F(n - 1)[n - 1])
  BY <1>3, <1>4, <1>6
<1> QED
  BY <1>2, <1>5, <1>6

\* What has accrued depends on the slash events and on the ratios it is computed
\* from, and on nothing else.
LEMMA AccruedSame ==
    ASSUME NEW r, NEW s, NEW info, NEW h, NEW i, info.period \in Nat,
           NEW n \in Nat, n >= info.period,
           \A p \in (info.period + 1) .. n : SlashesAt(s, info, i, p) = SlashesAt(r, info, h, p),
           \A p \in info.period .. n :
                p = info.period \/ SlashesAt(r, info, h, p) # {} => Ratio(s, p) = Ratio(r, p)
    PROVE  /\ Accrued(s, info, i, n) = Accrued(r, info, h, n)
           /\ Accrued(r, info, h, n).from \in info.period .. n
           /\ LET from == Accrued(r, info, h, n).from IN
              from = info.period \/ SlashesAt(r, info, h, from) # {}
<1> DEFINE lo == info.period
           a(p) == Accrued(r, info, h, p)
           b(p) == Accrued(s, info, i, p)
           Known(p) == p = lo \/ SlashesAt(r, info, h, p) # {}
           A == {p \in Nat : p <= n => /\ b(p) = a(p)
                                       /\ a(p).from \in lo .. p
                                       /\ Known(a(p).from)}
<1>1. /\ a(lo) = Base(info) /\ b(lo) = Base(info)
      /\ \A p \in Nat : p > lo => a(p) = After(r, info, h, p, a(p - 1))
      /\ \A p \in Nat : p > lo => b(p) = After(s, info, i, p, b(p - 1))
  BY AccruedSteps
<1> HIDE DEF a, b
<1>2. lo \in A
  BY <1>1 DEF Base
<1>3. ASSUME NEW p \in Nat, p >= lo /\ p \in A PROVE p + 1 \in A
  <2> SUFFICES ASSUME p + 1 <= n
               PROVE  /\ b(p + 1) = a(p + 1)
                      /\ a(p + 1).from \in lo .. (p + 1)
                      /\ Known(a(p + 1).from)
    OBVIOUS
  <2>1. b(p) = a(p) /\ a(p).from \in lo .. p /\ Known(a(p).from)
    BY <1>3
  <2> DEFINE q == p + 1
  <2>2. q \in Nat /\ q > lo /\ q - 1 = p /\ q \in (lo + 1) .. n /\ q \in lo .. n
    BY <1>3
  <2>3. a(q) = After(r, info, h, q, a(p)) /\ b(q) = After(s, info, i, q, a(p))
    BY <1>1, <2>1, <2>2
  <2>4. SlashesAt(s, info, i, q) = SlashesAt(r, info, h, q)
    BY <2>2
  <2>5. Ratio(s, a(p).from) = Ratio(r, a(p).from)
    BY <2>1, <2>2
  <2> HIDE DEF q
  <2>6. CASE SlashesAt(r, info, h, q) = {}
    <3>1. a(q) = a(p) /\ b(q) = a(p)
      BY <2>3, <2>4, <2>6 DEF After
    <3> QED
      BY <2>1, <2>2, <3>1 DEF q
  <2>7. CASE SlashesAt(r, info, h, q) # {}
    <3>1. Ratio(s, q) = Ratio(r, q)
      BY <2>2, <2>7
    <3> DEFINE e == CHOOSE e \in SlashesAt(r, info, h, q) : TRUE
    <3>2. a(q) = AfterSlash(r, q, a(p), e) /\ b(q) = AfterSlash(s, q, a(p), e)
      BY <2>3, <2>4, <2>7 DEF After
    <3> HIDE DEF e
    <3>3. a(q) = b(q) /\ a(q).from = q
      BY <2>5, <3>1, <3>2 DEF AfterSlash, Between, Ratio
    <3> QED
      BY <2>2, <2>7, <3>3 DEF q
  <2> QED
    BY <2>6, <2>7
<1> HIDE DEF A
<1>4. \A p \in Nat : p >= lo => p \in A
  BY <1>2, <1>3, NatSteps
<1>5. n \in A
  BY <1>4
<1> QED
  BY <1>5 DEF A, a, b

----------------------------------------------------------------------------
\* Arithmetic of decimals.

LEMMA Quotient ==
    ASSUME NEW a \in Int, NEW b \in Nat \ {0}
    PROVE  /\ a \div b \in Int
           /\ b * (a \div b) <= a /\ a < b * (a \div b) + b
           /\ a >= 0 => a \div b >= 0
  OBVIOUS

LEMMA Grows ==
    ASSUME NEW c \in Nat, NEW a \in Int, NEW b \in Int, a <= b
    PROVE  c * a <= c * b /\ a * c <= b * c
  OBVIOUS

LEMMA Cancels ==
    ASSUME NEW c \in Nat \ {0}, NEW a \in Int, NEW b \in Int, c * a <= c * b
    PROVE  a <= b
<1>1. SUFFICES ASSUME b + 1 <= a PROVE FALSE
  OBVIOUS
<1>2. c * (b + 1) <= c * a
  BY <1>1, Grows
<1>3. c * (b + 1) = c * b + c
  OBVIOUS
<1>4. c * a \in Int /\ c * b \in Int
  OBVIOUS
<1> QED
  BY <1>2, <1>3, <1>4

\* The quotient is the greatest integer below the fraction.
LEMMA QuotientIsGreatest ==
    ASSUME NEW a \in Int, NEW b \in Nat \ {0}, NEW x \in Int, b * x <= a
    PROVE  x <= a \div b
<1> DEFINE q == a \div b
<1>1. q \in Int /\ a < b * q + b
  BY Quotient
<1> HIDE DEF q
<1>2. b * (q + 1) = b * q + b /\ b * x \in Int /\ b * q \in Int
  BY <1>1
<1>3. b * x <= b * (q + 1) - 1
  BY <1>1, <1>2
<1>4. SUFFICES ASSUME q + 1 <= x PROVE FALSE
  BY <1>1 DEF q
<1>5. b * (q + 1) <= b * x
  BY <1>1, <1>4, Grows
<1> QED
  BY <1>1, <1>2, <1>3, <1>5

----------------------------------------------------------------------------
\* What a validator owes to its delegations.

Periods(infos) == [d \in DOMAIN infos |-> infos[d].period]

Acc(r, info, h) == Accrued(r, info, h, r.period - 1)

LastRatio(r) == Ratio(r, r.period - 1)

\* What a delegation has earned in the periods that have ended, before rounding.
Value(r, info, h) ==
    Precision * Acc(r, info, h).reward
        + Acc(r, info, h).stake * (LastRatio(r) - Ratio(r, Acc(r, info, h).from))

Values(A, r, infos, h) ==
    [d \in A |-> IF d \in DOMAIN infos THEN Value(r, infos[d], h) ELSE 0]

\* A delegation is older than the slash events of later periods.
Dated(r, info, h) ==
    /\ info \in StartingInfo /\ info.height <= h
    /\ \A e \in r.slashes : e.period > info.period => info.height <= e.height

\* What it has accrued is no more than its stake, cap, allows.
Within(r, info, cap, h) ==
    /\ Acc(r, info, h).reward \in Nat
    /\ Acc(r, info, h).stake \in Nat /\ Acc(r, info, h).stake <= cap
    /\ Acc(r, info, h).from \in DOMAIN r.historical

Ordered(r) ==
    \A p, q \in DOMAIN r.historical : p <= q => r.historical[p].ratio <= r.historical[q].ratio

Events(r, h) == \A e \in r.slashes : e.height <= h /\ e.fraction \in 0 .. Precision

Margin(r) == r.outstanding - r.commission - r.current

\* The rewards of a validator cover what its delegations have earned; infos are
\* the starting infos that count and cap the stakes as they are now.
Sound(A, r, infos, cap, h) ==
    /\ r.commission >= 0 /\ r.current >= 0
    /\ Ordered(r)
    /\ Events(r, h)
    /\ DOMAIN infos \subseteq A
    /\ \A d \in DOMAIN infos : Dated(r, infos[d], h) /\ Within(r, infos[d], cap[d], h)
    /\ Sum(Values(A, r, infos, h), A) <= Precision * Margin(r)

\* Nothing that counts refers to a record that is missing.
LEMMA KnownPeriods ==
    ASSUME NEW r, NEW infos, Counted(r, Periods(infos))
    PROVE  /\ RewardsOK(r) /\ r.period \in Nat \ {0} /\ r.period - 1 \in Nat
           /\ r.period - 1 \in DOMAIN r.historical
           /\ \A d \in DOMAIN infos : /\ infos[d].period \in DOMAIN r.historical
                                      /\ infos[d].period < r.period
           /\ \A e \in r.slashes : e \in SlashEvent /\ e.period \in DOMAIN r.historical /\ e.period < r.period
           /\ \A p \in DOMAIN r.historical : /\ p \in Nat /\ p <= r.period - 1
                                             /\ r.historical[p].ratio \in Int
                                             /\ Ratio(r, p) = r.historical[p].ratio
<1>1. RewardsOK(r) /\ r.period \in Nat \ {0} /\ r.period - 1 \in Nat
  BY DEF Counted
<1>2. \A p \in Nat : Refs(r, p) > 0 => p \in DOMAIN r.historical
  BY DEF Refs, Record
<1>3. DOMAIN Periods(infos) = DOMAIN infos /\ \A d \in DOMAIN infos : Periods(infos)[d] = infos[d].period
  BY DEF Periods
<1>4. \A d \in DOMAIN infos : infos[d].period \in Nat /\ infos[d].period < r.period
  BY <1>3 DEF Counted
<1>5. \A e \in r.slashes : e \in SlashEvent /\ e.period < r.period /\ e.period \in Nat
  BY <1>1 DEF Counted, RewardsOK, SlashEvent
<1>6. \A p \in Nat : Refs(r, p) = One(\E d \in DOMAIN infos : infos[d].period = p)
                                    + One(\E e \in r.slashes : e.period = p)
                                    + One(p = r.period - 1)
  <2>1. \A p : (\E d \in DOMAIN Periods(infos) : Periods(infos)[d] = p)
                  <=> \E d \in DOMAIN infos : infos[d].period = p
    BY <1>3
  <2> SUFFICES ASSUME NEW p \in Nat
               PROVE  Refs(r, p) = One(\E d \in DOMAIN infos : infos[d].period = p)
                                    + One(\E e \in r.slashes : e.period = p)
                                    + One(p = r.period - 1)
    OBVIOUS
  <2>2. Refs(r, p) = One(\E d \in DOMAIN Periods(infos) : Periods(infos)[d] = p)
                      + One(\E e \in r.slashes : e.period = p)
                      + One(p = r.period - 1)
    BY DEF Counted
  <2> QED
    BY <2>1, <2>2 DEF One
<1>7. Refs(r, r.period - 1) > 0
  BY <1>1, <1>6 DEF One
<1>8. \A d \in DOMAIN infos : Refs(r, infos[d].period) > 0
  BY <1>4, <1>6 DEF One
<1>9. \A e \in r.slashes : Refs(r, e.period) > 0
  BY <1>5, <1>6 DEF One
<1>10. \A p \in DOMAIN r.historical : /\ p \in Nat /\ p <= r.period - 1
                                      /\ r.historical[p].ratio \in Int
                                      /\ Ratio(r, p) = r.historical[p].ratio
  BY <1>1 DEF Counted, RewardsOK, IsPartial, Ratio, Record
<1> QED
  BY <1>1, <1>2, <1>4, <1>5, <1>7, <1>8, <1>9, <1>10

\* s is r some calls later: the ratios that info and the events refer to are there.
Continues(r, s, info, h, i) ==
    /\ r.period \in Nat /\ info.period \in Nat /\ info.period < r.period
    /\ h \in Nat /\ i \in Nat /\ h <= i
    /\ \A e \in r.slashes : e \in SlashEvent /\ e.height <= h /\ e.period < r.period
    /\ s.slashes = r.slashes
    /\ s.period \in {r.period, r.period + 1}
    /\ Ratio(s, info.period) = Ratio(r, info.period)
    /\ \A e \in r.slashes : Ratio(s, e.period) = Ratio(r, e.period)

\* What has accrued stays the same.
LEMMA AccruedKept ==
    ASSUME NEW r, NEW s, NEW info, NEW h, NEW i, Continues(r, s, info, h, i)
    PROVE  /\ Acc(s, info, i) = Acc(r, info, h)
           /\ \/ Acc(r, info, h).from = info.period
              \/ \E e \in r.slashes : e.period = Acc(r, info, h).from
           /\ Ratio(s, Acc(r, info, h).from) = Ratio(r, Acc(r, info, h).from)
<1> DEFINE n == r.period - 1
<1>1. n \in Nat /\ n >= info.period /\ info.period \in Nat
  BY DEF Continues
<1>2. \A p : SlashesAt(s, info, i, p) = SlashesAt(r, info, h, p)
  BY DEF Continues, SlashesAt, SlashEvent
<1>3. \A p \in info.period .. n :
        p = info.period \/ SlashesAt(r, info, h, p) # {} => Ratio(s, p) = Ratio(r, p)
  BY DEF Continues, SlashesAt
<1> HIDE DEF n
<1>4. /\ Accrued(s, info, i, n) = Accrued(r, info, h, n)
      /\ Accrued(r, info, h, n).from \in info.period .. n
      /\ \/ Accrued(r, info, h, n).from = info.period
         \/ SlashesAt(r, info, h, Accrued(r, info, h, n).from) # {}
  BY <1>1, <1>2, <1>3, AccruedSame
<1>5. Acc(r, info, h) = Accrued(r, info, h, n)
  BY DEF Acc, n
<1>6. \/ Acc(r, info, h).from = info.period
      \/ \E e \in r.slashes : e.period = Acc(r, info, h).from
  BY <1>4, <1>5 DEF SlashesAt
<1>7. Acc(s, info, i) = Accrued(s, info, i, n)
  <2>1. CASE s.period = r.period
    BY <2>1 DEF Acc, n
  <2>2. CASE s.period = r.period + 1
    <3>1. s.period - 1 = n + 1 /\ n + 1 \in Nat /\ n + 1 > info.period /\ (n + 1) - 1 = n
      BY <1>1, <2>2 DEF n, Continues
    <3>2. Accrued(s, info, i, n + 1) = After(s, info, i, n + 1, Accrued(s, info, i, n))
      BY <1>1, <3>1, AccruedSteps
    <3>3. SlashesAt(s, info, i, n + 1) = {}
      BY <1>1, <1>2 DEF SlashesAt, Continues, SlashEvent, n
    <3> QED
      BY <3>1, <3>2, <3>3 DEF Acc, After
  <2> QED
    BY <2>1, <2>2 DEF Continues
<1>8. Ratio(s, Acc(r, info, h).from) = Ratio(r, Acc(r, info, h).from)
  BY <1>6 DEF Continues
<1> QED
  BY <1>4, <1>5, <1>6, <1>7, <1>8

----------------------------------------------------------------------------
\* Records keep their ratios.

LEMMA IncrementRefRatios ==
    ASSUME NEW r, RewardsOK(r), NEW p \in DOMAIN r.historical
    PROVE  LET s == IncrementRef(r, p) IN
           /\ s.period = r.period /\ s.slashes = r.slashes /\ s.outstanding = r.outstanding
           /\ s.commission = r.commission /\ s.current = r.current
           /\ DOMAIN s.historical = DOMAIN r.historical
           /\ \A q \in DOMAIN r.historical : s.historical[q].ratio = r.historical[q].ratio
  BY DEF IncrementRef, RewardsOK, IsPartial, Record, Put

LEMMA DecrementRefRatios ==
    ASSUME NEW r, RewardsOK(r), NEW p \in DOMAIN r.historical
    PROVE  LET s == DecrementRef(r, p) IN
           /\ DOMAIN s.historical \subseteq DOMAIN r.historical
           /\ \A q \in DOMAIN s.historical : s.historical[q].ratio = r.historical[q].ratio
<1>1. CASE Record(r, p).refs = 1
  BY <1>1 DEF DecrementRef, RewardsOK, IsPartial, Record, Drop
<1>2. CASE Record(r, p).refs # 1
  BY <1>2 DEF DecrementRef, RewardsOK, IsPartial, Record, Put
<1> QED
  BY <1>1, <1>2

\* The ratio of the period that ends is not below the last one.
LEMMA EndPeriodRatios ==
    ASSUME NEW r, NEW infos, Counted(r, Periods(infos)), Ordered(r), r.current >= 0,
           NEW tokens \in Nat, NEW s, s = EndPeriod(r, tokens)
    PROVE  /\ DOMAIN s.historical \subseteq DOMAIN r.historical \union {r.period}
           /\ r.period \in DOMAIN s.historical
           /\ \A q \in DOMAIN s.historical \ {r.period} :
                 s.historical[q].ratio = r.historical[q].ratio
           /\ s.historical[r.period].ratio = EndedRatio(r, tokens)
           /\ EndedRatio(r, tokens) \in Int
           /\ LastRatio(r) \in Int /\ LastRatio(r) <= EndedRatio(r, tokens)
           /\ tokens * (EndedRatio(r, tokens) - LastRatio(r)) <= r.current - Unclaimed(r, tokens)
           /\ Unclaimed(r, tokens) >= 0 /\ Unclaimed(r, tokens) <= r.current
           /\ Ordered(s)
<1> DEFINE q == r.period - 1
           t == DecrementRef(r, q)
<1>1. /\ RewardsOK(r) /\ r.period \in Nat \ {0} /\ q \in Nat /\ q \in DOMAIN r.historical
      /\ \A p \in DOMAIN r.historical : /\ p \in Nat /\ p <= q
                                        /\ r.historical[p].ratio \in Int
                                        /\ Ratio(r, p) = r.historical[p].ratio
  BY KnownPeriods
<1>2. /\ DOMAIN t.historical \subseteq DOMAIN r.historical
      /\ \A p \in DOMAIN t.historical : t.historical[p].ratio = r.historical[p].ratio
  <2> HIDE DEF q
  <2> QED
    BY <1>1, DecrementRefRatios
<1>3. s.historical = Put(t.historical, r.period, [ratio |-> EndedRatio(r, tokens), refs |-> 1])
  BY DEF EndPeriod
<1> HIDE DEF t
<1>4. r.period \notin DOMAIN r.historical
  BY <1>1
<1>5. /\ DOMAIN s.historical \subseteq DOMAIN r.historical \union {r.period}
      /\ r.period \in DOMAIN s.historical
      /\ \A p \in DOMAIN s.historical \ {r.period} : s.historical[p].ratio = r.historical[p].ratio
      /\ s.historical[r.period].ratio = EndedRatio(r, tokens)
  BY <1>2, <1>3 DEF Put
<1>6. LastRatio(r) \in Int /\ LastRatio(r) = r.historical[q].ratio
  BY <1>1 DEF LastRatio
<1>7. r.current \in Int
  BY <1>1 DEF RewardsOK
<1>8. /\ EndedRatio(r, tokens) \in Int
      /\ LastRatio(r) <= EndedRatio(r, tokens)
      /\ tokens * (EndedRatio(r, tokens) - LastRatio(r)) <= r.current - Unclaimed(r, tokens)
      /\ Unclaimed(r, tokens) >= 0 /\ Unclaimed(r, tokens) <= r.current
  <2>1. CASE tokens = 0
    <3>1. EndedRatio(r, tokens) = LastRatio(r)
      BY <1>6, <2>1 DEF EndedRatio, LastRatio, Ratio
    <3>2. tokens * (EndedRatio(r, tokens) - LastRatio(r)) = 0
      BY <1>6, <2>1, <3>1
    <3> QED
      BY <1>6, <1>7, <2>1, <3>1, <3>2 DEF Unclaimed
  <2>2. CASE tokens # 0
    <3> DEFINE delta == r.current \div tokens
    <3>1. delta \in Int /\ tokens * delta <= r.current /\ delta >= 0
      BY <1>7, <2>2, Quotient
    <3>2. EndedRatio(r, tokens) = LastRatio(r) + delta
      BY <2>2 DEF EndedRatio, LastRatio, Ratio
    <3>3. Unclaimed(r, tokens) = 0
      BY <2>2 DEF Unclaimed
    <3> HIDE DEF delta
    <3>4. EndedRatio(r, tokens) - LastRatio(r) = delta
      BY <1>6, <3>1, <3>2
    <3> QED
      BY <1>6, <1>7, <3>1, <3>2, <3>3, <3>4
  <2> QED
    BY <2>1, <2>2
<1>9. Ordered(s)
  <2> SUFFICES ASSUME NEW p1 \in DOMAIN s.historical, NEW p2 \in DOMAIN s.historical, p1 <= p2
               PROVE  s.historical[p1].ratio <= s.historical[p2].ratio
    BY DEF Ordered
  <2>1. CASE p2 = r.period /\ p1 # r.period
    <3>1. p1 \in DOMAIN r.historical /\ s.historical[p1].ratio = r.historical[p1].ratio
      BY <1>5, <2>1
    <3>2. r.historical[p1].ratio <= r.historical[q].ratio
      BY <1>1, <3>1 DEF Ordered
    <3> QED
      BY <1>1, <1>5, <1>6, <1>8, <2>1, <3>1, <3>2
  <2>2. CASE p2 = r.period /\ p1 = r.period
    BY <1>5, <1>8, <2>2
  <2>3. CASE p2 # r.period
    <3>1. p2 \in DOMAIN r.historical /\ p1 # r.period
      BY <1>1, <1>5, <2>3
    <3>2. p1 \in DOMAIN r.historical
      BY <1>5, <3>1
    <3> QED
      BY <1>5, <2>3, <3>1, <3>2 DEF Ordered
  <2> QED
    BY <2>1, <2>2, <2>3
<1> QED
  BY <1>5, <1>6, <1>8, <1>9

\* Two states of a validator's rewards with nothing but amounts and old records
\* between them.
LEMMA ContinuesWhenKept ==
    ASSUME NEW r, NEW s, NEW infos, NEW d \in DOMAIN infos, NEW h \in Nat, NEW i \in Nat, h <= i,
           Counted(r, Periods(infos)), Events(r, h),
           s.slashes = r.slashes, s.period \in {r.period, r.period + 1},
           \A q \in DOMAIN s.historical \intersect DOMAIN r.historical :
                s.historical[q].ratio = r.historical[q].ratio,
           infos[d].period \in DOMAIN s.historical,
           \A e \in r.slashes : e.period \in DOMAIN s.historical
    PROVE  Continues(r, s, infos[d], h, i)
<1>1. /\ r.period \in Nat
      /\ infos[d].period \in DOMAIN r.historical /\ infos[d].period < r.period
      /\ \A e \in r.slashes : e \in SlashEvent /\ e.period \in DOMAIN r.historical /\ e.period < r.period
      /\ \A p \in DOMAIN r.historical : p \in Nat
  BY KnownPeriods
<1>2. \A q \in DOMAIN s.historical \intersect DOMAIN r.historical : Ratio(s, q) = Ratio(r, q)
  BY DEF Ratio, Record
<1> QED
  BY <1>1, <1>2 DEF Continues, Events

\* What a delegation is worth is not negative.
LEMMA ValueIsNat ==
    ASSUME NEW A, NEW r, NEW infos, NEW cap, NEW h, Counted(r, Periods(infos)),
           Sound(A, r, infos, cap, h), NEW d \in DOMAIN infos
    PROVE  /\ Value(r, infos[d], h) \in Nat
           /\ Ratio(r, Acc(r, infos[d], h).from) \in Int
           /\ Ratio(r, Acc(r, infos[d], h).from) <= LastRatio(r)
           /\ LastRatio(r) \in Int
<1> DEFINE a == Acc(r, infos[d], h)
           q == r.period - 1
<1>1. /\ q \in DOMAIN r.historical
      /\ \A p \in DOMAIN r.historical : /\ p \in Nat /\ p <= q
                                        /\ r.historical[p].ratio \in Int
                                        /\ Ratio(r, p) = r.historical[p].ratio
  BY KnownPeriods
<1>2. a.reward \in Nat /\ a.stake \in Nat /\ a.from \in DOMAIN r.historical
  BY DEF Sound, Within
<1>3. Ratio(r, a.from) \in Int /\ LastRatio(r) \in Int /\ Ratio(r, a.from) <= LastRatio(r)
  BY <1>1, <1>2 DEF Sound, Ordered, LastRatio
<1> DEFINE x == LastRatio(r) - Ratio(r, a.from)
<1>4. x \in Nat
  BY <1>3
<1>5. Value(r, infos[d], h) = Precision * a.reward + a.stake * x
  BY DEF Value
<1> HIDE DEF a, x
<1>6. Value(r, infos[d], h) \in Nat
  BY <1>2, <1>4, <1>5, PrecisionAssumption
<1> QED
  BY <1>3, <1>6 DEF a

LEMMA ValuesType ==
    ASSUME NEW A, IsFiniteSet(A), NEW r, NEW infos, NEW cap, NEW h, Counted(r, Periods(infos)),
           Sound(A, r, infos, cap, h)
    PROVE  /\ \A d \in A : Values(A, r, infos, h)[d] \in Nat
           /\ Sum(Values(A, r, infos, h), A) \in Nat
           /\ \A d \in DOMAIN infos : Value(r, infos[d], h) <= Sum(Values(A, r, infos, h), A)
<1>1. \A d \in A : Values(A, r, infos, h)[d] \in Nat
  BY ValueIsNat DEF Values
<1>2. \A d \in DOMAIN infos : d \in A /\ Values(A, r, infos, h)[d] = Value(r, infos[d], h)
  BY DEF Values, Sound
<1>3. /\ Sum(Values(A, r, infos, h), A) \in Nat
      /\ \A d \in A : Values(A, r, infos, h)[d] <= Sum(Values(A, r, infos, h), A)
  <2> DEFINE f == Values(A, r, infos, h)
  <2>1. \A d \in A : f[d] \in Nat
    BY <1>1
  <2> HIDE DEF f
  <2>2. Sum(f, A) \in Nat /\ \A d \in A : f[d] <= Sum(f, A)
    BY <2>1, SumOfNaturals
  <2> QED
    BY <2>2 DEF f
<1> QED
  BY <1>1, <1>2, <1>3

\* So a validator always has outstanding what is its operator's and what it has
\* not yet shared.
LEMMA MarginIsNat ==
    ASSUME NEW A, IsFiniteSet(A), NEW r, NEW infos, NEW cap, NEW h, Counted(r, Periods(infos)),
           Sound(A, r, infos, cap, h)
    PROVE  Margin(r) \in Nat
<1>1. Margin(r) \in Int
  BY DEF Margin, Counted, RewardsOK
<1>2. Precision * 0 <= Precision * Margin(r)
  BY <1>1, ValuesType, PrecisionAssumption DEF Sound
<1> QED
  BY <1>1, <1>2, Cancels, PrecisionAssumption

----------------------------------------------------------------------------
\* What the calls on a validator's rewards do to its balance.

\* s is r some calls later, with the records that info and the events refer to.
Keeps(r, s, info, h, i) ==
    /\ Continues(r, s, info, h, i)
    /\ info.period \in DOMAIN s.historical
    /\ \A e \in r.slashes : e.period \in DOMAIN s.historical
    /\ LastRatio(r) \in Int /\ LastRatio(s) \in Int
    /\ \A p \in DOMAIN r.historical : Ratio(r, p) \in Int

\* A delegation that no call touches: it earns its stake's part of the period
\* that has ended, if one has.
LEMMA DelegationKept ==
    ASSUME NEW r, NEW s, NEW info, NEW h, NEW i, Keeps(r, s, info, h, i),
           NEW cap \in Int, NEW more \in Int, cap <= more,
           Dated(r, info, h), Within(r, info, cap, h)
    PROVE  /\ Dated(s, info, i) /\ Within(s, info, more, i)
           /\ Acc(s, info, i) = Acc(r, info, h)
           /\ Acc(r, info, h).stake \in Nat
           /\ Value(s, info, i)
                = Value(r, info, h) + (LastRatio(s) - LastRatio(r)) * Acc(r, info, h).stake
<1> DEFINE a == Acc(r, info, h)
<1>1. Continues(r, s, info, h, i)
  BY DEF Keeps
<1>2. /\ Acc(s, info, i) = a
      /\ a.from = info.period \/ \E e \in r.slashes : e.period = a.from
      /\ Ratio(s, a.from) = Ratio(r, a.from)
  BY <1>1, AccruedKept
<1>3. a.reward \in Nat /\ a.stake \in Nat /\ a.stake <= cap /\ a.from \in DOMAIN r.historical
  BY DEF Within
<1>4. LastRatio(r) \in Int /\ LastRatio(s) \in Int /\ Ratio(r, a.from) \in Int
  BY <1>3 DEF Keeps
<1>5. info.height \in Nat /\ h \in Nat /\ i \in Nat /\ h <= i /\ s.slashes = r.slashes
  BY DEF Dated, StartingInfo, Keeps, Continues
<1>6. Dated(s, info, i)
  BY <1>5 DEF Dated
<1>7. /\ Value(s, info, i) = Precision * a.reward + a.stake * (LastRatio(s) - Ratio(r, a.from))
      /\ Value(r, info, h) = Precision * a.reward + a.stake * (LastRatio(r) - Ratio(r, a.from))
  BY <1>2 DEF Value
<1> HIDE DEF a
<1>8. a.stake * (LastRatio(s) - Ratio(r, a.from))
        = a.stake * (LastRatio(r) - Ratio(r, a.from)) + (LastRatio(s) - LastRatio(r)) * a.stake
  BY <1>3, <1>4
<1>9. /\ Precision * a.reward \in Int
      /\ a.stake * (LastRatio(r) - Ratio(r, a.from)) \in Int
      /\ (LastRatio(s) - LastRatio(r)) * a.stake \in Int
  BY <1>3, <1>4, PrecisionAssumption
<1>10. Value(s, info, i) = Value(r, info, h) + (LastRatio(s) - LastRatio(r)) * a.stake
  BY <1>7, <1>8, <1>9
<1>11. Within(s, info, more, i)
  <2>1. a.from \in DOMAIN s.historical
    BY <1>2 DEF Keeps
  <2>2. a.stake <= more
    BY <1>3
  <2> QED
    BY <1>2, <1>3, <2>1, <2>2 DEF Within
<1> QED
  BY <1>2, <1>3, <1>6, <1>10, <1>11 DEF a

LEMMA KnownType ==
    ASSUME NEW r, NEW infos, Counted(r, Periods(infos))
    PROVE  /\ r.outstanding \in Int /\ r.commission \in Int /\ r.current \in Int
           /\ LastRatio(r) \in Int
           /\ r.slashes \in SUBSET SlashEvent
<1>1. RewardsOK(r)
  BY DEF Counted
<1>2. LastRatio(r) \in Int
  BY KnownPeriods DEF LastRatio
<1> QED
  BY <1>1, <1>2 DEF RewardsOK

\* The next ledger of a validator: the records in common have their ratios.
Follows(r, s) ==
    /\ s.slashes = r.slashes
    /\ s.period \in {r.period, r.period + 1}
    /\ \A q \in DOMAIN s.historical \intersect DOMAIN r.historical :
          s.historical[q].ratio = r.historical[q].ratio

LEMMA KeepsWhenFollows ==
    ASSUME NEW r, NEW s, NEW infos, NEW others, NEW h \in Nat, NEW i \in Nat, h <= i,
           Counted(r, Periods(infos)), Counted(s, Periods(others)), Events(r, h), Follows(r, s)
    PROVE  \A d \in DOMAIN infos \intersect DOMAIN others :
              infos[d] = others[d] => Keeps(r, s, infos[d], h, i)
<1> SUFFICES ASSUME NEW d \in DOMAIN infos \intersect DOMAIN others, infos[d] = others[d]
             PROVE  Keeps(r, s, infos[d], h, i)
  OBVIOUS
<1>1. /\ infos[d].period \in DOMAIN s.historical
      /\ \A e \in r.slashes : e.period \in DOMAIN s.historical
  BY KnownPeriods DEF Follows
<1>2. Continues(r, s, infos[d], h, i)
  BY <1>1, ContinuesWhenKept DEF Follows
<1>3. LastRatio(r) \in Int /\ LastRatio(s) \in Int
  BY KnownType
<1>4. \A p \in DOMAIN r.historical : Ratio(r, p) \in Int
  BY KnownPeriods
<1> QED
  BY <1>1, <1>2, <1>3, <1>4 DEF Keeps

\* Calls that move amounts only, blocks, and stakes that grow.
LEMMA SoundWhenKept ==
    ASSUME NEW A, IsFiniteSet(A), NEW r, NEW s, NEW infos, NEW cap \in [A -> Nat],
           NEW more \in [A -> Nat], \A d \in DOMAIN infos : cap[d] <= more[d],
           NEW h \in Nat, NEW i \in Nat, h <= i,
           Counted(r, Periods(infos)), Counted(s, Periods(infos)),
           Sound(A, r, infos, cap, h),
           s.slashes = r.slashes, s.period = r.period, s.historical = r.historical,
           s.commission >= 0, s.current >= 0, Margin(s) >= Margin(r)
    PROVE  Sound(A, s, infos, more, i)
<1>1. LastRatio(s) = LastRatio(r) /\ LastRatio(s) \in Int
  BY KnownType DEF LastRatio, Ratio, Record
<1>2. Follows(r, s)
  BY DEF Follows
<1>3. Events(r, h) /\ DOMAIN infos \subseteq A
  BY DEF Sound
<1>4. ASSUME NEW d \in DOMAIN infos
      PROVE  /\ Dated(s, infos[d], i) /\ Within(s, infos[d], more[d], i)
             /\ Value(s, infos[d], i) = Value(r, infos[d], h)
  <2>1. Dated(r, infos[d], h) /\ Within(r, infos[d], cap[d], h)
    BY DEF Sound
  <2>2. cap[d] \in Int /\ more[d] \in Int /\ cap[d] <= more[d]
    BY <1>3
  <2>3. Keeps(r, s, infos[d], h, i)
    BY <1>2, <1>3, KeepsWhenFollows
  <2>4. /\ Dated(s, infos[d], i) /\ Within(s, infos[d], more[d], i)
        /\ Acc(r, infos[d], h).stake \in Nat
        /\ Value(s, infos[d], i)
            = Value(r, infos[d], h) + (LastRatio(s) - LastRatio(r)) * Acc(r, infos[d], h).stake
    BY <2>1, <2>2, <2>3, DelegationKept
  <2>5. (LastRatio(s) - LastRatio(r)) * Acc(r, infos[d], h).stake = 0
    BY <1>1, <2>4
  <2>6. Value(r, infos[d], h) \in Nat
    BY ValueIsNat
  <2> QED
    BY <2>4, <2>5, <2>6
<1>5. Values(A, s, infos, i) = Values(A, r, infos, h)
  BY <1>4 DEF Values
<1>6. Sum(Values(A, s, infos, i), A) <= Precision * Margin(s)
  <2>1. Margin(s) \in Int /\ Margin(r) \in Int
    BY KnownType DEF Margin
  <2>2. Precision * Margin(r) <= Precision * Margin(s)
    BY <2>1, PrecisionAssumption, Grows
  <2>3. Sum(Values(A, r, infos, h), A) \in Int
    BY ValuesType
  <2>4. Precision * Margin(r) \in Int /\ Precision * Margin(s) \in Int
    BY <2>1, PrecisionAssumption
  <2>5. Sum(Values(A, r, infos, h), A) <= Precision * Margin(r)
    BY DEF Sound
  <2> QED
    BY <1>5, <2>2, <2>3, <2>4, <2>5
<1>7. Ordered(s) /\ Events(s, i)
  BY <1>3, KnownPeriods DEF Sound, Ordered, Events, SlashEvent
<1> QED
  BY <1>3, <1>4, <1>6, <1>7 DEF Sound

\* What the delegations' stakes are in the period in progress.
StakesIn(A, r, infos, h) ==
    [d \in A |-> IF d \in DOMAIN infos THEN Acc(r, infos[d], h).stake ELSE 0]

LEMMA StakesBound ==
    ASSUME NEW A, IsFiniteSet(A), NEW r, NEW infos, NEW cap \in [A -> Nat], NEW h,
           Sound(A, r, infos, cap, h), NEW total \in Int, Sum(cap, A) <= total
    PROVE  /\ \A d \in A : StakesIn(A, r, infos, h)[d] \in Nat
           /\ Sum(StakesIn(A, r, infos, h), A) \in Nat
           /\ Sum(StakesIn(A, r, infos, h), A) <= total
<1> DEFINE g == StakesIn(A, r, infos, h)
<1>1. \A d \in A : g[d] \in Nat /\ g[d] <= cap[d] + 0 * cap[d]
  BY DEF StakesIn, Sound, Within
<1> HIDE DEF g
<1>2. Sum(g, A) <= Sum(cap, A) + 0 * Sum(cap, A)
  <2>1. 0 \in Int /\ \A d \in A : cap[d] \in Int /\ g[d] \in Int
    BY <1>1
  <2> QED
    BY <1>1, <2>1, SumBound
<1>3. Sum(g, A) \in Nat /\ Sum(cap, A) \in Nat
  BY <1>1, SumOfNaturals
<1> QED
  BY <1>1, <1>2, <1>3 DEF g

\* Ending a period: what is shared is no more than what has come in.
LEMMA EndPeriodSound ==
    ASSUME NEW A, IsFiniteSet(A), NEW r, NEW infos, NEW cap \in [A -> Nat], NEW h \in Nat,
           Counted(r, Periods(infos)), Sound(A, r, infos, cap, h),
           NEW tokens \in Nat, Sum(cap, A) <= tokens * Precision,
           NEW s, s = EndPeriod(r, tokens)
    PROVE  /\ Sound(A, s, infos, cap, h)
           /\ Counted(s, Periods(infos)) /\ Follows(r, s)
           /\ Unclaimed(r, tokens) \in 0 .. r.current
<1> DEFINE delta == LastRatio(s) - LastRatio(r)
           left == r.current - Unclaimed(r, tokens)
           f == Values(A, r, infos, h)
           g == Values(A, s, infos, h)
           stakes == StakesIn(A, r, infos, h)
<1>1. /\ r.outstanding \in Int /\ r.commission \in Int /\ r.current \in Int
      /\ r.commission >= 0 /\ r.current >= 0 /\ Ordered(r) /\ Events(r, h)
      /\ DOMAIN infos \subseteq A
      /\ r.period \in Nat
  BY KnownType, KnownPeriods DEF Sound
<1>2. Counted(s, Periods(infos)) /\ s.period = r.period + 1 /\ s.slashes = r.slashes
  BY EndPeriodCounts
<1>3. /\ r.period \in DOMAIN s.historical
      /\ DOMAIN s.historical \subseteq DOMAIN r.historical \union {r.period}
      /\ \A q \in DOMAIN s.historical \ {r.period} :
            s.historical[q].ratio = r.historical[q].ratio
      /\ s.historical[r.period].ratio = EndedRatio(r, tokens)
      /\ LastRatio(r) \in Int /\ EndedRatio(r, tokens) \in Int
      /\ LastRatio(r) <= EndedRatio(r, tokens)
      /\ tokens * (EndedRatio(r, tokens) - LastRatio(r)) <= r.current - Unclaimed(r, tokens)
      /\ Unclaimed(r, tokens) >= 0 /\ Unclaimed(r, tokens) <= r.current
      /\ Ordered(s)
  BY <1>1, EndPeriodRatios
<1>4. Unclaimed(r, tokens) \in Int
  BY <1>1 DEF Unclaimed
<1>5. LastRatio(s) = EndedRatio(r, tokens)
  BY <1>1, <1>2, <1>3 DEF LastRatio, Ratio, Record
<1>6. Follows(r, s)
  <2>1. r.period \notin DOMAIN r.historical
    BY <1>1, KnownPeriods
  <2> QED
    BY <1>2, <1>3, <2>1 DEF Follows
<1>7. /\ s.outstanding = r.outstanding - Unclaimed(r, tokens)
      /\ s.commission = r.commission /\ s.current = 0
  BY DEF EndPeriod
<1>8. delta \in Nat /\ left \in Nat /\ tokens * delta <= left
  BY <1>1, <1>3, <1>4, <1>5
<1>9. Margin(s) = Margin(r) + left /\ Margin(r) \in Int
  BY <1>1, <1>4, <1>7 DEF Margin
<1> HIDE DEF delta, left
<1>10. ASSUME NEW d \in DOMAIN infos
       PROVE  /\ Dated(s, infos[d], h) /\ Within(s, infos[d], cap[d], h)
              /\ Acc(r, infos[d], h).stake \in Nat
              /\ Value(s, infos[d], h) = Value(r, infos[d], h) + delta * Acc(r, infos[d], h).stake
  <2>1. Dated(r, infos[d], h) /\ Within(r, infos[d], cap[d], h)
    BY DEF Sound
  <2>2. cap[d] \in Int /\ cap[d] <= cap[d]
    BY <1>1
  <2>3. Keeps(r, s, infos[d], h, h)
    BY <1>1, <1>2, <1>6, KeepsWhenFollows
  <2> QED
    BY <2>1, <2>2, <2>3, DelegationKept DEF delta
<1>11. \A d \in A : stakes[d] \in Nat
  BY <1>10 DEF StakesIn
<1>12. \A d \in A : f[d] \in Nat
  BY ValuesType
<1>13. \A d \in A : g[d] = f[d] + delta * stakes[d]
  <2> SUFFICES ASSUME NEW d \in A PROVE g[d] = f[d] + delta * stakes[d]
    OBVIOUS
  <2>1. CASE d \in DOMAIN infos
    BY <1>10, <2>1 DEF Values, StakesIn
  <2>2. CASE d \notin DOMAIN infos
    <3>1. f[d] = 0 /\ g[d] = 0 /\ stakes[d] = 0
      BY <2>2 DEF Values, StakesIn
    <3> QED
      BY <1>8, <3>1
  <2> QED
    BY <2>1, <2>2
<1>14. \A d \in A : f[d] \in Int /\ g[d] \in Int /\ stakes[d] \in Int
  <2>1. \A d \in A : delta * stakes[d] \in Int
    BY <1>8, <1>11
  <2> QED
    BY <1>11, <1>12, <1>13, <2>1
<1>15. Sum(stakes, A) \in Nat /\ Sum(stakes, A) <= tokens * Precision
  BY PrecisionAssumption, StakesBound
<1>16. Sum(f, A) \in Int /\ Sum(f, A) <= Precision * Margin(r)
  BY ValuesType DEF Sound
<1> HIDE DEF f, g, stakes
<1>17. Sum(g, A) = Sum(f, A) + delta * Sum(stakes, A)
  BY <1>8, <1>13, <1>14, SumCombined
<1>18. Sum(g, A) <= Precision * Margin(s)
  <2> DEFINE total == Sum(stakes, A)
  <2>1. delta * total <= delta * (tokens * Precision)
    BY <1>8, <1>15, PrecisionAssumption, Grows
  <2>2. delta * (tokens * Precision) = Precision * (tokens * delta)
    BY <1>8, PrecisionAssumption
  <2>3. Precision * (tokens * delta) <= Precision * left
    <3>1. tokens * delta \in Int
      BY <1>8
    <3> QED
      BY <1>8, <3>1, PrecisionAssumption, Grows
  <2>4. Precision * Margin(s) = Precision * Margin(r) + Precision * left
    BY <1>8, <1>9, PrecisionAssumption
  <2>5. /\ delta * total \in Int /\ Precision * (tokens * delta) \in Int
        /\ Precision * left \in Int /\ Precision * Margin(r) \in Int
    BY <1>8, <1>9, <1>15, PrecisionAssumption
  <2> HIDE DEF total
  <2>6. Sum(g, A) = Sum(f, A) + delta * total
    BY <1>17 DEF total
  <2> QED
    BY <1>16, <2>1, <2>2, <2>3, <2>4, <2>5, <2>6
<1>19. Events(s, h)
  BY <1>1, <1>2 DEF Events
<1>20. Sound(A, s, infos, cap, h)
  BY <1>1, <1>3, <1>7, <1>10, <1>18, <1>19 DEF Sound, g
<1> QED
  BY <1>1, <1>2, <1>3, <1>4, <1>6, <1>20

\* Where nobody's starting info changes, only one delegation's worth does.
LEMMA StartSound ==
    ASSUME NEW A, IsFiniteSet(A), NEW r, NEW infos, NEW cap \in [A -> Nat], NEW h \in Nat,
           Counted(r, Periods(infos)), Sound(A, r, infos, cap, h),
           NEW d \in A \ DOMAIN infos, NEW stake \in Nat, stake <= cap[d],
           NEW info, info = [period |-> r.period - 1, stake |-> stake, height |-> h],
           NEW s, s = IncrementRef(r, r.period - 1),
           NEW others, others = Put(infos, d, info), Counted(s, Periods(others))
    PROVE  Sound(A, s, others, cap, h)
<1> DEFINE q == r.period - 1
<1>1. /\ q \in Nat /\ q \in DOMAIN r.historical /\ RewardsOK(r)
      /\ \A e \in r.slashes : e \in SlashEvent /\ e.period <= q
  BY KnownPeriods DEF SlashEvent
<1>2. Events(r, h) /\ DOMAIN infos \subseteq A /\ Ordered(r) /\ r.commission >= 0 /\ r.current >= 0
  BY DEF Sound
<1>3. /\ s.period = r.period /\ s.slashes = r.slashes /\ s.outstanding = r.outstanding
      /\ s.commission = r.commission /\ s.current = r.current
      /\ DOMAIN s.historical = DOMAIN r.historical
      /\ \A p \in DOMAIN r.historical : s.historical[p].ratio = r.historical[p].ratio
  <2>1. s = IncrementRef(r, q)
    OBVIOUS
  <2> HIDE DEF q
  <2> DEFINE t == IncrementRef(r, q)
  <2>2. /\ t.period = r.period /\ t.slashes = r.slashes /\ t.outstanding = r.outstanding
        /\ t.commission = r.commission /\ t.current = r.current
        /\ DOMAIN t.historical = DOMAIN r.historical
        /\ \A p \in DOMAIN r.historical : t.historical[p].ratio = r.historical[p].ratio
    BY <1>1, IncrementRefRatios
  <2> HIDE DEF t
  <2>4. s = t
    BY <2>1 DEF t
  <2> QED
    BY <2>2, <2>4
<1>4. Follows(r, s) /\ LastRatio(s) = LastRatio(r)
  <2>1. LastRatio(s) = LastRatio(r)
    BY <1>1, <1>3 DEF LastRatio, Ratio, Record
  <2> QED
    BY <1>3, <2>1 DEF Follows
<1>5. /\ DOMAIN others = DOMAIN infos \union {d} /\ others[d] = info
      /\ \A c \in DOMAIN infos : others[c] = infos[c]
  BY DEF Put
<1>6. /\ info \in StartingInfo /\ info.period = q /\ info.stake = stake /\ info.height = h
      /\ s.period - 1 = info.period
  BY <1>1, <1>3 DEF StartingInfo
<1> HIDE DEF q
<1>7. Acc(s, info, h) = Base(info)
  <2>1. Accrued(s, info, h, info.period) = Base(info)
    BY <1>1, <1>6, AccruedSteps
  <2> QED
    BY <1>6, <2>1 DEF Acc
<1>8. Dated(s, info, h) /\ Within(s, info, cap[d], h)
  <2>1. \A e \in s.slashes : ~ e.period > info.period
    BY <1>1, <1>3, <1>6 DEF SlashEvent
  <2>2. Dated(s, info, h)
    BY <1>6, <2>1 DEF Dated
  <2> QED
    BY <1>1, <1>3, <1>6, <1>7, <2>2 DEF Within, Base
<1>9. Value(s, info, h) = 0
  <2>1. LastRatio(s) = Ratio(s, info.period) /\ LastRatio(s) \in Int
    BY <1>4, <1>6, KnownType DEF LastRatio
  <2> QED
    BY <1>6, <1>7, <2>1, PrecisionAssumption DEF Value, Base
<1>10. ASSUME NEW c \in DOMAIN infos
       PROVE  /\ Dated(s, infos[c], h) /\ Within(s, infos[c], cap[c], h)
              /\ Value(s, infos[c], h) = Value(r, infos[c], h)
  <2>1. Dated(r, infos[c], h) /\ Within(r, infos[c], cap[c], h)
    BY DEF Sound
  <2>2. cap[c] \in Int /\ cap[c] <= cap[c]
    BY <1>2
  <2>3. Keeps(r, s, infos[c], h, h)
    BY <1>2, <1>4, <1>5, KeepsWhenFollows
  <2>4. /\ Dated(s, infos[c], h) /\ Within(s, infos[c], cap[c], h)
        /\ Acc(r, infos[c], h).stake \in Nat
        /\ Value(s, infos[c], h)
            = Value(r, infos[c], h) + (LastRatio(s) - LastRatio(r)) * Acc(r, infos[c], h).stake
    BY <2>1, <2>2, <2>3, DelegationKept
  <2>5. (LastRatio(s) - LastRatio(r)) * Acc(r, infos[c], h).stake = 0
    BY <1>4, <2>4, KnownType
  <2>6. Value(r, infos[c], h) \in Nat
    BY ValueIsNat
  <2> QED
    BY <2>4, <2>5, <2>6
<1>11. Values(A, s, others, h) = Values(A, r, infos, h)
  BY <1>5, <1>9, <1>10 DEF Values
<1>12. Margin(s) = Margin(r)
  BY <1>3 DEF Margin
<1>13. Ordered(s) /\ Events(s, h)
  BY <1>2, <1>3 DEF Ordered, Events
<1>14. Sum(Values(A, s, others, h), A) <= Precision * Margin(s)
  BY <1>11, <1>12 DEF Sound
<1> QED
  BY <1>2, <1>3, <1>5, <1>8, <1>10, <1>13, <1>14 DEF Sound

\* A delegation is paid no more than it is worth, and counts no longer.
LEMMA StopSound ==
    ASSUME NEW A, IsFiniteSet(A), NEW r, NEW infos, NEW cap \in [A -> Nat], NEW h \in Nat,
           Counted(r, Periods(infos)), Sound(A, r, infos, cap, h),
           NEW d \in DOMAIN infos, NEW reward \in Int,
           Precision * reward <= Value(r, infos[d], h),
           NEW s, s = PaidOut(r, infos[d].period, reward),
           NEW others, others = Drop(infos, d), Counted(s, Periods(others))
    PROVE  Sound(A, s, others, cap, h)
<1> DEFINE q == infos[d].period
           t == DecrementRef(r, q)
           f == Values(A, r, infos, h)
           g == Values(A, s, others, h)
<1>1. /\ q \in Nat /\ q \in DOMAIN r.historical /\ RewardsOK(r)
      /\ r.outstanding \in Int /\ r.commission \in Int /\ r.current \in Int
  BY KnownPeriods, KnownType
<1>2. Events(r, h) /\ DOMAIN infos \subseteq A /\ Ordered(r) /\ r.commission >= 0 /\ r.current >= 0
  BY DEF Sound
<1>3. MayDecrementRef(r, q)
  <2>1. d \in DOMAIN Periods(infos) /\ Periods(infos)[d] = q
    BY DEF Periods
  <2>2. MayDecrementRef(r, Periods(infos)[d])
    BY <2>1, StopCounts
  <2> QED
    BY <2>1, <2>2
<1>4. /\ t.period = r.period /\ t.slashes = r.slashes /\ t.outstanding = r.outstanding
      /\ t.commission = r.commission /\ t.current = r.current /\ RewardsOK(t)
      /\ DOMAIN t.historical \subseteq DOMAIN r.historical
      /\ \A p \in DOMAIN t.historical : t.historical[p].ratio = r.historical[p].ratio
  <2> HIDE DEF q
  <2>1. /\ t.period = r.period /\ t.slashes = r.slashes /\ t.outstanding = r.outstanding
        /\ t.commission = r.commission /\ t.current = r.current /\ RewardsOK(t)
    BY <1>1, <1>3, DecrementRefCounts
  <2>2. /\ DOMAIN t.historical \subseteq DOMAIN r.historical
        /\ \A p \in DOMAIN t.historical : t.historical[p].ratio = r.historical[p].ratio
    BY <1>1, DecrementRefRatios
  <2> QED
    BY <2>1, <2>2
<1>5. s = [t EXCEPT !.outstanding = @ - reward]
  BY DEF PaidOut
<1> HIDE DEF t
<1>6. /\ s.period = r.period /\ s.slashes = r.slashes /\ s.outstanding = r.outstanding - reward
      /\ s.commission = r.commission /\ s.current = r.current /\ s.historical = t.historical
  BY <1>4, <1>5 DEF RewardsOK
<1>7. /\ DOMAIN s.historical \subseteq DOMAIN r.historical
      /\ \A p \in DOMAIN s.historical : s.historical[p].ratio = r.historical[p].ratio
  BY <1>4, <1>6
<1>8. DOMAIN others = DOMAIN infos \ {d} /\ \A c \in DOMAIN others : others[c] = infos[c]
  BY DEF Drop
<1>9. Follows(r, s) /\ LastRatio(s) = LastRatio(r) /\ LastRatio(r) \in Int
  <2>1. r.period - 1 \in DOMAIN s.historical /\ r.period - 1 \in DOMAIN r.historical
    BY <1>6, KnownPeriods
  <2>2. LastRatio(s) = LastRatio(r)
    BY <1>6, <1>7, <2>1 DEF LastRatio, Ratio, Record
  <2> QED
    BY <1>6, <1>7, <2>2, KnownType DEF Follows
<1>10. ASSUME NEW c \in DOMAIN others
       PROVE  /\ Dated(s, others[c], h) /\ Within(s, others[c], cap[c], h)
              /\ Value(s, others[c], h) = Value(r, infos[c], h)
  <2>1. Dated(r, infos[c], h) /\ Within(r, infos[c], cap[c], h) /\ c \in DOMAIN infos
    BY <1>8 DEF Sound
  <2>2. cap[c] \in Int /\ cap[c] <= cap[c]
    BY <1>2, <2>1
  <2>3. Keeps(r, s, infos[c], h, h)
    BY <1>2, <1>8, <1>9, KeepsWhenFollows
  <2>4. /\ Dated(s, infos[c], h) /\ Within(s, infos[c], cap[c], h)
        /\ Acc(r, infos[c], h).stake \in Nat
        /\ Value(s, infos[c], h)
            = Value(r, infos[c], h) + (LastRatio(s) - LastRatio(r)) * Acc(r, infos[c], h).stake
    BY <2>1, <2>2, <2>3, DelegationKept
  <2>5. (LastRatio(s) - LastRatio(r)) * Acc(r, infos[c], h).stake = 0
    BY <1>9, <2>4
  <2>6. Value(r, infos[c], h) \in Nat
    BY <2>1, ValueIsNat
  <2> QED
    BY <1>8, <2>4, <2>5, <2>6
<1>11. d \in A /\ \A c \in A : f[c] \in Int
  BY <1>2, ValuesType
<1>12. f[d] = Value(r, infos[d], h) /\ g[d] = 0
  BY <1>8, <1>11 DEF Values
<1>13. \A c \in A \ {d} : g[c] = f[c]
  BY <1>8, <1>10 DEF Values
<1>14. Sum(f, A) \in Int /\ Sum(f, A) <= Precision * Margin(r)
  BY ValuesType DEF Sound
<1> HIDE DEF f, g
<1>15. Sum(g, A) = Sum(f, A) + (g[d] - f[d])
  <2>1. g[d] \in Int
    BY <1>12
  <2> QED
    BY <1>11, <1>13, <2>1, SumChange
<1>16. Precision * Margin(s) = Precision * Margin(r) - Precision * reward
  <2>1. Margin(s) = Margin(r) - reward /\ Margin(r) \in Int
    BY <1>1, <1>6 DEF Margin
  <2> QED
    BY <2>1, PrecisionAssumption
<1>17. Sum(g, A) <= Precision * Margin(s)
  <2>1. Precision * reward \in Int /\ Precision * Margin(r) \in Int
    BY <1>1, PrecisionAssumption DEF Margin
  <2> QED
    BY <1>11, <1>12, <1>14, <1>15, <1>16, <2>1
<1>18. Ordered(s) /\ Events(s, h)
  BY <1>2, <1>6, <1>7 DEF Ordered, Events
<1> QED
  BY <1>2, <1>6, <1>8, <1>10, <1>17, <1>18 DEF Sound, g

\* A slash lowers the stakes from the period that has just ended; rounding them
\* down never earns anyone anything.
LEMMA SlashSound ==
    ASSUME NEW A, IsFiniteSet(A), NEW r, NEW infos, NEW cap \in [A -> Nat], NEW h \in Nat,
           Counted(r, Periods(infos)), Untouched(r, Periods(infos)),
           Sound(A, r, infos, cap, h), NEW f \in 0 .. Precision,
           NEW less \in [A -> Nat],
           \A d \in DOMAIN infos : (cap[d] * (Precision - f)) \div Precision <= less[d],
           NEW s, s = WithSlash(r, h, f), Counted(s, Periods(infos))
    PROVE  Sound(A, s, infos, less, h)
<1> DEFINE q == r.period - 1
           event == [height |-> h, period |-> q, fraction |-> f]
<1>1. /\ q \in Nat /\ q \in DOMAIN r.historical /\ RewardsOK(r) /\ s.period = r.period
      /\ \A p \in DOMAIN r.historical : p \in Nat /\ Ratio(r, p) \in Int
  <2>1. s.period = r.period
    BY DEF WithSlash, IncrementRef
  <2> QED
    BY <2>1, KnownPeriods
<1>2. Events(r, h) /\ DOMAIN infos \subseteq A /\ Ordered(r) /\ r.commission >= 0 /\ r.current >= 0
  BY DEF Sound
<1>3. /\ s.slashes = r.slashes \union {event} /\ s.outstanding = r.outstanding
      /\ s.commission = r.commission /\ s.current = r.current
      /\ DOMAIN s.historical = DOMAIN r.historical
      /\ \A p \in DOMAIN r.historical : s.historical[p].ratio = r.historical[p].ratio
  <2>1. s = [IncrementRef(r, q) EXCEPT !.slashes = @ \union {event}]
    BY DEF WithSlash
  <2> HIDE DEF q, event
  <2> DEFINE t == IncrementRef(r, q)
  <2>2. /\ t.slashes = r.slashes /\ t.outstanding = r.outstanding
        /\ t.commission = r.commission /\ t.current = r.current
        /\ DOMAIN t.historical = DOMAIN r.historical
        /\ \A p \in DOMAIN r.historical : t.historical[p].ratio = r.historical[p].ratio
    BY <1>1, IncrementRefRatios
  <2>3. DOMAIN t = DOMAIN r
    BY DEF IncrementRef
  <2>4. DOMAIN r = {"outstanding", "commission", "current", "period", "historical", "slashes"}
    BY <1>1 DEF RewardsOK
  <2> HIDE DEF t
  <2>5. s = [t EXCEPT !.slashes = @ \union {event}]
    BY <2>1 DEF t
  <2> QED
    BY <2>2, <2>3, <2>4, <2>5
<1>4. \A p : Ratio(s, p) = Ratio(r, p)
  BY <1>3 DEF Ratio, Record
<1>5. \A e \in r.slashes : e \in SlashEvent /\ e.period < q
  BY <1>1, KnownPeriods DEF Untouched, SlashEvent
<1>6. \A d \in DOMAIN infos : infos[d].period \in Nat /\ infos[d].period < q
  <2>1. \A d \in DOMAIN infos : infos[d].period # q
    BY DEF Untouched, Periods
  <2> QED
    BY <1>1, <2>1, KnownPeriods
<1>7. event.period = q /\ event.height = h /\ event.fraction = f
  OBVIOUS
<1>8. LastRatio(s) = LastRatio(r) /\ LastRatio(r) = Ratio(r, q) /\ LastRatio(r) \in Int
  BY <1>1, <1>4 DEF LastRatio
<1> HIDE DEF q, event
<1>9. ASSUME NEW d \in DOMAIN infos
      PROVE  /\ Dated(s, infos[d], h) /\ Within(s, infos[d], less[d], h)
             /\ Value(s, infos[d], h) \in Int
             /\ Value(s, infos[d], h) <= Value(r, infos[d], h)
  <2> DEFINE info == infos[d]
             b == Acc(r, info, h)
  <2>1. /\ Dated(r, info, h)
        /\ b.reward \in Nat /\ b.stake \in Nat /\ b.stake <= cap[d]
        /\ b.from \in DOMAIN r.historical
        /\ Ratio(r, b.from) \in Int /\ Ratio(r, b.from) <= LastRatio(r)
        /\ Value(r, info, h) \in Nat
    BY ValueIsNat DEF Sound, Within
  <2>2. info.period \in Nat /\ info.period <= q - 1 /\ q > info.period /\ q - 1 \in Nat
    BY <1>1, <1>6
  <2>3. info.height \in Nat /\ info.height <= h
    BY <2>1 DEF Dated, StartingInfo
  <2>4. SlashesAt(s, info, h, q) = {event} /\ SlashesAt(r, info, h, q) = {}
    BY <1>1, <1>3, <1>5, <1>7, <2>3 DEF SlashesAt, SlashEvent
  <2>5. \A p \in (info.period + 1) .. (q - 1) : SlashesAt(s, info, h, p) = SlashesAt(r, info, h, p)
    BY <1>1, <1>3, <1>7 DEF SlashesAt
  <2> HIDE DEF info
  <2>6. Accrued(s, info, h, q - 1) = Accrued(r, info, h, q - 1)
    <3> DEFINE n == q - 1
    <3>1. n \in Nat /\ n >= info.period
      BY <2>2
    <3>2. \A p \in (info.period + 1) .. n : SlashesAt(s, info, h, p) = SlashesAt(r, info, h, p)
      BY <2>5
    <3>3. \A p \in info.period .. n :
             p = info.period \/ SlashesAt(r, info, h, p) # {} => Ratio(s, p) = Ratio(r, p)
      BY <1>4
    <3> HIDE DEF n
    <3>4. Accrued(s, info, h, n) = Accrued(r, info, h, n)
      BY <2>2, <3>1, <3>2, <3>3, AccruedSame
    <3> QED
      BY <3>4 DEF n
  <2>7. /\ Accrued(r, info, h, q) = After(r, info, h, q, Accrued(r, info, h, q - 1))
        /\ Accrued(s, info, h, q) = After(s, info, h, q, Accrued(s, info, h, q - 1))
    BY <1>1, <2>2, AccruedSteps
  <2>8. b = Accrued(r, info, h, q - 1) /\ Acc(s, info, h) = Accrued(s, info, h, q)
    BY <1>1, <2>4, <2>7 DEF Acc, After, q
  <2>9. Acc(s, info, h) = AfterSlash(s, q, b, event)
    BY <2>4, <2>6, <2>7, <2>8 DEF After
  <2> HIDE DEF b
  <2> DEFINE x == LastRatio(r) - Ratio(r, b.from)
             y == Between(s, b.from, q, b.stake)
             z == (b.stake * (Precision - f)) \div Precision
  <2>10. x \in Nat /\ b.stake * x \in Nat
    BY <1>8, <2>1
  <2>11. y = (b.stake * x) \div Precision
    BY <1>4, <1>8 DEF Between, Ratio
  <2> HIDE DEF x
  <2>12. y \in Nat /\ Precision * y <= b.stake * x
    <3> DEFINE bx == b.stake * x
    <3>1. bx \in Nat /\ y = bx \div Precision
      BY <2>10, <2>11
    <3> HIDE DEF bx, y
    <3>2. y \in Nat /\ Precision * y <= bx
      BY <3>1, PrecisionAssumption, Quotient
    <3> QED
      BY <3>2 DEF bx
  <2>13. z \in Nat /\ z <= less[d]
    <3>1. Precision - f \in Nat /\ cap[d] \in Nat /\ less[d] \in Nat
      BY <1>2, PrecisionAssumption
    <3>2. b.stake * (Precision - f) <= cap[d] * (Precision - f)
      BY <2>1, <3>1, Grows
    <3>3. b.stake * (Precision - f) \in Nat /\ cap[d] * (Precision - f) \in Nat
      BY <2>1, <3>1
    <3>4. z \in Nat /\ Precision * z <= b.stake * (Precision - f)
      BY <3>3, PrecisionAssumption, Quotient
    <3>5. Precision * z \in Int
      BY <3>4, PrecisionAssumption
    <3>6. Precision * z <= cap[d] * (Precision - f)
      BY <3>2, <3>3, <3>4, <3>5
    <3> DEFINE top == cap[d] * (Precision - f)
    <3>7. top \in Int /\ Precision * z <= top /\ top \div Precision <= less[d]
      BY <3>3, <3>6
    <3> HIDE DEF top, z
    <3>8. z <= top \div Precision /\ top \div Precision \in Int
      <4>1. z \in Int
        BY <3>4
      <4>2. z <= top \div Precision
        BY <3>7, <4>1, PrecisionAssumption, QuotientIsGreatest
      <4>3. top \div Precision \in Int
        BY <3>7, PrecisionAssumption, Quotient
      <4> QED
        BY <4>2, <4>3
    <3> QED
      BY <3>1, <3>4, <3>7, <3>8
  <2>14. /\ Acc(s, info, h).reward = b.reward + y /\ Acc(s, info, h).stake = z
         /\ Acc(s, info, h).from = q
    BY <1>7, <2>9 DEF AfterSlash
  <2> HIDE DEF y, z
  <2>15. Value(s, info, h) = Precision * (b.reward + y)
    <3>1. Value(s, info, h) = Precision * (b.reward + y) + z * (LastRatio(r) - LastRatio(r))
      BY <1>4, <1>8, <2>14 DEF Value
    <3>2. z * (LastRatio(r) - LastRatio(r)) = 0
      BY <1>8, <2>13
    <3>3. Precision * (b.reward + y) \in Int
      BY <2>1, <2>12, PrecisionAssumption
    <3> QED
      BY <3>1, <3>2, <3>3
  <2>16. Value(r, info, h) = Precision * b.reward + b.stake * x
    BY DEF Value, b, x
  <2>17. Value(s, info, h) \in Int /\ Value(s, info, h) <= Value(r, info, h)
    <3>1. Precision * (b.reward + y) = Precision * b.reward + Precision * y
      BY <2>1, <2>12, PrecisionAssumption
    <3>2. Precision * b.reward \in Int /\ Precision * y \in Int
      BY <2>1, <2>12, PrecisionAssumption
    <3> QED
      BY <2>10, <2>12, <2>15, <2>16, <3>1, <3>2
  <2>18. Within(s, info, less[d], h)
    BY <1>1, <1>3, <2>1, <2>12, <2>13, <2>14 DEF Within
  <2>19. Dated(s, info, h)
    BY <1>3, <1>7, <2>1, <2>3 DEF Dated
  <2> QED
    BY <2>17, <2>18, <2>19 DEF info
<1> DEFINE v == Values(A, r, infos, h)
           w == Values(A, s, infos, h)
<1>10. \A d \in A : v[d] \in Int
  BY ValuesType
<1>11. \A d \in A : w[d] \in Int /\ w[d] <= v[d] + 0 * v[d]
  <2>1. \A d \in A : w[d] \in Int /\ w[d] <= v[d]
    BY <1>9 DEF Values
  <2> QED
    BY <1>10, <2>1
<1>12. Sum(v, A) \in Int /\ Sum(v, A) <= Precision * Margin(r)
  BY ValuesType DEF Sound
<1> HIDE DEF v, w
<1>13. Sum(w, A) <= Sum(v, A) + 0 * Sum(v, A) /\ Sum(w, A) \in Int
  BY <1>10, <1>11, SumBound, SumType
<1>14. Margin(s) = Margin(r) /\ Margin(r) \in Int
  BY <1>3, KnownType DEF Margin
<1>15. Sum(w, A) <= Precision * Margin(s)
  <2>1. Precision * Margin(r) \in Int
    BY <1>14, PrecisionAssumption
  <2> QED
    BY <1>12, <1>13, <1>14, <2>1
<1>16. Ordered(s) /\ Events(s, h)
  BY <1>2, <1>3, <1>7, PrecisionAssumption DEF Ordered, Events
<1> QED
  BY <1>2, <1>3, <1>9, <1>15, <1>16 DEF Sound, w

\* What the rewards calculation returns: never more than the delegation is
\* worth, so that the validator has it outstanding.
LEMMA RewardsBound ==
    ASSUME NEW A, IsFiniteSet(A), NEW r, NEW infos, NEW cap \in [A -> Nat], NEW h \in Nat,
           Counted(r, Periods(infos)), Sound(A, r, infos, cap, h), NEW d \in DOMAIN infos,
           NEW raw, raw = DelegationRewards(r, infos[d], h, r.period - 1, cap[d])
    PROVE  /\ raw \in Nat
           /\ Precision * raw <= Value(r, infos[d], h)
           /\ raw <= Margin(r)
           /\ Payable(r, raw) = raw
<1> DEFINE a == Acc(r, infos[d], h)
           x == LastRatio(r) - Ratio(r, a.from)
<1>1. /\ a.reward \in Nat /\ a.stake \in Nat /\ a.stake <= cap[d] /\ cap[d] \in Nat
      /\ Value(r, infos[d], h) \in Nat /\ LastRatio(r) \in Int /\ Ratio(r, a.from) \in Int
      /\ Ratio(r, a.from) <= LastRatio(r)
  BY ValueIsNat DEF Sound, Within
<1>2. x \in Nat /\ Value(r, infos[d], h) = Precision * a.reward + a.stake * x
  BY <1>1 DEF Value
<1>3. a.stake * x \in Nat
  BY <1>1, <1>2
<1>4. raw \in {0, a.reward + (a.stake * x) \div Precision}
  <2>1. a.stake = IF a.stake < cap[d] THEN a.stake ELSE cap[d]
    BY <1>1
  <2> QED
    BY <2>1 DEF DelegationRewards, Acc, Between, LastRatio, Ratio
<1> DEFINE sx == a.stake * x
           y == sx \div Precision
<1> HIDE DEF a, sx
<1>5. y \in Nat /\ Precision * y <= sx /\ sx \in Nat
  <2>1. sx \in Nat
    BY <1>3 DEF sx
  <2> QED
    BY <2>1, PrecisionAssumption, Quotient
<1>6. raw \in {0, a.reward + y} /\ Value(r, infos[d], h) = Precision * a.reward + sx
  BY <1>2, <1>4 DEF sx
<1> HIDE DEF y, x
<1>7. raw \in Nat /\ Precision * raw <= Value(r, infos[d], h)
  <2>1. CASE raw = 0
    BY <1>1, <2>1, PrecisionAssumption
  <2>2. CASE raw = a.reward + y
    <3>1. Precision * raw = Precision * a.reward + Precision * y
      BY <1>1, <1>5, <2>2, PrecisionAssumption
    <3>2. Precision * a.reward \in Int /\ Precision * y \in Int
      BY <1>1, <1>5, PrecisionAssumption
    <3> QED
      BY <1>1, <1>5, <1>6, <2>2, <3>1, <3>2
  <2> QED
    BY <1>6, <2>1, <2>2
<1>8. Margin(r) \in Nat
  BY MarginIsNat
<1>9. raw <= Margin(r)
  <2>1. Value(r, infos[d], h) <= Sum(Values(A, r, infos, h), A) /\ Sum(Values(A, r, infos, h), A) \in Nat
    BY ValuesType
  <2>2. Sum(Values(A, r, infos, h), A) <= Precision * Margin(r)
    BY DEF Sound
  <2>3. Precision * raw \in Int /\ Precision * Margin(r) \in Int
    BY <1>7, <1>8, PrecisionAssumption
  <2>4. Precision * raw <= Precision * Margin(r)
    BY <1>1, <1>7, <2>1, <2>2, <2>3
  <2> QED
    BY <1>7, <1>8, <2>4, Cancels, PrecisionAssumption
<1>10. Payable(r, raw) = raw
  <2>1. /\ r.outstanding \in Int /\ r.commission \in Int /\ r.current \in Int
        /\ r.commission >= 0 /\ r.current >= 0
    BY KnownType DEF Sound
  <2>2. raw <= r.outstanding
    BY <1>7, <1>8, <1>9, <2>1 DEF Margin
  <2> QED
    BY <1>7, <2>1, <2>2 DEF Payable
<1> QED
  BY <1>7, <1>9, <1>10

\* What a withdrawal demands of a validator's rewards.
LEMMA WithdrawalAllowed ==
    ASSUME NEW A, IsFiniteSet(A), NEW r, NEW infos, NEW cap \in [A -> Nat], NEW h \in Nat,
           Counted(r, Periods(infos)), Sound(A, r, infos, cap, h),
           NEW tokens \in Nat, Sum(cap, A) <= tokens * Precision,
           NEW s, s = EndPeriod(r, tokens), NEW d \in DOMAIN infos
    PROVE  /\ MayDecrementRef(r, r.period - 1)
           /\ infos[d].period <= r.period
           /\ Accrued(s, infos[d], h, r.period).stake <= cap[d] + RoundingMargin
           /\ \A p, q \in {infos[d].period, r.period} \union {e.period : e \in s.slashes} :
                infos[d].period <= p /\ p <= q /\ q <= r.period
                    => Record(s, p).ratio <= Record(s, q).ratio
           /\ MayDecrementRef(s, infos[d].period)
<1>1. Sound(A, s, infos, cap, h) /\ Counted(s, Periods(infos))
  BY EndPeriodSound
<1>2. s.period = r.period + 1 /\ r.period \in Nat \ {0} /\ s.period - 1 = r.period
      /\ infos[d].period <= r.period
  <2>1. r.period \in Nat \ {0} /\ infos[d].period <= r.period
    BY KnownPeriods
  <2>2. s.period = r.period + 1
    BY DEF EndPeriod
  <2> QED
    BY <2>1, <2>2
<1>3. MayDecrementRef(r, r.period - 1)
  <2>1. r.period - 1 \in DOMAIN r.historical
    BY KnownPeriods
  <2>2. r.historical[r.period - 1].refs > 0
    BY <2>1 DEF Counted
  <2> QED
    BY <2>1, <2>2 DEF MayDecrementRef, Record
<1>4. Accrued(s, infos[d], h, r.period).stake <= cap[d] + RoundingMargin
  <2>1. Accrued(s, infos[d], h, r.period) = Acc(s, infos[d], h)
    BY <1>2 DEF Acc
  <2>2. /\ Acc(s, infos[d], h).stake <= cap[d] /\ Acc(s, infos[d], h).stake \in Nat
        /\ cap[d] \in Nat
    BY <1>1 DEF Sound, Within
  <2> QED
    BY <2>1, <2>2 DEF RoundingMargin
<1>5. {infos[d].period, r.period} \union {e.period : e \in s.slashes} \subseteq DOMAIN s.historical
  <2>1. /\ infos[d].period \in DOMAIN s.historical
        /\ s.period - 1 \in DOMAIN s.historical
        /\ \A e \in s.slashes : e.period \in DOMAIN s.historical
    BY <1>1, KnownPeriods
  <2> QED
    BY <1>2, <2>1
<1>6. \A p, q \in DOMAIN s.historical : p <= q => Record(s, p).ratio <= Record(s, q).ratio
  BY <1>1 DEF Sound, Ordered, Record
<1>7. MayDecrementRef(s, infos[d].period)
  <2>1. d \in DOMAIN Periods(infos) /\ Periods(infos)[d] = infos[d].period
    BY DEF Periods
  <2>2. MayDecrementRef(s, Periods(infos)[d])
    BY <1>1, <2>1, StopCounts
  <2> QED
    BY <2>1, <2>2
<1> QED
  BY <1>2, <1>3, <1>4, <1>5, <1>6, <1>7

\* A validator without rewards and without delegations owes nothing.
LEMMA FreshSound ==
    ASSUME NEW A, IsFiniteSet(A), NEW cap, NEW h \in Nat, NEW r,
           r.outstanding = 0, r.commission = 0, r.current = 0, r.slashes = {},
           NEW p, DOMAIN r.historical = {p}, r.historical[p].ratio \in Int
    PROVE  Sound(A, r, Empty, cap, h)
<1>1. DOMAIN Empty = {}
  BY DEF Empty
<1>2. Sum(Values(A, r, Empty, h), A) = 0
  <2> DEFINE f == Values(A, r, Empty, h)
  <2>1. \A d \in A : f[d] = 0
    BY <1>1 DEF Values
  <2> HIDE DEF f
  <2>2. Sum(f, A) = 0
    BY <2>1, SumOfZeros
  <2> QED
    BY <2>2 DEF f
<1>3. Margin(r) = 0 /\ Precision * Margin(r) = 0
  BY PrecisionAssumption DEF Margin
<1> QED
  BY <1>1, <1>2, <1>3 DEF Sound, Ordered, Events

----------------------------------------------------------------------------
\* What a delegation is paid: neither the next block, nor a commission, nor
\* the withdrawal of another delegation changes it.

LEMMA QuotientOfSum ==
    ASSUME NEW a \in Int, NEW x \in Int, NEW p \in Nat \ {0}
    PROVE  (p * a + x) \div p = a + x \div p
<1> DEFINE q == x \div p
           n == p * a + x
           y == n \div p
<1>1. q \in Int /\ p * q <= x /\ x < p * q + p
  BY Quotient
<1>2. p * a \in Int /\ n \in Int /\ p * q \in Int
  BY <1>1
<1>3. y \in Int /\ p * y <= n /\ n < p * y + p
  BY <1>2, Quotient
<1> HIDE DEF q, y
<1>4. p * (a + q) = p * a + p * q
  BY <1>1
<1>5. p * (a + q) <= n
  BY <1>1, <1>2, <1>4
<1>6. a + q <= y
  BY <1>1, <1>2, <1>5, QuotientIsGreatest DEF y
<1>7. p * (y - (a + q)) < p * 1
  <2>1. p * (y - (a + q)) = p * y - p * (a + q)
    BY <1>1, <1>3
  <2>2. p * y \in Int /\ p * (a + q) \in Int /\ p * 1 = p
    BY <1>1, <1>3
  <2> QED
    BY <1>1, <1>2, <1>3, <1>4, <2>1, <2>2
<1>8. y - (a + q) < 1
  <2> SUFFICES ASSUME 1 <= y - (a + q) PROVE FALSE
    BY <1>1, <1>3
  <2>1. p * 1 <= p * (y - (a + q))
    BY <1>1, <1>3, Grows
  <2>2. p * (y - (a + q)) \in Int
    BY <1>1, <1>3
  <2> QED
    BY <1>7, <2>1, <2>2
<1> QED
  BY <1>1, <1>3, <1>6, <1>8 DEF q, y

\* What a delegation is worth stays the same when no rewards are shared.
LEMMA ValueSame ==
    ASSUME NEW A, NEW r, NEW s, NEW infos, NEW others, NEW cap \in [A -> Nat],
           NEW h \in Nat, NEW i \in Nat, h <= i,
           Counted(r, Periods(infos)), Counted(s, Periods(others)), Sound(A, r, infos, cap, h),
           Follows(r, s), LastRatio(s) = LastRatio(r),
           NEW d \in DOMAIN infos, d \in DOMAIN others, others[d] = infos[d]
    PROVE  Value(s, infos[d], i) = Value(r, infos[d], h)
<1>1. Keeps(r, s, infos[d], h, i)
  BY KeepsWhenFollows DEF Sound
<1>2. /\ Dated(r, infos[d], h) /\ Within(r, infos[d], cap[d], h)
      /\ cap[d] \in Int /\ cap[d] <= cap[d]
  <2>1. d \in A
    BY DEF Sound
  <2> QED
    BY <2>1 DEF Sound
<1>3. /\ Acc(r, infos[d], h).stake \in Nat
      /\ Value(s, infos[d], i) = Value(r, infos[d], h)
            + (LastRatio(s) - LastRatio(r)) * Acc(r, infos[d], h).stake
  BY <1>1, <1>2, DelegationKept
<1>4. Value(r, infos[d], h) \in Nat /\ LastRatio(r) \in Int
  BY ValueIsNat
<1>5. (LastRatio(s) - LastRatio(r)) * Acc(r, infos[d], h).stake = 0
  <2>1. LastRatio(s) - LastRatio(r) = 0
    BY <1>4
  <2> QED
    BY <1>3, <2>1
<1> QED
  BY <1>3, <1>4, <1>5

\* What the rewards calculation returns when the period ends now.
Payment(r, tokens, info, h, cap) ==
    LET s == EndPeriod(r, tokens) IN
    Payable(s, DelegationRewards(s, info, h, r.period, cap))

\* It is what the delegation is worth, rounded once: the cap is never reached.
LEMMA PaymentIs ==
    ASSUME NEW A, IsFiniteSet(A), NEW r, NEW infos, NEW cap \in [A -> Nat], NEW h \in Nat,
           Counted(r, Periods(infos)), Sound(A, r, infos, cap, h),
           NEW tokens \in Nat, Sum(cap, A) <= tokens * Precision, NEW d \in DOMAIN infos,
           NEW s, s = EndPeriod(r, tokens)
    PROVE  Payment(r, tokens, infos[d], h, cap[d])
             = IF infos[d].height = h THEN 0 ELSE Value(s, infos[d], h) \div Precision
<1> DEFINE a == Acc(s, infos[d], h)
           x == LastRatio(s) - Ratio(s, a.from)
           raw == DelegationRewards(s, infos[d], h, r.period, cap[d])
           sx == a.stake * x
<1>1. /\ Sound(A, s, infos, cap, h) /\ Counted(s, Periods(infos))
  BY EndPeriodSound
<1>2. s.period - 1 = r.period
  BY DEF EndPeriod, Counted
<1>3. Payable(s, raw) = raw
  <2>1. raw = DelegationRewards(s, infos[d], h, s.period - 1, cap[d])
    BY <1>2
  <2> QED
    BY <1>1, <2>1, RewardsBound
<1>4. /\ a.reward \in Nat /\ a.stake \in Nat /\ a.stake <= cap[d] /\ cap[d] \in Nat
      /\ LastRatio(s) \in Int /\ Ratio(s, a.from) \in Int
  <2>1. d \in A
    BY <1>1 DEF Sound
  <2> QED
    BY <1>1, <2>1, ValueIsNat DEF Sound, Within
<1>5. sx \in Int /\ Value(s, infos[d], h) = Precision * a.reward + sx
  BY <1>4 DEF Value
<1>6. raw = IF infos[d].height = h THEN 0 ELSE a.reward + sx \div Precision
  <2>1. a.stake = IF a.stake < cap[d] THEN a.stake ELSE cap[d]
    BY <1>4
  <2> QED
    BY <1>2, <2>1 DEF DelegationRewards, Acc, Between, LastRatio, Ratio
<1>7. (Precision * a.reward + sx) \div Precision = a.reward + sx \div Precision
  <2> DEFINE n == a.reward
  <2>1. n \in Int /\ sx \in Int /\ Precision \in Nat \ {0}
    BY <1>4, <1>5, PrecisionAssumption
  <2> HIDE DEF n, sx
  <2>2. (Precision * n + sx) \div Precision = n + sx \div Precision
    BY <2>1, QuotientOfSum, Zenon
  <2> QED
    BY <2>2 DEF n
<1> HIDE DEF a, sx, raw
<1> QED
  BY <1>3, <1>5, <1>6, <1>7 DEF Payment, raw

\* A delegation that has just started is owed nothing.
LEMMA NewIsWorthNothing ==
    ASSUME NEW A, IsFiniteSet(A), NEW r, NEW infos, NEW cap \in [A -> Nat], NEW h \in Nat,
           Counted(r, Periods(infos)), Sound(A, r, infos, cap, h),
           NEW tokens \in Nat, Sum(cap, A) <= tokens * Precision, NEW d \in DOMAIN infos,
           r.current = 0, infos[d].period = r.period - 1,
           NEW s, s = EndPeriod(r, tokens)
    PROVE  Value(s, infos[d], h) = 0
<1>1. Counted(s, Periods(infos)) /\ Follows(r, s)
  BY EndPeriodSound
<1>2. LastRatio(s) = LastRatio(r)
  <2>1. /\ r.period \in DOMAIN s.historical /\ s.historical[r.period].ratio = EndedRatio(r, tokens)
        /\ LastRatio(r) \in Int
    BY EndPeriodRatios DEF Sound
  <2>2. s.period - 1 = r.period
    BY DEF EndPeriod, Counted
  <2>3. LastRatio(s) = EndedRatio(r, tokens)
    BY <2>1, <2>2 DEF LastRatio, Ratio, Record
  <2>4. EndedRatio(r, tokens) = LastRatio(r) + (IF tokens = 0 THEN 0 ELSE 0 \div tokens)
    BY DEF EndedRatio, LastRatio, Ratio
  <2>5. tokens # 0 => 0 \div tokens = 0
    OBVIOUS
  <2> QED
    BY <2>1, <2>3, <2>4, <2>5
<1>3. Value(s, infos[d], h) = Value(r, infos[d], h)
  <2>1. h <= h
    OBVIOUS
  <2> QED
    BY <1>1, <1>2, <2>1, ValueSame
<1>4. Acc(r, infos[d], h) = Base(infos[d])
  <2>1. infos[d].period \in Nat
    BY DEF Sound, Dated, StartingInfo
  <2> QED
    BY <2>1, AccruedSteps DEF Acc
<1>5. LastRatio(r) \in Int /\ infos[d].stake \in Int
  BY KnownType DEF Sound, Dated, StartingInfo
<1>6. Value(r, infos[d], h) = Precision * 0 + infos[d].stake * (LastRatio(r) - LastRatio(r))
  BY <1>4 DEF Value, Base, LastRatio
<1> QED
  BY <1>3, <1>5, <1>6, PrecisionAssumption

\* Nobody is paid more in the next block than in this one.
LEMMA PaymentInNextBlock ==
    ASSUME NEW A, IsFiniteSet(A), NEW r, NEW infos, NEW cap \in [A -> Nat], NEW h \in Nat,
           Counted(r, Periods(infos)), Sound(A, r, infos, cap, h),
           NEW tokens \in Nat, Sum(cap, A) <= tokens * Precision, NEW d \in DOMAIN infos,
           infos[d].height = h => r.current = 0 /\ infos[d].period = r.period - 1
    PROVE  Payment(r, tokens, infos[d], h + 1, cap[d]) = Payment(r, tokens, infos[d], h, cap[d])
<1> DEFINE s == EndPeriod(r, tokens)
<1>1. Sound(A, r, infos, cap, h + 1)
  <2>1. /\ \A c \in DOMAIN infos : cap[c] <= cap[c]
        /\ h + 1 \in Nat /\ h <= h + 1 /\ r.commission >= 0 /\ r.current >= 0
        /\ Margin(r) >= Margin(r)
    <3>1. Margin(r) \in Nat
      BY MarginIsNat
    <3> QED
      BY <3>1 DEF Sound
  <2> QED
    BY <2>1, SoundWhenKept
<1>2. infos[d].height # h + 1
  BY DEF Sound, Dated, StartingInfo
<1>3. /\ Sound(A, s, infos, cap, h) /\ Counted(s, Periods(infos))
  BY EndPeriodSound
<1>4. Value(s, infos[d], h + 1) = Value(s, infos[d], h)
  <2>1. h + 1 \in Nat /\ h <= h + 1
    OBVIOUS
  <2>2. Follows(s, s)
    BY DEF Follows
  <2> HIDE DEF s
  <2> QED
    BY <1>3, <2>1, <2>2, ValueSame
<1>5. Payment(r, tokens, infos[d], h + 1, cap[d]) = Value(s, infos[d], h + 1) \div Precision
  BY <1>1, <1>2, PaymentIs
<1>6. infos[d].height = h => Value(s, infos[d], h) = 0
  BY NewIsWorthNothing
<1>7. 0 \div Precision = 0
  BY PrecisionAssumption
<1> HIDE DEF s
<1> QED
  BY <1>4, <1>5, <1>6, <1>7, PaymentIs DEF s

\* What is paid depends on the ratios that a delegation refers to.
LEMMA PaymentSame ==
    ASSUME NEW A, IsFiniteSet(A), NEW r, NEW t, NEW infos, NEW others, NEW cap \in [A -> Nat],
           NEW h \in Nat, Counted(r, Periods(infos)), Sound(A, r, infos, cap, h),
           Counted(t, Periods(others)), Sound(A, t, others, cap, h),
           NEW tokens \in Nat, Sum(cap, A) <= tokens * Precision,
           NEW d \in DOMAIN infos, d \in DOMAIN others, others[d] = infos[d],
           NEW s, s = EndPeriod(r, tokens), NEW z, z = EndPeriod(t, tokens),
           Follows(s, z), LastRatio(z) = LastRatio(s)
    PROVE  Payment(t, tokens, infos[d], h, cap[d]) = Payment(r, tokens, infos[d], h, cap[d])
<1>1. /\ Sound(A, s, infos, cap, h) /\ Counted(s, Periods(infos))
      /\ Counted(z, Periods(others)) /\ h <= h
  BY EndPeriodSound
<1>2. Value(z, infos[d], h) = Value(s, infos[d], h)
  BY <1>1, ValueSame
<1>3. Payment(r, tokens, infos[d], h, cap[d])
        = IF infos[d].height = h THEN 0 ELSE Value(s, infos[d], h) \div Precision
  BY PaymentIs
<1>4. Payment(t, tokens, others[d], h, cap[d])
        = IF others[d].height = h THEN 0 ELSE Value(z, others[d], h) \div Precision
  BY PaymentIs
<1> QED
  BY <1>2, <1>3, <1>4

\* The operator's commission has no part in it.
LEMMA PaymentAfterCommission ==
    ASSUME NEW A, IsFiniteSet(A), NEW r, NEW infos, NEW cap \in [A -> Nat], NEW h \in Nat,
           Counted(r, Periods(infos)), Sound(A, r, infos, cap, h),
           NEW t, t = WithoutCommission(r), Counted(t, Periods(infos)),
           Sound(A, t, infos, cap, h),
           NEW tokens \in Nat, Sum(cap, A) <= tokens * Precision, NEW d \in DOMAIN infos
    PROVE  Payment(t, tokens, infos[d], h, cap[d]) = Payment(r, tokens, infos[d], h, cap[d])
<1> DEFINE s == EndPeriod(r, tokens)
           z == EndPeriod(t, tokens)
<1>1. /\ DOMAIN r = {"outstanding", "commission", "current", "period", "historical", "slashes"}
      /\ t.period = r.period /\ t.historical = r.historical /\ t.slashes = r.slashes
      /\ t.current = r.current
      /\ DOMAIN t = DOMAIN r
  BY DEF Counted, RewardsOK, WithoutCommission
<1>2. \A p : Record(t, p) = Record(r, p)
  BY <1>1 DEF Record
<1>3. EndedRatio(t, tokens) = EndedRatio(r, tokens)
  BY <1>1, <1>2 DEF EndedRatio
<1>4. \A p : DecrementRef(t, p).historical = DecrementRef(r, p).historical
  BY <1>1, <1>2 DEF DecrementRef
<1>5. z.historical = s.historical /\ z.period = s.period /\ z.slashes = s.slashes
  BY <1>1, <1>3, <1>4 DEF EndPeriod
<1>6. Follows(s, z) /\ LastRatio(z) = LastRatio(s)
  BY <1>5 DEF Follows, LastRatio, Ratio, Record
<1> HIDE DEF s, z
<1>7. s = EndPeriod(r, tokens) /\ z = EndPeriod(t, tokens)
  BY DEF s, z
<1> QED
  BY <1>6, <1>7, PaymentSame

LEMMA EndPeriodMoves ==
    ASSUME NEW r, NEW tokens
    PROVE  /\ EndPeriod(r, tokens).period = r.period + 1
           /\ EndPeriod(r, tokens).slashes = r.slashes
BY DEF EndPeriod

\* Nor has another delegation that withdraws and starts again.
LEMMA PaymentAfterOther ==
    ASSUME NEW A, IsFiniteSet(A), NEW r, NEW infos, NEW cap \in [A -> Nat], NEW h \in Nat,
           Counted(r, Periods(infos)), Sound(A, r, infos, cap, h),
           NEW tokens \in Nat, Sum(cap, A) <= tokens * Precision,
           NEW s, s = EndPeriod(r, tokens), NEW p \in Nat, p < r.period, p \in DOMAIN s.historical,
           NEW reward, NEW x, x = PaidOut(s, p, reward), RewardsOK(x),
           NEW t, t = IncrementRef(x, x.period - 1),
           NEW others, Counted(t, Periods(others)), Sound(A, t, others, cap, h),
           NEW d \in DOMAIN infos, d \in DOMAIN others, others[d] = infos[d]
    PROVE  Payment(t, tokens, infos[d], h, cap[d]) = Payment(r, tokens, infos[d], h, cap[d])
<1> DEFINE z == EndPeriod(t, tokens)
           q == r.period
           y == DecrementRef(s, p)
<1>1. /\ Counted(s, Periods(infos)) /\ RewardsOK(s) /\ q \in Nat
      /\ s.period = q + 1 /\ s.current = 0
  <2>0. Counted(s, Periods(infos))
    BY EndPeriodSound
  <2>1. Counted(s, Periods(infos)) /\ RewardsOK(s)
    BY <2>0 DEF Counted
  <2>2. s.period = r.period + 1 /\ s.current = 0
    BY DEF EndPeriod
  <2>3. r.period \in Nat
    BY DEF Counted
  <2> QED
    BY <2>1, <2>2, <2>3
<1>2. q \in DOMAIN s.historical /\ \A n \in DOMAIN s.historical : n \in Nat /\ n <= q
  BY <1>1, KnownPeriods
<1>3. /\ x.period = q + 1 /\ x.slashes = s.slashes /\ x.current = 0
      /\ x.historical = y.historical
  <2>1. x = [y EXCEPT !.outstanding = @ - reward] /\ y = [s EXCEPT !.historical = y.historical]
    BY <1>1 DEF PaidOut, DecrementRef, RewardsOK
  <2>2. DOMAIN s = {"outstanding", "commission", "current", "period", "historical", "slashes"}
    BY <1>1 DEF RewardsOK
  <2> HIDE DEF y
  <2> QED
    BY <1>1, <2>1, <2>2
<1>4. /\ DOMAIN x.historical \subseteq DOMAIN s.historical
      /\ \A n \in DOMAIN x.historical : x.historical[n].ratio = s.historical[n].ratio
  BY <1>1, <1>3, DecrementRefRatios
<1>5. q \in DOMAIN x.historical
  BY <1>1, <1>2, <1>3 DEF DecrementRef, Drop, Put, RewardsOK
<1>6. x.period - 1 = q
  BY <1>1, <1>3
<1>7. /\ t.period = q + 1 /\ t.slashes = s.slashes /\ t.current = 0
      /\ DOMAIN t.historical = DOMAIN x.historical
      /\ \A n \in DOMAIN t.historical : t.historical[n].ratio = s.historical[n].ratio
  BY <1>3, <1>4, <1>5, <1>6, IncrementRefRatios
<1>8. /\ DOMAIN z.historical \subseteq DOMAIN t.historical \union {q + 1}
      /\ q + 1 \in DOMAIN z.historical
      /\ \A n \in DOMAIN z.historical \ {q + 1} : z.historical[n].ratio = t.historical[n].ratio
      /\ z.historical[q + 1].ratio = EndedRatio(t, tokens)
  <2>1. Ordered(t) /\ t.current >= 0
    BY <1>7 DEF Sound
  <2> QED
    BY <1>7, <2>1, EndPeriodRatios
<1>12. z = EndPeriod(t, tokens)
  OBVIOUS
<1> HIDE DEF z
<1>9. z.period = q + 2 /\ z.slashes = s.slashes
  <2>1. z.period = t.period + 1 /\ z.slashes = t.slashes
    BY <1>12, EndPeriodMoves
  <2>2. q \in Nat /\ t.period = q + 1 /\ t.slashes = s.slashes
    BY <1>1, <1>7
  <2> QED
    BY <2>1, <2>2
<1>10. Follows(s, z)
  <2>1. z.period = s.period + 1
    BY <1>1, <1>9
  <2>2. ASSUME NEW n \in DOMAIN z.historical, n \in DOMAIN s.historical
        PROVE  z.historical[n].ratio = s.historical[n].ratio
    <3>1. n # q + 1
      BY <1>1, <1>2, <2>2
    <3>2. n \in DOMAIN t.historical /\ z.historical[n].ratio = t.historical[n].ratio
      BY <1>8, <2>2, <3>1
    <3> QED
      BY <1>7, <3>2
  <2> QED
    BY <1>9, <2>1, <2>2 DEF Follows
<1>11. LastRatio(z) = LastRatio(s)
  <2>1. s.period - 1 = q /\ t.period - 1 = q /\ z.period - 1 = q + 1
    BY <1>1, <1>7, <1>9
  <2>2. LastRatio(s) = s.historical[q].ratio /\ LastRatio(t) = s.historical[q].ratio
    BY <1>2, <1>5, <1>7, <2>1 DEF LastRatio, Ratio, Record
  <2>3. LastRatio(z) = EndedRatio(t, tokens)
    BY <1>8, <2>1 DEF LastRatio, Ratio, Record
  <2>4. EndedRatio(t, tokens) = LastRatio(t) + (IF tokens = 0 THEN 0 ELSE 0 \div tokens)
    BY <1>7 DEF EndedRatio, LastRatio, Ratio
  <2>5. tokens # 0 => 0 \div tokens = 0
    OBVIOUS
  <2>6. LastRatio(s) \in Int
    BY <1>1, KnownType
  <2> QED
    BY <2>2, <2>3, <2>4, <2>5, <2>6
<1> QED
  BY <1>10, <1>11, <1>12, PaymentSame
=============================================================================
