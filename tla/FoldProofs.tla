------------------------------ MODULE FoldProofs ------------------------------
(***************************************************************************)
(* Lemmas about the folds of the community modules, which the models use   *)
(* for sums and for loops.  A fold is a recursive function on the subsets  *)
(* of a finite set, chosen by its equation: that there is one is proved    *)
(* here, by an induction that is stated with sets and functions.           *)
(***************************************************************************)
EXTENDS Integers, FiniteSetsExt, Functions, TLAPS, FiniteSetTheorems, WellFoundedInduction

-----------------------------------------------------------------------------
(* Induction *)

(* A nonempty set of naturals has a least element.                         *)
LEMMA LeastNatural ==
    ASSUME NEW S \in SUBSET Nat, S # {}
    PROVE  \E x \in S : \A y \in S : x <= y
<1>1. PICK x \in S : \A y \in S : <<y, x>> \notin OpToRel(<, Nat)
  BY WFMin, NatLessThanWellFounded, Zenon
<1>2. \A a, b \in Nat : <<a, b>> \notin OpToRel(<, Nat) => b <= a
  BY DEF OpToRel
<1> QED
  BY <1>1, <1>2

(* The least element of a set of naturals, which the models' operators     *)
(* take with Min, is an element of it and below the others.                *)
LEMMA MinOfNaturals ==
    ASSUME NEW S \in SUBSET Nat, S # {}
    PROVE  Min(S) \in S /\ \A y \in S : Min(S) <= y
  BY LeastNatural DEF Min

(* Induction over the naturals, for a set instead of a predicate.          *)
LEMMA NatSetInduction ==
    ASSUME NEW P \in SUBSET Nat, 0 \in P, \A n \in P : n + 1 \in P
    PROVE  P = Nat
<1> SUFFICES ASSUME Nat \ P # {} PROVE FALSE
  OBVIOUS
<1>1. PICK x \in Nat \ P : \A y \in Nat \ P : x <= y
  BY LeastNatural
<1>2. x # 0 /\ x - 1 \in Nat
  BY <1>1
<1>3. x - 1 \in P
  BY <1>1, <1>2
<1> QED
  BY <1>1, <1>2, <1>3

(* Induction over the subsets of a finite set.                             *)
LEMMA SubsetInduction ==
    ASSUME NEW S, IsFiniteSet(S), NEW P, {} \in P,
           \A s \in SUBSET S : s # {} /\ (\A x \in s : s \ {x} \in P) => s \in P
    PROVE  SUBSET S \subseteq P
<1> DEFINE N == {n \in Nat : \A s \in SUBSET S : Cardinality(s) = n => s \in P}
<1>1. \A s \in SUBSET S : IsFiniteSet(s) /\ Cardinality(s) \in Nat
  BY FS_Subset, FS_CardinalityType
<1>2. 0 \in N
  <2>1. \A s \in SUBSET S : Cardinality(s) = 0 => s = {}
    BY <1>1, FS_EmptySet
  <2> QED
    BY <2>1
<1>3. ASSUME NEW n \in N PROVE n + 1 \in N
  <2>1. ASSUME NEW s \in SUBSET S, Cardinality(s) = n + 1 PROVE s \in P
    <3>1. s # {}
      BY <2>1, FS_EmptySet
    <3>2. \A x \in s : s \ {x} \in SUBSET S /\ Cardinality(s \ {x}) = n
      BY <1>1, <2>1, FS_RemoveElement
    <3> QED
      BY <3>1, <3>2
  <2> QED
    BY <2>1
<1>4. N = Nat
  <2> HIDE DEF N
  <2>1. N \in SUBSET Nat
    BY DEF N
  <2> QED
    BY <1>2, <1>3, <2>1, NatSetInduction
<1> QED
  BY <1>1, <1>4

(* The image of a finite set.                                              *)
LEMMA FiniteImage ==
    ASSUME NEW S, IsFiniteSet(S), NEW f
    PROVE  /\ IsFiniteSet({f[x] : x \in S})
           /\ (\A x, y \in S : f[x] = f[y] => x = y) =>
                 Cardinality({f[x] : x \in S}) = Cardinality(S)
<1> DEFINE T == {f[x] : x \in S}
           g == [x \in S |-> f[x]]
<1>1. g \in Surjection(S, T)
  BY DEF Surjection
<1>2. (\A x, y \in S : f[x] = f[y] => x = y) => g \in Injection(S, T)
  BY DEF Injection, IsInjective
<1> HIDE DEF g
<1>3. IsFiniteSet(T) /\ (g \in Injection(S, T) => Cardinality(T) = Cardinality(S))
  BY <1>1, FS_Surjection
<1> QED
  BY <1>2, <1>3

(* The greatest element of a bounded set of naturals, which the models'    *)
(* operators take with Max.                                                *)
LEMMA MaxOfNaturals ==
    ASSUME NEW S \in SUBSET Nat, S # {}, NEW n \in Nat, \A x \in S : x <= n
    PROVE  Max(S) \in S /\ \A y \in S : y <= Max(S)
<1> DEFINE U == {m \in Nat : \A x \in S : x <= m}
<1>1. PICK m \in U : \A y \in U : m <= y
  <2>1. U \in SUBSET Nat /\ n \in U
    OBVIOUS
  <2> QED
    BY <2>1, LeastNatural
<1>2. m \in S
  <2> SUFFICES ASSUME m \notin S PROVE FALSE
    OBVIOUS
  <2>1. PICK x \in S : TRUE
    OBVIOUS
  <2>2. m # 0 /\ m - 1 \in Nat
    BY <1>1, <2>1
  <2>3. \A y \in S : y <= m - 1
    BY <1>1, <2>2
  <2>4. m - 1 \in U
    BY <2>2, <2>3
  <2> QED
    BY <1>1, <2>4
<1>3. \A y \in S : y <= m
  BY <1>1
<1> HIDE DEF U
<1> QED
  BY <1>2, <1>3 DEF Max

-----------------------------------------------------------------------------
(* Recursion over the subsets of a finite set *)

(* The equation of a fold has a solution: S is folded by taking c[s] out   *)
(* of each s and applying step[s] to what is made of the rest.             *)
FoldEquation(S, base, c, step, it) ==
    \A s \in SUBSET S : it[s] = IF s = {} THEN base ELSE step[s][it[s \ {c[s]}]]

(* A function that satisfies the equation of a fold exists over every      *)
(* finite set: the recursive definition that the library hides in a LET is *)
(* not empty.                                                              *)
LEMMA FoldExists ==
    ASSUME NEW S, IsFiniteSet(S), NEW V, NEW base \in V,
           NEW c, \A s \in SUBSET S : s # {} => c[s] \in s,
           NEW step \in [SUBSET S -> [V -> V]]
    PROVE  \E it \in [SUBSET S -> V] : FoldEquation(S, base, c, step, it)
<1> DEFINE Small(n) == {s \in SUBSET S : Cardinality(s) <= n}
           Solves(n, it) ==
               \A s \in Small(n) :
                  it[s] = IF s = {} THEN base ELSE step[s][it[s \ {c[s]}]]
           P == {n \in Nat : \E it \in [Small(n) -> V] : Solves(n, it)}
<1>1. \A s \in SUBSET S : IsFiniteSet(s) /\ Cardinality(s) \in Nat
  BY FS_Subset, FS_CardinalityType
<1>2. \A s \in SUBSET S : s # {} =>
         /\ s \ {c[s]} \in SUBSET S
         /\ Cardinality(s \ {c[s]}) = Cardinality(s) - 1
  BY <1>1, FS_RemoveElement
<1>3. 0 \in P
  <2> DEFINE it == [s \in Small(0) |-> base]
  <2>1. it \in [Small(0) -> V]
    OBVIOUS
  <2>2. ASSUME NEW s \in Small(0) PROVE s = {}
    BY <1>1, FS_EmptySet
  <2>3. Solves(0, it)
    BY <2>2
  <2> QED
    BY <2>1, <2>3
<1>4. ASSUME NEW n \in P PROVE n + 1 \in P
  <2>1. PICK it \in [Small(n) -> V] : Solves(n, it)
    OBVIOUS
  <2> DEFINE ext == [s \in Small(n + 1) |->
                        IF s = {} THEN base ELSE step[s][it[s \ {c[s]}]]]
  <2>2. n \in Nat
    OBVIOUS
  <2>3. ASSUME NEW s \in Small(n + 1), s # {}
        PROVE  s \in SUBSET S /\ s \ {c[s]} \in Small(n) /\ s \ {c[s]} \in Small(n + 1)
    BY <2>2, <2>3, <1>1, <1>2
  <2>4. ASSUME NEW s \in Small(n) PROVE ext[s] = it[s]
    <3>1. s \in Small(n + 1)
      BY <1>1, <2>2
    <3> QED
      BY <3>1, <2>1
  <2>5. ext \in [Small(n + 1) -> V]
    <3>1. ASSUME NEW s \in Small(n + 1), s # {} PROVE step[s][it[s \ {c[s]}]] \in V
      <4>1. step[s] \in [V -> V] /\ it[s \ {c[s]}] \in V
        BY <2>1, <2>3, <3>1
      <4> QED
        BY <4>1
    <3> QED
      BY <3>1
  <2>6. Solves(n + 1, ext)
    <3>1. ASSUME NEW s \in Small(n + 1), s # {}
          PROVE  ext[s] = step[s][ext[s \ {c[s]}]]
      BY <3>1, <2>3, <2>4
    <3>2. ASSUME NEW s \in Small(n + 1), s = {} PROVE ext[s] = base
      BY <3>2
    <3> HIDE DEF ext, Small
    <3> QED
      BY <3>1, <3>2
  <2> HIDE DEF ext, Small, Solves
  <2> QED
    BY <2>2, <2>5, <2>6
<1>5. P = Nat
  <2> HIDE DEF P
  <2>1. P \in SUBSET Nat
    BY DEF P
  <2> QED
    BY <1>3, <1>4, <2>1, NatSetInduction
<1>6. Cardinality(S) \in P
  BY <1>1, <1>5
<1>7. Small(Cardinality(S)) = SUBSET S
  BY <1>1, FS_Subset
<1>8. PICK it \in [Small(Cardinality(S)) -> V] : Solves(Cardinality(S), it)
  BY <1>6
<1> QED
  BY <1>7, <1>8 DEF FoldEquation

-----------------------------------------------------------------------------
(* Loops over a sequence *)

(* A prefix of the indices is its last index and the prefix before it.     *)
LEMMA MaxOfPrefix ==
    ASSUME NEW j \in Nat, j > 0
    PROVE  Max(1 .. j) = j /\ (1 .. j) \ {j} = 1 .. j - 1
<1>1. Max(1 .. j) \in 1 .. j /\ \A y \in 1 .. j : y <= Max(1 .. j)
  <2>1. (1 .. j) \in SUBSET Nat /\ 1 .. j # {} /\ \A x \in 1 .. j : x <= j
    OBVIOUS
  <2> HIDE DEF Max
  <2> QED
    BY <2>1, MaxOfNaturals
<1>2. j \in 1 .. j
  OBVIOUS
<1> DEFINE m == Max(1 .. j)
<1>3. m \in 1 .. j /\ j <= m
  BY <1>1, <1>2
<1> HIDE DEF m
<1>4. m = j
  BY <1>3
<1> QED
  BY <1>4 DEF m

(* The equation of FoldLeft over a sequence of length n.                   *)
LoopEquation(n, base, step, it) ==
    \A s \in SUBSET (1 .. n) :
       it[s] = IF s = {} THEN base ELSE step[Max(s)][it[s \ {Max(s)}]]

(* A function that satisfies the equation of a loop over 1 .. n exists.    *)
LEMMA LoopExists ==
    ASSUME NEW n \in Nat, NEW V, NEW base \in V, NEW step \in [1 .. n -> [V -> V]]
    PROVE  \E it \in [SUBSET (1 .. n) -> V] : LoopEquation(n, base, step, it)
<1> DEFINE S == 1 .. n
           c == [s \in SUBSET S |-> Max(s)]
           st == [s \in SUBSET S |-> IF s = {} THEN [v \in V |-> v] ELSE step[Max(s)]]
<1>1. IsFiniteSet(S)
  BY FS_Interval
<1>2. \A s \in SUBSET S : s # {} => Max(s) \in s
  <2> SUFFICES ASSUME NEW s \in SUBSET S, s # {} PROVE Max(s) \in s
    OBVIOUS
  <2>1. s \in SUBSET Nat /\ \A x \in s : x <= n
    OBVIOUS
  <2> QED
    BY <2>1, MaxOfNaturals
<1>3. st \in [SUBSET S -> [V -> V]]
  <2>1. \A s \in SUBSET S : s # {} => Max(s) \in 1 .. n
    BY <1>2
  <2> QED
    BY <2>1
<1>4. \A s \in SUBSET S : s # {} => c[s] \in s
  BY <1>2
<1>5. \A s \in SUBSET S : s # {} => c[s] = Max(s) /\ st[s] = step[Max(s)]
  OBVIOUS
<1> HIDE DEF c, st, S
<1>6. PICK it \in [SUBSET S -> V] : FoldEquation(S, base, c, st, it)
  BY <1>1, <1>3, <1>4, FoldExists
<1>7. LoopEquation(n, base, step, it)
  <2>1. \A s \in SUBSET S :
           it[s] = IF s = {} THEN base ELSE step[Max(s)][it[s \ {Max(s)}]]
    BY <1>5, <1>6 DEF FoldEquation
  <2> QED
    BY <2>1 DEF LoopEquation, S
<1> QED
  BY <1>6, <1>7 DEF S

(* What the steps of a loop preserve holds in the end.                     *)
LEMMA LoopInvariant ==
    ASSUME NEW n \in Nat, NEW base, NEW step, NEW Inv, base \in Inv[0],
           \A j \in 0 .. n - 1 : \A s \in Inv[j] : step[j + 1][s] \in Inv[j + 1],
           NEW it, LoopEquation(n, base, step, it)
    PROVE  it[1 .. n] \in Inv[n]
<1> DEFINE P == {j \in Nat : j <= n => it[1 .. j] \in Inv[j]}
<1>1. 0 \in P
  <2>1. 1 .. 0 = {} /\ {} \in SUBSET (1 .. n)
    OBVIOUS
  <2>2. it[1 .. 0] = base
    BY <2>1 DEF LoopEquation
  <2> QED
    BY <2>2
<1>2. ASSUME NEW j \in P PROVE j + 1 \in P
  <2> SUFFICES ASSUME j + 1 <= n PROVE it[1 .. j + 1] \in Inv[j + 1]
    OBVIOUS
  <2>1. j \in 0 .. n - 1 /\ it[1 .. j] \in Inv[j]
    OBVIOUS
  <2> DEFINE s == 1 .. j + 1
  <2>2. Max(s) = j + 1 /\ s \ {j + 1} = 1 .. j
    <3>1. j + 1 \in Nat /\ j + 1 > 0 /\ (j + 1) - 1 = j
      BY <2>1
    <3> QED
      BY <3>1, MaxOfPrefix
  <2>3. s \in SUBSET (1 .. n) /\ s # {}
    <3>1. \A x \in 1 .. j + 1 : x \in 1 .. n
      BY <2>1
    <3>2. j + 1 \in 1 .. j + 1
      BY <2>1
    <3> QED
      BY <3>1, <3>2
  <2> HIDE DEF s
  <2>4. it[s] = step[j + 1][it[1 .. j]]
    BY <2>2, <2>3 DEF LoopEquation
  <2> QED
    BY <2>1, <2>4 DEF s
<1>3. P = Nat
  <2> HIDE DEF P
  <2>1. P \in SUBSET Nat
    BY DEF P
  <2> QED
    BY <1>1, <1>2, <2>1, NatSetInduction
<1> QED
  BY <1>3

-----------------------------------------------------------------------------
(* Sums *)

AnElement(S) == [s \in (SUBSET S) \ {{}} |-> CHOOSE x \in s : TRUE]

(* What a sum is, for every subset of S.                                   *)
Sums(f, S, it) ==
    /\ it \in [SUBSET S -> Int]
    /\ it[{}] = 0
    /\ \A s \in SUBSET S : \A x \in s : it[s] = f[x] + it[s \ {x}]

(* The sum of the library takes one element after the other, in an order   *)
(* of its own.                                                             *)
LEMMA SumFold ==
    ASSUME NEW S, IsFiniteSet(S), NEW f, \A x \in S : f[x] \in Int
    PROVE  \E it \in [SUBSET S -> Int] :
              /\ it[{}] = 0
              /\ \A s \in SUBSET S : s # {} =>
                    \E x \in s : it[s] = f[x] + it[s \ {x}]
              /\ SumFunctionOnSet(f, S) = it[S]
<1> DEFINE c == AnElement(S)
           Eq(it) == it = [s \in SUBSET S |->
                             IF s = {} THEN 0
                             ELSE f[CHOOSE x \in s : TRUE] + it[s \ {CHOOSE x \in s : TRUE}]]
           step == [s \in SUBSET S |-> [v \in Int |-> IF s = {} THEN v ELSE f[c[s]] + v]]
<1>1. \A s \in SUBSET S : s # {} => c[s] = (CHOOSE x \in s : TRUE) /\ c[s] \in s
  BY DEF AnElement
<1>2. step \in [SUBSET S -> [Int -> Int]]
  <2> HIDE DEF c
  <2> QED
    BY <1>1
<1>3. PICK it \in [SUBSET S -> Int] : FoldEquation(S, 0, c, step, it)
  <2>1. \A s \in SUBSET S : s # {} => c[s] \in s
    BY <1>1
  <2>2. 0 \in Int
    OBVIOUS
  <2> HIDE DEF c, step
  <2> QED
    BY <1>2, <2>1, <2>2, FoldExists
<1>4. Eq(it)
  <2>1. ASSUME NEW s \in SUBSET S, s # {}
        PROVE  it[s] = f[CHOOSE x \in s : TRUE] + it[s \ {CHOOSE x \in s : TRUE}]
    BY <1>1, <1>3, <2>1 DEF FoldEquation
  <2>2. \A s \in SUBSET S : it[s] = IF s = {} THEN 0
             ELSE f[CHOOSE x \in s : TRUE] + it[s \ {CHOOSE x \in s : TRUE}]
    BY <1>3, <2>1 DEF FoldEquation
  <2> QED
    BY <2>2
<1> DEFINE g == CHOOSE g : Eq(g)
<1>5. Eq(g)
  BY <1>4
<1>6. SumFunctionOnSet(f, S) = g[S]
  BY DEF SumFunctionOnSet, FoldFunctionOnSet, MapThenFoldSet
<1>7. ASSUME NEW h, Eq(h)
      PROVE  /\ h[{}] = 0
             /\ \A s \in SUBSET S : s # {} => h[s] = f[c[s]] + h[s \ {c[s]}]
  BY <1>1, <1>7
<1>8. SUBSET S \subseteq {s \in SUBSET S : g[s] = it[s]}
  <2> DEFINE P == {s \in SUBSET S : g[s] = it[s]}
  <2>1. {} \in P
    BY <1>4, <1>5, <1>7
  <2>2. ASSUME NEW s \in SUBSET S, s # {}, \A x \in s : s \ {x} \in P
        PROVE  s \in P
    <3>1. g[s] = f[c[s]] + g[s \ {c[s]}] /\ it[s] = f[c[s]] + it[s \ {c[s]}]
      BY <1>4, <1>5, <1>7, <2>2
    <3>2. g[s \ {c[s]}] = it[s \ {c[s]}]
      BY <1>1, <2>2
    <3> HIDE DEF g, Eq, c
    <3> QED
      BY <3>1, <3>2
  <2> HIDE DEF P
  <2>3. SUBSET S \subseteq P
    BY <2>1, <2>2, SubsetInduction
  <2> QED
    BY <2>3 DEF P
<1>9. SumFunctionOnSet(f, S) = it[S]
  BY <1>6, <1>8
<1>10. it[{}] = 0 /\ \A s \in SUBSET S : s # {} => \E x \in s : it[s] = f[x] + it[s \ {x}]
  BY <1>1, <1>4, <1>7
<1> HIDE DEF g, Eq, c, step
<1> QED
  BY <1>9, <1>10

(* It does not matter which element is taken out first.                    *)
LEMMA SumExists ==
    ASSUME NEW S, IsFiniteSet(S), NEW f, \A x \in S : f[x] \in Int
    PROVE  \E it : Sums(f, S, it) /\ SumFunctionOnSet(f, S) = it[S]
<1>1. PICK it \in [SUBSET S -> Int] :
         /\ it[{}] = 0
         /\ \A s \in SUBSET S : s # {} => \E x \in s : it[s] = f[x] + it[s \ {x}]
         /\ SumFunctionOnSet(f, S) = it[S]
  BY SumFold
<1> DEFINE P == {s \in SUBSET S : \A x \in s : it[s] = f[x] + it[s \ {x}]}
<1>2. {} \in P
  OBVIOUS
<1>3. ASSUME NEW s \in SUBSET S, s # {}, \A x \in s : s \ {x} \in P
      PROVE  s \in P
  <2>1. PICK c \in s : it[s] = f[c] + it[s \ {c}]
    BY <1>1, <1>3
  <2>2. ASSUME NEW x \in s PROVE it[s] = f[x] + it[s \ {x}]
    <3>1. CASE x = c
      BY <2>1, <3>1
    <3>2. CASE x # c
      <4> DEFINE a == s \ {c}
                 b == s \ {x}
      <4>1. a \ {x} = b \ {c} /\ x \in a /\ c \in b /\ b \ {c} \in SUBSET S
        BY <3>2
      <4>2. it[a] = f[x] + it[a \ {x}] /\ it[b] = f[c] + it[b \ {c}]
        BY <1>3, <4>1
      <4>3. f[x] \in Int /\ f[c] \in Int /\ it[b \ {c}] \in Int
        BY <4>1
      <4> HIDE DEF a, b
      <4>4. it[s] = f[c] + it[a]
        BY <2>1 DEF a
      <4>5. it[s] = f[x] + it[b]
        <5> DEFINE w == it[b \ {c}]
        <5>1. w \in Int /\ it[a] = f[x] + w /\ it[b] = f[c] + w
          BY <4>1, <4>2, <4>3
        <5> HIDE DEF w
        <5> QED
          BY <4>3, <4>4, <5>1
      <4> QED
        BY <4>5 DEF b
    <3> QED
      BY <3>1, <3>2
  <2> QED
    BY <2>2
<1>4. SUBSET S \subseteq P
  <2> HIDE DEF P
  <2> QED
    BY <1>2, <1>3, SubsetInduction
<1> QED
  BY <1>1, <1>4 DEF Sums

(* Two ways of summing the same numbers agree, whatever their order.       *)
LEMMA SumUnique ==
    ASSUME NEW S, IsFiniteSet(S), NEW T \in SUBSET S, NEW f, NEW g,
           NEW it, NEW it2, Sums(f, S, it), Sums(g, T, it2),
           \A x \in T : f[x] = g[x]
    PROVE  it[T] = it2[T]
<1> DEFINE P == {s \in SUBSET T : it[s] = it2[s]}
<1>1. IsFiniteSet(T)
  BY FS_Subset
<1>2. {} \in P
  BY DEF Sums
<1>3. ASSUME NEW s \in SUBSET T, s # {}, \A x \in s : s \ {x} \in P
      PROVE  s \in P
  <2>1. PICK x \in s : TRUE
    BY <1>3
  <2>2. it[s] = f[x] + it[s \ {x}] /\ it2[s] = g[x] + it2[s \ {x}]
    BY DEF Sums
  <2>3. it[s \ {x}] = it2[s \ {x}]
    BY <1>3
  <2> QED
    BY <2>1, <2>2, <2>3
<1>4. SUBSET T \subseteq P
  <2> HIDE DEF P
  <2> QED
    BY <1>1, <1>2, <1>3, SubsetInduction
<1> QED
  BY <1>4

(* What the models need of sums.                                           *)
LEMMA SumEmpty == ASSUME NEW f PROVE SumFunctionOnSet(f, {}) = 0
<1>1. IsFiniteSet({}) /\ \A x \in {} : f[x] \in Int
  BY FS_EmptySet
<1>2. PICK it : Sums(f, {}, it) /\ SumFunctionOnSet(f, {}) = it[{}]
  BY <1>1, SumExists
<1> QED
  BY <1>2 DEF Sums

(* Functions that agree on a set have the same sum over it.                *)
LEMMA SumSame ==
    ASSUME NEW S, IsFiniteSet(S), NEW f, NEW g, \A x \in S : f[x] \in Int,
           \A x \in S : f[x] = g[x]
    PROVE  SumFunctionOnSet(f, S) = SumFunctionOnSet(g, S)
<1>1. PICK it : Sums(f, S, it) /\ SumFunctionOnSet(f, S) = it[S]
  BY SumExists
<1>2. PICK it2 : Sums(g, S, it2) /\ SumFunctionOnSet(g, S) = it2[S]
  BY SumExists
<1> QED
  BY <1>1, <1>2, SumUnique

(* A sum is any one of its terms and the sum of the others.                *)
LEMMA SumRemove ==
    ASSUME NEW S, IsFiniteSet(S), NEW f, \A x \in S : f[x] \in Int, NEW x \in S
    PROVE  /\ SumFunctionOnSet(f, S) \in Int /\ SumFunctionOnSet(f, S \ {x}) \in Int
           /\ SumFunctionOnSet(f, S) = f[x] + SumFunctionOnSet(f, S \ {x})
<1>1. PICK it : Sums(f, S, it) /\ SumFunctionOnSet(f, S) = it[S]
  BY SumExists
<1>2. IsFiniteSet(S \ {x})
  BY FS_RemoveElement
<1>3. PICK it2 : Sums(f, S \ {x}, it2) /\ SumFunctionOnSet(f, S \ {x}) = it2[S \ {x}]
  BY <1>2, SumExists
<1>4. it[S \ {x}] = it2[S \ {x}]
  BY <1>1, <1>3, SumUnique
<1> QED
  BY <1>1, <1>3, <1>4 DEF Sums

(* A new element adds its term to the sum.                                 *)
LEMMA SumAdd ==
    ASSUME NEW S, IsFiniteSet(S), NEW f, \A x \in S : f[x] \in Int,
           NEW y, y \notin S, f[y] \in Int
    PROVE  SumFunctionOnSet(f, S \cup {y}) = SumFunctionOnSet(f, S) + f[y]
<1>1. IsFiniteSet(S \cup {y}) /\ y \in S \cup {y} /\ (S \cup {y}) \ {y} = S
  BY FS_AddElement
<1>2. /\ SumFunctionOnSet(f, S) \in Int
      /\ SumFunctionOnSet(f, S \cup {y}) = f[y] + SumFunctionOnSet(f, S)
  BY <1>1, SumRemove
<1> QED
  BY <1>2

(* A sum of naturals is one.                                               *)
LEMMA SumOfNaturals ==
    ASSUME NEW S, IsFiniteSet(S), NEW f, \A x \in S : f[x] \in Nat
    PROVE  SumFunctionOnSet(f, S) \in Nat
<1>1. PICK it : Sums(f, S, it) /\ SumFunctionOnSet(f, S) = it[S]
  BY SumExists
<1> DEFINE P == {s \in SUBSET S : it[s] \in Nat}
<1>2. {} \in P
  BY <1>1 DEF Sums
<1>3. ASSUME NEW s \in SUBSET S, s # {}, \A x \in s : s \ {x} \in P
      PROVE  s \in P
  <2>1. PICK x \in s : TRUE
    BY <1>3
  <2>2. it[s] = f[x] + it[s \ {x}] /\ it[s \ {x}] \in Nat /\ f[x] \in Nat
    BY <1>1, <1>3 DEF Sums
  <2> QED
    BY <2>2
<1>4. SUBSET S \subseteq P
  <2> HIDE DEF P
  <2> QED
    BY <1>2, <1>3, SubsetInduction
<1> QED
  BY <1>1, <1>4

(* Sums over sets in bijection.                                            *)
LEMMA SumReindexed ==
    ASSUME NEW S, IsFiniteSet(S), NEW T, NEW f, NEW g, NEW b,
           \A x \in S : b[x] \in T /\ f[x] = g[b[x]] /\ f[x] \in Int,
           \A x, y \in S : b[x] = b[y] => x = y,
           \A y \in T : \E x \in S : b[x] = y
    PROVE  SumFunctionOnSet(f, S) = SumFunctionOnSet(g, T)
<1> DEFINE Im(s) == {b[x] : x \in s}
           P == {s \in SUBSET S : SumFunctionOnSet(f, s) = SumFunctionOnSet(g, Im(s))}
<1>1. \A s \in SUBSET S : IsFiniteSet(s) /\ IsFiniteSet(Im(s))
  BY FS_Subset, FiniteImage
<1>2. {} \in P
  <2>1. Im({}) = {}
    OBVIOUS
  <2> QED
    BY <2>1, SumEmpty
<1>3. ASSUME NEW s \in SUBSET S, s # {}, \A x \in s : s \ {x} \in P
      PROVE  s \in P
  <2>1. PICK x \in s : TRUE
    BY <1>3
  <2>2. SumFunctionOnSet(f, s) = f[x] + SumFunctionOnSet(f, s \ {x})
    BY <1>1, SumRemove
  <2>3. /\ IsFiniteSet(Im(s)) /\ b[x] \in Im(s) /\ \A y \in Im(s) : g[y] \in Int
        /\ Im(s) \ {b[x]} = Im(s \ {x})
    BY <1>1
  <2>4. SumFunctionOnSet(g, Im(s)) = g[b[x]] + SumFunctionOnSet(g, Im(s \ {x}))
    <3> DEFINE i == Im(s)
    <3>1. i \ {b[x]} = Im(s \ {x})
      BY <2>3
    <3>2. IsFiniteSet(i) /\ b[x] \in i /\ \A y \in i : g[y] \in Int
      BY <2>3
    <3> HIDE DEF i
    <3>3. SumFunctionOnSet(g, i) = g[b[x]] + SumFunctionOnSet(g, i \ {b[x]})
      BY <3>2, SumRemove
    <3> QED
      BY <3>1, <3>3 DEF i
  <2>5. SumFunctionOnSet(f, s \ {x}) = SumFunctionOnSet(g, Im(s \ {x}))
    BY <1>3
  <2> HIDE DEF Im
  <2>6. SumFunctionOnSet(f, s) = SumFunctionOnSet(g, Im(s))
    BY <2>2, <2>4, <2>5
  <2> QED
    BY <2>6
<1>4. SUBSET S \subseteq P
  <2> HIDE DEF P
  <2> QED
    BY <1>2, <1>3, SubsetInduction
<1>5. Im(S) = T
  OBVIOUS
<1> QED
  BY <1>4, <1>5

(* A sum of naturals over less is no more.                                 *)
LEMMA SumOfPart ==
    ASSUME NEW T, IsFiniteSet(T), NEW f, \A x \in T : f[x] \in Nat, NEW S \in SUBSET T
    PROVE  SumFunctionOnSet(f, S) <= SumFunctionOnSet(f, T)
<1> DEFINE P == {s \in SUBSET T : SumFunctionOnSet(f, s \cap S) <= SumFunctionOnSet(f, s)}
<1>1. \A s \in SUBSET T : IsFiniteSet(s) /\ \A x \in s : f[x] \in Nat /\ f[x] \in Int
  BY FS_Subset
<1>2. {} \in P
  <2>1. {} \cap S = {}
    OBVIOUS
  <2> QED
    BY <2>1, SumEmpty
<1>3. ASSUME NEW s \in SUBSET T, s # {}, \A x \in s : s \ {x} \in P
      PROVE  s \in P
  <2>1. PICK x \in s : TRUE
    BY <1>3
  <2> DEFINE a == SumFunctionOnSet(f, s \cap S)
             b == SumFunctionOnSet(f, s)
             c == SumFunctionOnSet(f, (s \ {x}) \cap S)
             d == SumFunctionOnSet(f, s \ {x})
  <2>2. a \in Nat /\ b \in Nat /\ c \in Nat /\ d \in Nat /\ f[x] \in Nat
    <3>1. s \cap S \in SUBSET T /\ (s \ {x}) \cap S \in SUBSET T /\ s \ {x} \in SUBSET T
      OBVIOUS
    <3> QED
      BY <1>1, <3>1, SumOfNaturals
  <2>3. b = f[x] + d
    BY <1>1, SumRemove
  <2>4. c <= d
    BY <1>3
  <2>5. a = c \/ a = f[x] + c
    <3>1. CASE x \in S
      <4> DEFINE u == s \cap S
      <4>1. u \in SUBSET T /\ x \in u /\ u \ {x} = (s \ {x}) \cap S
        BY <3>1
      <4>2. IsFiniteSet(u) /\ \A y \in u : f[y] \in Int
        BY <1>1, <4>1
      <4> HIDE DEF u
      <4>3. SumFunctionOnSet(f, u) = f[x] + SumFunctionOnSet(f, u \ {x})
        BY <4>1, <4>2, SumRemove
      <4> QED
        BY <4>1, <4>3 DEF u
    <3>2. CASE x \notin S
      <4>1. s \cap S = (s \ {x}) \cap S
        BY <3>2
      <4> QED
        BY <4>1
    <3> QED
      BY <3>1, <3>2
  <2>6. a <= b
    <3> HIDE DEF a, b, c, d
    <3> QED
      BY <2>2, <2>3, <2>4, <2>5
  <2> QED
    BY <2>6
<1>4. SUBSET T \subseteq P
  <2> HIDE DEF P
  <2> QED
    BY <1>2, <1>3, SubsetInduction
<1>5. T \cap S = S
  OBVIOUS
<1> QED
  BY <1>4, <1>5
===============================================================================
