--------------------------- MODULE Records_proofs ---------------------------
(* Theorems about Records and Billing, for any number of exchanges,        *)
(* conversations and readers: what readers are shown and what reports tell. *)
(* They rest on lemmas about sums over finite sets.  The theorems about     *)
(* ContextBudget, for conversations of any length, share their first lemma. *)
EXTENDS Records, ContextBudget, FiniteSetTheorems, WellFoundedInduction, NaturalsInduction, TLAPS

----------------------------------------------------------------------------
(* Sums: what SumFunction of the library gives for a finite set             *)

\* A set of natural numbers has a least member.
LEMMA NatHasLeast ==
  ASSUME NEW S \in SUBSET Nat, S # {}
  PROVE  \E t \in S : \A u \in S : t <= u
<1>1. PICK t \in S : \A u \in S : ~ (<<u, t>> \in OpToRel(<, Nat))
  BY WFMin, NatLessThanWellFounded, Zenon
<1>2. \A u \in S : ~ (u < t)
  BY <1>1 DEF OpToRel
<1> QED
  BY <1>2

\* A property of the subsets of a finite set holds for all of them if it passes
\* from the smaller to the larger.
LEMMA SubsetInduction ==
  ASSUME NEW S, IsFiniteSet(S), NEW Good \in SUBSET (SUBSET S),
         \A T \in SUBSET S : (\A U \in SUBSET T : U # T => U \in Good) => T \in Good
  PROVE  \A T \in SUBSET S : T \in Good
<1> SUFFICES ASSUME (SUBSET S) \ Good # {}
             PROVE  FALSE
  OBVIOUS
<1> DEFINE sizes == {Cardinality(T) : T \in (SUBSET S) \ Good}
<1>1. sizes \in SUBSET Nat /\ sizes # {}
  BY FS_Subset, FS_CardinalityType
<1>2. PICK n \in sizes : \A k \in sizes : n <= k
  BY <1>1, NatHasLeast
<1>3. \A k \in sizes : ~ (k < n)
  BY <1>1, <1>2
<1>4. PICK T \in (SUBSET S) \ Good : Cardinality(T) = n
  BY <1>2
<1>5. ASSUME NEW U \in SUBSET T, U # T
      PROVE  U \in Good
  <2>1. IsFiniteSet(T)
    BY FS_Subset
  <2>2. Cardinality(U) < n /\ U \in SUBSET S
    BY <1>4, <1>5, <2>1, FS_Subset, FS_CardinalityType
  <2> QED
    BY <1>3, <2>2
<1> QED
  BY <1>4, <1>5

Some(s) == CHOOSE x \in s : TRUE

\* The function on the subsets of S by which the library sums f.
Sums(f, S, g) ==
    g = [s \in SUBSET S |-> IF s = {} THEN 0 ELSE f[Some(s)] + g[s \ {Some(s)}]]

\* ... which the library takes with CHOOSE: any of them, if there is one.
LEMMA SumIsChosen ==
  ASSUME NEW f, NEW S, \E g : Sums(f, S, g)
  PROVE  \E g : Sums(f, S, g) /\ SumFunctionOnSet(f, S) = g[S]
  BY DEF SumFunctionOnSet, FoldFunctionOnSet, MapThenFoldSet, Sums, Some

\* What it gives for a set, from what it gives for the set without one element.
LEMMA SumsAt ==
  ASSUME NEW f, NEW S, NEW g, Sums(f, S, g), NEW T \in SUBSET S
  PROVE  /\ T = {} => g[T] = 0
         /\ T # {} => /\ Some(T) \in T
                      /\ T \ {Some(T)} \in SUBSET S
                      /\ g[T] = f[Some(T)] + g[T \ {Some(T)}]
<1>1. g[T] = IF T = {} THEN 0 ELSE f[Some(T)] + g[T \ {Some(T)}]
  BY DEF Sums
<1>2. T # {} => Some(T) \in T
  BY DEF Some
<1> QED
  BY <1>1, <1>2

\* There is one value for it.
LEMMA SumsAgree ==
  ASSUME NEW f, NEW S, NEW T, NEW g, NEW h, Sums(f, S, g), Sums(f, T, h), IsFiniteSet(S)
  PROVE  \A U \in SUBSET (S \cap T) : g[U] = h[U]
<1> DEFINE B == S \cap T
           Good == {U \in SUBSET B : g[U] = h[U]}
<1>1. IsFiniteSet(B)
  BY FS_Subset
<1>2. ASSUME NEW U \in SUBSET B, \A V \in SUBSET U : V # U => V \in Good
      PROVE  U \in Good
  <2>0. U \in SUBSET S /\ U \in SUBSET T
    OBVIOUS
  <2>1. CASE U = {}
    <3>1. g[U] = 0
      BY <2>0, <2>1, SumsAt
    <3>2. h[U] = 0
      BY <2>0, <2>1, SumsAt
    <3> QED
      BY <3>1, <3>2
  <2>2. CASE U # {}
    <3> DEFINE V == U \ {Some(U)}
    <3>1. Some(U) \in U /\ g[U] = f[Some(U)] + g[V]
      BY <2>0, <2>2, SumsAt
    <3>2. h[U] = f[Some(U)] + h[V]
      BY <2>0, <2>2, SumsAt
    <3>3. V \in Good
      BY <1>2, <3>1
    <3> QED
      BY <3>1, <3>2, <3>3
  <2> QED
    BY <2>1, <2>2
<1>3. Good \in SUBSET (SUBSET B)
  OBVIOUS
<1> HIDE DEF Good, B
<1>4. \A U \in SUBSET B : U \in Good
  BY <1>1, <1>2, <1>3, SubsetInduction
<1> QED
  BY <1>4 DEF Good, B

\* ... and there is one.
LEMMA SumsExist ==
  ASSUME NEW f, NEW S, IsFiniteSet(S)
  PROVE  \E g : Sums(f, S, g)
<1> DEFINE Good == {T \in SUBSET S : \E g : Sums(f, T, g)}
           Sum(T) == SumFunctionOnSet(f, T)
<1>1. ASSUME NEW T \in SUBSET S, \A U \in SUBSET T : U # T => U \in Good
      PROVE  T \in Good
  <2> DEFINE h == [s \in SUBSET T |->
                     IF s = {} THEN 0
                     ELSE f[Some(s)] + Sum(s \ {Some(s)})]
  <2>1. ASSUME NEW s \in SUBSET T, s # T
        PROVE  Sum(s) = h[s]
    <3>1. PICK g : Sums(f, s, g) /\ Sum(s) = g[s]
      BY <1>1, <2>1, SumIsChosen
    <3>2. CASE s = {}
      BY <3>1, <3>2, SumsAt
    <3>3. CASE s # {}
      <4> DEFINE r == s \ {Some(s)}
      <4>1. Some(s) \in s /\ g[s] = f[Some(s)] + g[r]
        BY <3>1, <3>3, SumsAt
      <4>2. r \in SUBSET T /\ r # T
        BY <2>1, <4>1
      <4>3. PICK k : Sums(f, r, k) /\ Sum(r) = k[r]
        BY <1>1, <4>2, SumIsChosen
      <4>4. IsFiniteSet(s) /\ r \in SUBSET (s \cap r)
        BY FS_Subset
      <4>5. g[r] = k[r]
        BY <3>1, <4>3, <4>4, SumsAgree
      <4> QED
        BY <3>1, <3>3, <4>1, <4>3, <4>5
    <3> QED
      BY <3>2, <3>3
  <2>2. ASSUME NEW s \in SUBSET T, s # {}
        PROVE  Sum(s \ {Some(s)}) = h[s \ {Some(s)}]
    <3>1. Some(s) \in s
      BY <2>2 DEF Some
    <3>2. s \ {Some(s)} \in SUBSET T /\ s \ {Some(s)} # T
      BY <3>1
    <3> HIDE DEF h
    <3> QED
      BY <2>1, <3>2
  <2>3. h = [s \in SUBSET T |-> IF s = {} THEN 0 ELSE f[Some(s)] + h[s \ {Some(s)}]]
    BY <2>2
  <2> HIDE DEF h
  <2>4. Sums(f, T, h)
    BY <2>3 DEF Sums
  <2> QED
    BY <2>4
<1>2. Good \in SUBSET (SUBSET S)
  OBVIOUS
<1> HIDE DEF Good
<1>3. \A T \in SUBSET S : T \in Good
  BY <1>1, <1>2, SubsetInduction
<1> QED
  BY <1>3 DEF Good

\* A sum is the sum without one element and that element: the one CHOOSE takes.
LEMMA SumStep ==
  ASSUME NEW f, NEW S, IsFiniteSet(S)
  PROVE  /\ S = {} => SumFunctionOnSet(f, S) = 0
         /\ S # {} => /\ Some(S) \in S
                      /\ SumFunctionOnSet(f, S)
                           = f[Some(S)] + SumFunctionOnSet(f, S \ {Some(S)})
<1>1. PICK g : Sums(f, S, g) /\ SumFunctionOnSet(f, S) = g[S]
  BY SumsExist, SumIsChosen
<1>2. S = {} => SumFunctionOnSet(f, S) = 0
  BY <1>1, SumsAt
<1>3. CASE S # {}
  <2> DEFINE T == S \ {Some(S)}
  <2>1. Some(S) \in S /\ g[S] = f[Some(S)] + g[T]
    BY <1>1, <1>3, SumsAt
  <2>2. IsFiniteSet(T) /\ T \in SUBSET (S \cap T)
    BY FS_Subset
  <2>3. PICK h : Sums(f, T, h) /\ SumFunctionOnSet(f, T) = h[T]
    BY <2>2, SumsExist, SumIsChosen
  <2>4. g[T] = h[T]
    BY <1>1, <2>2, <2>3, SumsAgree
  <2> QED
    BY <1>1, <1>3, <2>1, <2>3, <2>4
<1> QED
  BY <1>2, <1>3

\* Sums of integers are integers, sums of natural numbers natural numbers.
LEMMA SumType ==
  ASSUME NEW f, NEW S, IsFiniteSet(S), \A x \in S : f[x] \in Int
  PROVE  /\ SumFunctionOnSet(f, S) \in Int
         /\ (\A x \in S : f[x] \in Nat) => SumFunctionOnSet(f, S) \in Nat
<1> DEFINE Good == {T \in SUBSET S : /\ SumFunctionOnSet(f, T) \in Int
                                     /\ (\A x \in S : f[x] \in Nat) =>
                                            SumFunctionOnSet(f, T) \in Nat}
<1>1. ASSUME NEW T \in SUBSET S, \A U \in SUBSET T : U # T => U \in Good
      PROVE  T \in Good
  <2>1. IsFiniteSet(T)
    BY FS_Subset
  <2>2. CASE T = {}
    <3>1. SumFunctionOnSet(f, T) = 0
      BY <2>1, <2>2, SumStep
    <3> QED
      BY <3>1
  <2>3. CASE T # {}
    <3>1. /\ Some(T) \in T
          /\ SumFunctionOnSet(f, T) = f[Some(T)] + SumFunctionOnSet(f, T \ {Some(T)})
      BY <2>1, <2>3, SumStep
    <3>2. T \ {Some(T)} \in Good
      BY <1>1, <3>1
    <3>3. f[Some(T)] \in Int /\ ((\A x \in S : f[x] \in Nat) => f[Some(T)] \in Nat)
      BY <3>1
    <3> QED
      BY <3>1, <3>2, <3>3
  <2> QED
    BY <2>2, <2>3
<1>2. Good \in SUBSET (SUBSET S)
  OBVIOUS
<1> HIDE DEF Good
<1>3. S \in Good
  BY <1>1, <1>2, SubsetInduction
<1> QED
  BY <1>3 DEF Good

\* Any element may be taken out of a sum.
LEMMA SumRemove ==
  ASSUME NEW f, NEW S, IsFiniteSet(S), \A x \in S : f[x] \in Int
  PROVE  \A x \in S : SumFunctionOnSet(f, S) = f[x] + SumFunctionOnSet(f, S \ {x})
<1> DEFINE Sum(T) == SumFunctionOnSet(f, T)
           Good == {T \in SUBSET S : \A x \in T : Sum(T) = f[x] + Sum(T \ {x})}
<1>0. \A T \in SUBSET S : IsFiniteSet(T) /\ Sum(T) \in Int
  BY FS_Subset, SumType
<1>1. ASSUME NEW T \in SUBSET S, \A U \in SUBSET T : U # T => U \in Good
      PROVE  T \in Good
  <2> SUFFICES ASSUME NEW x \in T
               PROVE  Sum(T) = f[x] + Sum(T \ {x})
    OBVIOUS
  <2> DEFINE c == Some(T)
  <2>1. c \in T /\ Sum(T) = f[c] + Sum(T \ {c})
    BY <1>0, SumStep
  <2> HIDE DEF Sum, c
  <2>2. CASE x # c
    <3>1. Sum(T \ {c}) = f[x] + Sum((T \ {c}) \ {x})
      BY <1>1, <2>1, <2>2
    <3>2. Sum(T \ {x}) = f[c] + Sum((T \ {x}) \ {c})
      BY <1>1, <2>1, <2>2
    <3>3. (T \ {c}) \ {x} = (T \ {x}) \ {c}
      OBVIOUS
    <3> DEFINE rest == Sum((T \ {c}) \ {x})
    <3>4. rest \in Int /\ f[c] \in Int /\ f[x] \in Int
      BY <1>0, <2>1
    <3>5. Sum(T) = f[c] + (f[x] + rest) /\ Sum(T \ {x}) = f[c] + rest
      BY <2>1, <3>1, <3>2, <3>3
    <3> HIDE DEF rest
    <3> QED
      BY <3>4, <3>5
  <2> QED
    BY <2>1, <2>2
<1>2. Good \in SUBSET (SUBSET S)
  OBVIOUS
<1> HIDE DEF Good
<1>3. S \in Good
  BY <1>1, <1>2, SubsetInduction
<1> QED
  BY <1>3 DEF Good

\* Equal summands have equal sums.
LEMMA SumSame ==
  ASSUME NEW f, NEW g, NEW S, IsFiniteSet(S), \A x \in S : f[x] = g[x]
  PROVE  SumFunctionOnSet(f, S) = SumFunctionOnSet(g, S)
<1> DEFINE Good == {T \in SUBSET S : SumFunctionOnSet(f, T) = SumFunctionOnSet(g, T)}
<1>1. ASSUME NEW T \in SUBSET S, \A U \in SUBSET T : U # T => U \in Good
      PROVE  T \in Good
  <2>1. IsFiniteSet(T)
    BY FS_Subset
  <2>2. CASE T = {}
    <3>1. SumFunctionOnSet(f, T) = 0 /\ SumFunctionOnSet(g, T) = 0
      BY <2>1, <2>2, SumStep
    <3> QED
      BY <3>1
  <2>3. CASE T # {}
    <3>1. /\ Some(T) \in T
          /\ SumFunctionOnSet(f, T) = f[Some(T)] + SumFunctionOnSet(f, T \ {Some(T)})
          /\ SumFunctionOnSet(g, T) = g[Some(T)] + SumFunctionOnSet(g, T \ {Some(T)})
      BY <2>1, <2>3, SumStep
    <3>2. T \ {Some(T)} \in Good
      BY <1>1, <3>1
    <3>3. f[Some(T)] = g[Some(T)]
      BY <3>1
    <3> QED
      BY <3>1, <3>2, <3>3
  <2> QED
    BY <2>2, <2>3
<1>2. Good \in SUBSET (SUBSET S)
  OBVIOUS
<1> HIDE DEF Good
<1>3. S \in Good
  BY <1>1, <1>2, SubsetInduction
<1> QED
  BY <1>3 DEF Good

\* Multiplication distributes over addition.
LEMMA Distributes ==
  ASSUME NEW a \in Int, NEW x \in Int, NEW y \in Int
  PROVE  a * (x + y) = a * x + a * y /\ a * (x + 1) = a * x + a /\ a * x \in Int
  BY Z3

\* What each summand is off by at most, the sum is off by that often.
LEMMA SumNear ==
  ASSUME NEW f, NEW g, NEW S, IsFiniteSet(S), NEW a \in Int, NEW b \in Int, NEW d \in Int,
         \A x \in S : f[x] \in Int /\ g[x] \in Int /\ a * f[x] - b * g[x] <= d
  PROVE  a * SumFunctionOnSet(f, S) - b * SumFunctionOnSet(g, S) <= d * Cardinality(S)
<1> DEFINE Good == {T \in SUBSET S :
                      a * SumFunctionOnSet(f, T) - b * SumFunctionOnSet(g, T)
                        <= d * Cardinality(T)}
<1>1. ASSUME NEW T \in SUBSET S, \A U \in SUBSET T : U # T => U \in Good
      PROVE  T \in Good
  <2>1. IsFiniteSet(T)
    BY FS_Subset
  <2>2. CASE T = {}
    <3>1. SumFunctionOnSet(f, T) = 0 /\ SumFunctionOnSet(g, T) = 0 /\ Cardinality(T) = 0
      BY <2>1, <2>2, SumStep, FS_EmptySet
    <3>2. a * 0 - b * 0 <= d * 0
      OBVIOUS
    <3> QED
      BY <3>1, <3>2
  <2>3. CASE T # {}
    <3> DEFINE c == Some(T)
               U == T \ {c}
               F == SumFunctionOnSet(f, U)
               G == SumFunctionOnSet(g, U)
               n == Cardinality(U)
    <3>1. /\ c \in T
          /\ SumFunctionOnSet(f, T) = f[c] + F
          /\ SumFunctionOnSet(g, T) = g[c] + G
      BY <2>1, <2>3, SumStep
    <3>2. U \in SUBSET T /\ U # T /\ IsFiniteSet(U)
      BY <2>1, <3>1, FS_Subset
    <3>3. n \in Nat /\ Cardinality(T) = n + 1
      BY <2>1, <3>1, <3>2, FS_RemoveElement, FS_CardinalityType
    <3>4. F \in Int /\ G \in Int
      BY <3>2, SumType
    <3>5. f[c] \in Int /\ g[c] \in Int /\ a * f[c] - b * g[c] <= d
      BY <3>1
    <3> HIDE DEF c, F, G, n
    <3>6. a * F - b * G <= d * n
      BY <1>1, <3>2 DEF F, G, n
    <3>7. /\ a * (f[c] + F) = a * f[c] + a * F
          /\ b * (g[c] + G) = b * g[c] + b * G
          /\ d * (n + 1) = d * n + d
      BY <3>3, <3>4, <3>5, Distributes
    <3>8. /\ a * f[c] \in Int /\ b * g[c] \in Int /\ a * F \in Int /\ b * G \in Int
          /\ d * n \in Int
      BY <3>3, <3>4, <3>5, Distributes
    <3>9. a * (f[c] + F) - b * (g[c] + G) <= d * (n + 1)
      BY <3>5, <3>6, <3>7, <3>8
    <3> QED
      BY <3>1, <3>3, <3>9
  <2> QED
    BY <2>2, <2>3
<1>2. Good \in SUBSET (SUBSET S)
  OBVIOUS
<1> HIDE DEF Good
<1>3. \A T \in SUBSET S : T \in Good
  BY <1>1, <1>2, SubsetInduction
<1>4. S \in Good
  BY <1>3
<1> QED
  BY <1>4 DEF Good

\* Counting is adding ones.
LEMMA CountIsSum ==
  ASSUME NEW f, NEW S, IsFiniteSet(S), \A x \in S : f[x] = 1
  PROVE  SumFunctionOnSet(f, S) = Cardinality(S)
<1> DEFINE Good == {T \in SUBSET S : SumFunctionOnSet(f, T) = Cardinality(T)}
<1>1. ASSUME NEW T \in SUBSET S, \A U \in SUBSET T : U # T => U \in Good
      PROVE  T \in Good
  <2>1. IsFiniteSet(T)
    BY FS_Subset
  <2>2. CASE T = {}
    <3>1. SumFunctionOnSet(f, T) = 0 /\ Cardinality(T) = 0
      BY <2>1, <2>2, SumStep, FS_EmptySet
    <3> QED
      BY <3>1
  <2>3. CASE T # {}
    <3>1. /\ Some(T) \in T
          /\ SumFunctionOnSet(f, T) = f[Some(T)] + SumFunctionOnSet(f, T \ {Some(T)})
      BY <2>1, <2>3, SumStep
    <3>2. T \ {Some(T)} \in Good
      BY <1>1, <3>1
    <3>3. f[Some(T)] = 1
      BY <3>1
    <3>4. Cardinality(T \ {Some(T)}) = Cardinality(T) - 1 /\ Cardinality(T) \in Nat
      BY <2>1, <3>1, FS_RemoveElement, FS_CardinalityType
    <3> QED
      BY <3>1, <3>2, <3>3, <3>4
  <2> QED
    BY <2>2, <2>3
<1>2. Good \in SUBSET (SUBSET S)
  OBVIOUS
<1> HIDE DEF Good
<1>3. S \in Good
  BY <1>1, <1>2, SubsetInduction
<1> QED
  BY <1>3 DEF Good

\* A sum of nothing but zeros
LEMMA SumZero ==
  ASSUME NEW f, NEW S, IsFiniteSet(S), \A x \in S : f[x] = 0
  PROVE  SumFunctionOnSet(f, S) = 0
<1> DEFINE Good == {T \in SUBSET S : SumFunctionOnSet(f, T) = 0}
<1>1. ASSUME NEW T \in SUBSET S, \A U \in SUBSET T : U # T => U \in Good
      PROVE  T \in Good
  <2>1. IsFiniteSet(T)
    BY FS_Subset
  <2>2. CASE T = {}
    <3>1. SumFunctionOnSet(f, T) = 0
      BY <2>1, <2>2, SumStep
    <3> QED
      BY <3>1
  <2>3. CASE T # {}
    <3>1. /\ Some(T) \in T
          /\ SumFunctionOnSet(f, T) = f[Some(T)] + SumFunctionOnSet(f, T \ {Some(T)})
      BY <2>1, <2>3, SumStep
    <3>2. T \ {Some(T)} \in Good
      BY <1>1, <3>1
    <3> QED
      BY <3>1, <3>2
  <2> QED
    BY <2>2, <2>3
<1>2. Good \in SUBSET (SUBSET S)
  OBVIOUS
<1> HIDE DEF Good
<1>3. S \in Good
  BY <1>1, <1>2, SubsetInduction
<1> QED
  BY <1>3 DEF Good

\* GROUP BY: the sum over the groups of their sums is the sum of all.
LEMMA SumGroups ==
  ASSUME NEW f, NEW S, IsFiniteSet(S), \A x \in S : f[x] \in Int,
         NEW M, IsFiniteSet(M), NEW key, \A x \in S : key[x] \in M
  PROVE  SumFunctionOnSet([m \in M |-> SumFunctionOnSet(f, {x \in S : key[x] = m})], M)
           = SumFunctionOnSet(f, S)
<1> DEFINE Sum(T) == SumFunctionOnSet(f, T)
           In(T, m) == {x \in T : key[x] = m}
           by(T) == [m \in M |-> Sum(In(T, m))]
           Good == {T \in SUBSET S : SumFunctionOnSet(by(T), M) = Sum(T)}
<1>0. \A T \in SUBSET S : IsFiniteSet(T) /\ Sum(T) \in Int
  BY FS_Subset, SumType
<1>1. ASSUME NEW T \in SUBSET S, \A U \in SUBSET T : U # T => U \in Good
      PROVE  T \in Good
  <2>1. CASE T = {}
    <3>1. \A m \in M : by(T)[m] = Sum(T)
      <4>1. \A m \in M : In(T, m) = T
        BY <2>1
      <4> QED
        BY <4>1
    <3>2. Sum(T) = 0
      BY <1>0, <2>1, SumStep
    <3> HIDE DEF by
    <3>3. SumFunctionOnSet(by(T), M) = 0
      BY <3>1, <3>2, SumZero
    <3> HIDE DEF Sum
    <3> QED
      BY <3>2, <3>3
  <2>2. CASE T # {}
    <3>1. PICK c \in T : TRUE
      BY <2>2
    <3> DEFINE U == T \ {c}
               k == key[c]
    <3>2. k \in M /\ U \in SUBSET S /\ U # T /\ U \in SUBSET T
      BY <3>1
    <3>3. Sum(T) = f[c] + Sum(U)
      BY <1>0, SumRemove
    <3>4. \A m \in M \ {k} : In(U, m) = In(T, m)
      OBVIOUS
    <3>5. In(T, k) \in SUBSET S /\ c \in In(T, k) /\ In(T, k) \ {c} = In(U, k)
      BY <3>1
    <3>6. Sum(In(T, k)) = f[c] + Sum(In(U, k))
      BY <1>0, <3>5, SumRemove
    <3>7. \A m \in M : by(T)[m] \in Int /\ by(U)[m] \in Int
      <4>1. \A m \in M : In(T, m) \in SUBSET S /\ In(U, m) \in SUBSET S
        OBVIOUS
      <4> QED
        BY <1>0, <4>1
    <3>8. \A m \in M \ {k} : by(T)[m] = by(U)[m]
      BY <3>4
    <3>9. by(T)[k] = f[c] + by(U)[k]
      BY <3>2, <3>6
    <3>10. SumFunctionOnSet(by(U), M) = Sum(U)
      BY <1>1, <3>2
    <3> HIDE DEF by, k, U, Sum
    <3>11. IsFiniteSet(M \ {k})
      BY FS_Subset
    <3>12. SumFunctionOnSet(by(T), M \ {k}) = SumFunctionOnSet(by(U), M \ {k})
      BY <3>8, <3>11, SumSame
    <3>13. SumFunctionOnSet(by(T), M) = by(T)[k] + SumFunctionOnSet(by(T), M \ {k})
      BY <3>2, <3>7, SumRemove
    <3>14. SumFunctionOnSet(by(U), M) = by(U)[k] + SumFunctionOnSet(by(U), M \ {k})
      BY <3>2, <3>7, SumRemove
    <3>15. SumFunctionOnSet(by(U), M \ {k}) \in Int
      BY <3>7, <3>11, SumType
    <3>16. f[c] \in Int /\ by(U)[k] \in Int
      BY <3>1, <3>2, <3>7
    <3>17. SumFunctionOnSet(by(T), M) = Sum(T)
      BY <3>3, <3>9, <3>10, <3>12, <3>13, <3>14, <3>15, <3>16
    <3> QED
      BY <3>17
  <2> QED
    BY <2>1, <2>2
<1>2. Good \in SUBSET (SUBSET S)
  OBVIOUS
<1> HIDE DEF Good
<1>3. S \in Good
  BY <1>1, <1>2, SubsetInduction
<1> QED
  BY <1>3 DEF Good

\* A sum does not depend on what its summands are called.
LEMMA SumRenamed ==
  ASSUME NEW f, NEW g, NEW S, IsFiniteSet(S), \A x \in S : g[x] \in Int,
         NEW h, \A x, y \in S : h[x] = h[y] => x = y,
         \A x \in S : f[h[x]] = g[x]
  PROVE  SumFunctionOnSet(f, {h[x] : x \in S}) = SumFunctionOnSet(g, S)
<1> DEFINE Image(T) == {h[x] : x \in T}
           Good == {T \in SUBSET S : /\ IsFiniteSet(Image(T))
                                     /\ SumFunctionOnSet(f, Image(T)) = SumFunctionOnSet(g, T)}
<1>1. ASSUME NEW T \in SUBSET S, \A U \in SUBSET T : U # T => U \in Good
      PROVE  T \in Good
  <2>0. IsFiniteSet(T)
    BY FS_Subset
  <2>1. CASE T = {}
    <3>1. Image(T) = {} /\ IsFiniteSet(Image(T))
      BY <2>1, FS_EmptySet
    <3>2. SumFunctionOnSet(f, Image(T)) = 0
      BY <3>1, SumStep
    <3>3. SumFunctionOnSet(g, T) = 0
      BY <2>0, <2>1, SumStep
    <3> QED
      BY <3>1, <3>2, <3>3
  <2>2. CASE T # {}
    <3>1. PICK c \in T : TRUE
      BY <2>2
    <3> DEFINE U == T \ {c}
    <3>2. U \in SUBSET T /\ U # T
      BY <3>1
    <3>3. IsFiniteSet(Image(U)) /\ SumFunctionOnSet(f, Image(U)) = SumFunctionOnSet(g, U)
      BY <1>1, <3>2
    <3>4. Image(T) = Image(U) \cup {h[c]} /\ Image(T) \ {h[c]} = Image(U) /\ h[c] \in Image(T)
      BY <3>1
    <3>5. \A y \in Image(T) : f[y] \in Int
      OBVIOUS
    <3>6. SumFunctionOnSet(g, T) = g[c] + SumFunctionOnSet(g, U)
      BY <2>0, SumRemove
    <3> HIDE DEF Image, U
    <3>7. IsFiniteSet(Image(T))
      BY <3>3, <3>4, FS_AddElement
    <3>8. SumFunctionOnSet(f, Image(T)) = f[h[c]] + SumFunctionOnSet(f, Image(U))
      BY <3>4, <3>5, <3>7, SumRemove
    <3> QED
      BY <3>1, <3>3, <3>6, <3>7, <3>8
  <2> QED
    BY <2>1, <2>2
<1>2. Good \in SUBSET (SUBSET S)
  OBVIOUS
<1> HIDE DEF Good
<1>3. S \in Good
  BY <1>1, <1>2, SubsetInduction
<1> QED
  BY <1>3 DEF Good

\* What is off by at most d either way for each is off by that often in the sum.
LEMMA SumClose ==
  ASSUME NEW f, NEW g, NEW S, IsFiniteSet(S), NEW a \in Int, NEW b \in Int, NEW d \in Int,
         \A x \in S : /\ f[x] \in Int /\ g[x] \in Int
                     /\ a * f[x] - b * g[x] <= d /\ b * g[x] - a * f[x] <= d
  PROVE  /\ a * SumFunctionOnSet(f, S) - b * SumFunctionOnSet(g, S) <= d * Cardinality(S)
         /\ b * SumFunctionOnSet(g, S) - a * SumFunctionOnSet(f, S) <= d * Cardinality(S)
<1>1. a * SumFunctionOnSet(f, S) - b * SumFunctionOnSet(g, S) <= d * Cardinality(S)
  BY SumNear
<1>2. b * SumFunctionOnSet(g, S) - a * SumFunctionOnSet(f, S) <= d * Cardinality(S)
  BY SumNear
<1> QED
  BY <1>1, <1>2

\* SumFunction adds up all that a function gives.
LEMMA SumOf == \A f : SumFunction(f) = SumFunctionOnSet(f, DOMAIN f)
  BY DEF SumFunction

\* What a function gives for a finite set is finite, and as many if it is injective.
LEMMA ImageCounts ==
  ASSUME NEW S, IsFiniteSet(S), NEW h
  PROVE  /\ IsFiniteSet({h[x] : x \in S})
         /\ (\A x, y \in S : h[x] = h[y] => x = y) =>
               Cardinality({h[x] : x \in S}) = Cardinality(S)
<1> DEFINE T == {h[x] : x \in S}
           f == [x \in S |-> h[x]]
<1>1. f \in Surjection(S, T)
  BY DEF Surjection
<1>2. (\A x, y \in S : h[x] = h[y] => x = y) => f \in Injection(S, T)
  BY DEF Injection, IsInjective
<1> HIDE DEF f
<1> QED
  BY <1>1, <1>2, FS_Surjection

\* The groups of a table count all.
LEMMA CountGroups ==
  ASSUME NEW S, IsFiniteSet(S), NEW M, IsFiniteSet(M), NEW key, \A x \in S : key[x] \in M,
         NEW by, DOMAIN by = M, \A m \in M : by[m] = Cardinality({x \in S : key[x] = m})
  PROVE  SumFunction(by) = Cardinality(S)
<1> DEFINE one == [x \in S |-> 1]
           G(m) == {x \in S : key[x] = m}
           groups == [m \in M |-> SumFunctionOnSet(one, G(m))]
<1>1. \A m : IsFiniteSet(G(m)) /\ \A x \in G(m) : one[x] = 1
  BY FS_Subset
<1>2. \A x \in S : one[x] \in Int /\ one[x] = 1
  OBVIOUS
<1> HIDE DEF one
<1>3. \A m \in M : by[m] = groups[m]
  <2>2. ASSUME NEW m \in M
        PROVE  by[m] = groups[m]
    <3> DEFINE T == G(m)
    <3>1. IsFiniteSet(T) /\ (\A x \in T : one[x] = 1) /\ by[m] = Cardinality(T)
      BY <1>1
    <3> HIDE DEF T
    <3>2. SumFunctionOnSet(one, T) = Cardinality(T)
      BY <3>1, CountIsSum
    <3> QED
      BY <3>1, <3>2 DEF T
  <2> QED
    BY <2>2
<1>4. SumFunctionOnSet(by, M) = SumFunctionOnSet(groups, M)
  <2> HIDE DEF groups
  <2> QED
    BY <1>3, SumSame
<1>5. SumFunctionOnSet(groups, M) = SumFunctionOnSet(one, S)
  BY <1>2, SumGroups
<1>6. SumFunctionOnSet(one, S) = Cardinality(S)
  BY <1>2, CountIsSum
<1> QED
  BY <1>4, <1>5, <1>6, SumOf

\* ... and add up to the sum of all.
LEMMA TableSums ==
  ASSUME NEW S, IsFiniteSet(S), NEW f, \A x \in S : f[x] \in Int,
         NEW M, IsFiniteSet(M), NEW key, \A x \in S : key[x] \in M,
         NEW by, DOMAIN by = M,
         \A m \in M : by[m] = SumFunctionOnSet(f, {x \in S : key[x] = m})
  PROVE  SumFunction(by) = SumFunctionOnSet(f, S)
<1> DEFINE groups == [m \in M |-> SumFunctionOnSet(f, {x \in S : key[x] = m})]
<1>1. \A m \in M : by[m] = groups[m]
  OBVIOUS
<1>2. SumFunctionOnSet(groups, M) = SumFunctionOnSet(f, S)
  BY SumGroups
<1> HIDE DEF groups
<1>3. SumFunctionOnSet(by, M) = SumFunctionOnSet(groups, M)
  BY <1>1, SumSame
<1> QED
  BY <1>2, <1>3, SumOf

----------------------------------------------------------------------------
(* The context budget: ContextBudget counts and sums the messages of a       *)
(* conversation.                                                             *)

\* A finite set of natural numbers has a greatest member.
LEMMA NatHasGreatest ==
  ASSUME NEW n \in Nat, NEW S \in SUBSET (1..n), S # {}
  PROVE  \E t \in S : \A u \in S : u <= t
<1>0. \A u \in S : u \in Nat
  OBVIOUS
<1> DEFINE above == {n - u : u \in S}
<1>1. above \in SUBSET Nat /\ above # {}
  <2>1. \A u \in S : n - u \in Nat
    OBVIOUS
  <2>2. above \in SUBSET Nat
    BY <2>1
  <2>3. PICK u \in S : TRUE
    OBVIOUS
  <2>4. n - u \in above
    BY <2>3
  <2> QED
    BY <2>2, <2>4
<1>2. PICK a \in above : \A b \in above : a <= b
  BY <1>1, NatHasLeast
<1>3. PICK t \in S : a = n - t
  BY <1>2
<1>5. ASSUME NEW u \in S
      PROVE  n - t <= n - u
  <2>1. n - u \in above
    OBVIOUS
  <2> QED
    BY <1>2, <1>3, <2>1
<1> QED
  BY <1>0, <1>3, <1>5

\* A conversation has a last message of the user.
LEMMA Conversation ==
  ASSUME prompt \in Prompts
  PROVE  /\ \E n \in 1..MaxMessages : prompt \in [1..n -> ChatMessages]
         /\ LastUser \in DOMAIN prompt
         /\ prompt[LastUser].role = "user"
<1>1. PICK n \in 1..MaxMessages : prompt \in [1..n -> ChatMessages]
  BY DEF Prompts
<1> DEFINE asked == {i \in DOMAIN prompt : prompt[i].role = "user"}
<1>2. asked # {} /\ asked \in SUBSET (1..n) /\ n \in Nat
  BY <1>1 DEF Prompts
<1>3. PICK t \in asked : \A u \in asked : u <= t
  BY <1>2, NatHasGreatest
<1>4. t \in asked /\ \A u \in asked : t >= u
  BY <1>2, <1>3
<1>5. LastUser \in asked
  BY <1>4 DEF LastUser, Max
<1> QED
  BY <1>1, <1>5

\* The messages that are dropped before message i is, and how many they are.
Earlier(i) == {j \in Droppable : j < i}
Place(i) == Cardinality(Earlier(i))

\* What the rounds of fit() go through: the conversation without its oldest
\* droppable messages.
LEMMA WithoutIs ==
  \A n : Without(n) = {i \in DOMAIN prompt : i \in Droppable => Place(i) >= n}
  BY DEF Without, Place, Earlier

\* Places are 0, 1, 2, ... in the order of the messages.
LEMMA Places ==
  ASSUME prompt \in Prompts
  PROVE  /\ Droppable \subseteq DOMAIN prompt /\ DOMAIN prompt \subseteq Nat
         /\ IsFiniteSet(DOMAIN prompt) /\ IsFiniteSet(Droppable)
         /\ \A i : Place(i) \in Nat
         /\ \A i, k \in Droppable : i < k => Place(i) < Place(k)
         /\ \A k \in Droppable : Place(k) > 0 =>
              \E i \in Droppable : i < k /\ Place(k) = Place(i) + 1
<1> DEFINE D == Droppable
<1>1. PICK n \in 1..MaxMessages : prompt \in [1..n -> ChatMessages]
  BY Conversation
<1>2. D \subseteq DOMAIN prompt /\ DOMAIN prompt = 1..n /\ n \in Nat
  BY <1>1 DEF Droppable
<1>3. IsFiniteSet(DOMAIN prompt) /\ IsFiniteSet(D)
  BY <1>2, FS_Interval, FS_Subset
<1>4. \A i : Earlier(i) \in SUBSET D
  BY DEF Earlier
<1>5. \A i : IsFiniteSet(Earlier(i)) /\ Place(i) \in Nat
  BY <1>3, <1>4, FS_Subset, FS_CardinalityType DEF Place
<1>6. ASSUME NEW i \in D, NEW k \in D, i < k
      PROVE  Place(i) < Place(k)
  <2>1. i \in Earlier(k) /\ Earlier(i) \in SUBSET (Earlier(k) \ {i})
    BY <1>2, <1>6 DEF Earlier
  <2>2. /\ IsFiniteSet(Earlier(k) \ {i})
        /\ Cardinality(Earlier(k) \ {i}) = Cardinality(Earlier(k)) - 1
    BY <1>5, <2>1, FS_RemoveElement
  <2>3. Cardinality(Earlier(i)) <= Cardinality(Earlier(k) \ {i})
    BY <2>1, <2>2, FS_Subset
  <2>4. Cardinality(Earlier(i)) \in Nat /\ Cardinality(Earlier(k)) \in Nat
    BY <1>5 DEF Place
  <2> QED
    BY <2>2, <2>3, <2>4 DEF Place
<1>7. ASSUME NEW k \in D, Place(k) > 0
      PROVE  \E i \in D : i < k /\ Place(k) = Place(i) + 1
  <2>1. Earlier(k) # {} /\ Earlier(k) \in SUBSET (1..n)
    <3>1. Cardinality(Earlier(k)) # 0
      BY <1>7 DEF Place
    <3> QED
      BY <1>2, <1>4, <3>1, FS_EmptySet
  <2>2. PICK i \in Earlier(k) : \A j \in Earlier(k) : j <= i
    BY <1>2, <2>1, NatHasGreatest
  <2>3. i \in D /\ i < k
    BY <2>2 DEF Earlier
  <2>4. Earlier(i) = Earlier(k) \ {i}
    BY <1>2, <2>2, <2>3 DEF Earlier
  <2>5. Cardinality(Earlier(i)) = Cardinality(Earlier(k)) - 1 /\ Cardinality(Earlier(k)) \in Nat
    BY <1>5, <2>2, <2>4, FS_RemoveElement DEF Place
  <2> QED
    BY <2>3, <2>5 DEF Place
<1> QED
  BY <1>2, <1>3, <1>5, <1>6, <1>7

\* Dropping the oldest that is left of Without(n) gives Without(n + 1).
LEMMA DropNext ==
  ASSUME prompt \in Prompts, NEW n \in Nat, kept = Without(n),
         Droppable \cap kept # {}
  PROVE  /\ Oldest(Droppable \cap kept) \in Droppable \cap kept
         /\ kept \ {Oldest(Droppable \cap kept)} = Without(n + 1)
         /\ n < Cardinality(Droppable)
<1> DEFINE D == Droppable
           left == D \cap kept
           m == Oldest(left)
<1>1. left \in SUBSET Nat /\ left # {}
  BY Places
<1>2. PICK t \in left : \A u \in left : t <= u
  BY <1>1, NatHasLeast
<1>3. m \in left /\ \A u \in left : m <= u
  <2> HIDE DEF left
  <2> QED
    BY <1>2 DEF Oldest, Min
<1> HIDE DEF m
<1>4. left = {i \in D : Place(i) >= n}
  BY Places, WithoutIs
<1>5. Place(m) = n
  <2>1. CASE Place(m) > n
    <3>1. PICK i \in D : i < m /\ Place(m) = Place(i) + 1
      BY <1>3, <2>1, Places
    <3>2. Place(i) >= n
      BY <2>1, <3>1, Places
    <3>3. m <= i
      BY <1>3, <1>4, <3>1, <3>2
    <3> QED
      BY <1>1, <1>3, <3>1, <3>3, Places
  <2> QED
    BY <1>3, <1>4, <2>1, Places
<1>6. \A i \in D : i \in left \ {m} <=> Place(i) >= n + 1
  <2> SUFFICES ASSUME NEW i \in D
               PROVE  i \in left \ {m} <=> Place(i) >= n + 1
    OBVIOUS
  <2>1. ASSUME i \in left, i # m
        PROVE  Place(i) >= n + 1
    <3>1. m < i
      BY <1>1, <1>3, <2>1
    <3>2. Place(m) < Place(i)
      BY <1>3, <3>1, Places
    <3> QED
      BY <1>5, <3>2, Places
  <2>2. ASSUME Place(i) >= n + 1
        PROVE  i \in left /\ i # m
    BY <1>4, <1>5, <2>2, Places
  <2> QED
    BY <2>1, <2>2
<1>7. kept \ {m} = Without(n + 1)
  BY <1>3, <1>6, WithoutIs
<1>8. n < Cardinality(D)
  <2> DEFINE B == Earlier(m)
  <2>1. IsFiniteSet(D) /\ m \in D /\ B \in SUBSET (D \ {m})
    BY <1>1, <1>3, Places DEF Earlier
  <2>2. /\ IsFiniteSet(D \ {m}) /\ Cardinality(D \ {m}) = Cardinality(D) - 1
        /\ Cardinality(B) <= Cardinality(D \ {m})
    BY <2>1, FS_RemoveElement, FS_Subset
  <2>3. Cardinality(B) = n /\ Cardinality(D) \in Nat
    BY <1>5, <2>1, FS_CardinalityType DEF Place
  <2> QED
    BY <2>2, <2>3
<1> QED
  BY <1>3, <1>7, <1>8 DEF m

\* The loop of fit(): it has dropped the oldest messages, as many as dropped
\* says, and with fewer the conversation did not fit.
FitInv ==
    /\ FitTypeOK
    /\ kept = Without(dropped)
    /\ dropped = Cardinality(DOMAIN prompt \ kept)
    /\ dropped <= Cardinality(Droppable)
    /\ strategy = "reject" => dropped = 0
    /\ \A n \in Nat : n < dropped => ~Fits(Without(n))
    /\ outcome = "fits" => Fits(kept)
    /\ outcome = "overflow" =>
         ~Fits(kept) /\ (strategy = "reject" \/ Droppable \cap kept = {})

\* The loop starts with all messages.
LEMMA FitBegins ==
  ASSUME BoundsAssumption, FitInit
  PROVE  FitInv
<1>1. prompt \in Prompts /\ kept = DOMAIN prompt /\ dropped = 0
  BY DEF FitInit
<1>2. kept = Without(0)
  BY <1>1, WithoutIs, Places
<1>3. Cardinality(DOMAIN prompt \ kept) = 0
  BY <1>1, FS_EmptySet
<1>4. Cardinality(Droppable) \in Nat
  BY <1>1, Places, FS_CardinalityType
<1>5. FitTypeOK /\ outcome = "fitting"
  BY <1>1 DEF FitInit, FitTypeOK, BoundsAssumption
<1> QED
  BY <1>1, <1>2, <1>3, <1>4, <1>5 DEF FitInv

\* ... and each round drops the oldest that is left, or is the last.
LEMMA FitStep ==
  ASSUME BoundsAssumption, FitInv, [FitNext]_(fitVars)
  PROVE  FitInv'
<1>0. /\ prompt \in Prompts /\ dropped \in Nat /\ kept \subseteq DOMAIN prompt
      /\ UNCHANGED <<prompt, limit, maxTokens, strategy>>
  BY DEF FitInv, FitTypeOK, FitNext, Accept, DropOldest,
         Overflow, request, fitVars
<1>1. /\ \A S : Fits(S)' <=> Fits(S)
      /\ \A n : Without(n)' = Without(n)
      /\ Droppable' = Droppable
  BY <1>0
  DEF Fits, Estimate, Without, Droppable, LastUser
<1>2. CASE UNCHANGED <<kept, dropped>>
  <2>1. \/ outcome' = outcome
        \/ outcome' = "fits" /\ Fits(kept)
        \/ /\ outcome' = "overflow" /\ ~Fits(kept)
           /\ strategy = "reject" \/ Droppable \cap kept = {}
    BY <1>2 DEF FitNext, Accept, DropOldest, Overflow, fitVars
  <2>2. FitTypeOK'
    BY <1>0, <1>2, <2>1 DEF FitInv, FitTypeOK, Prompts
  <2> QED
    BY <1>0, <1>1, <1>2, <2>1, <2>2 DEF FitInv
<1>3. CASE DropOldest
  <2> DEFINE m == Oldest(Droppable \cap kept)
  <2>1. /\ strategy = "truncate_oldest" /\ ~Fits(kept)
        /\ Droppable \cap kept # {}
        /\ kept' = kept \ {m} /\ dropped' = dropped + 1 /\ outcome' = "fitting"
    BY <1>3 DEF DropOldest
  <2>2. /\ m \in kept /\ kept \ {m} = Without(dropped + 1)
        /\ dropped < Cardinality(Droppable)
    BY <1>0, <2>1, DropNext DEF FitInv
  <2> HIDE DEF m
  <2>3. dropped' = Cardinality(DOMAIN prompt \ kept')
    <3>1. /\ DOMAIN prompt \ kept' = (DOMAIN prompt \ kept) \cup {m}
          /\ m \notin DOMAIN prompt \ kept
      BY <1>0, <2>1, <2>2
    <3>2. IsFiniteSet(DOMAIN prompt \ kept)
      BY <1>0, Places, FS_Subset
    <3>3. Cardinality((DOMAIN prompt \ kept) \cup {m}) = Cardinality(DOMAIN prompt \ kept) + 1
      BY <3>1, <3>2, FS_AddElement
    <3> QED
      BY <2>1, <3>1, <3>3 DEF FitInv
  <2>4. dropped' \in 0 .. MaxMessages
    <3>1. PICK n \in 1..MaxMessages : prompt \in [1..n -> ChatMessages]
      BY <1>0, Conversation
    <3>2. IsFiniteSet(1..n) /\ Cardinality(1..n) = n /\ DOMAIN prompt = 1..n
      BY <3>1, FS_Interval
    <3>3. Cardinality(DOMAIN prompt \ kept') <= Cardinality(DOMAIN prompt)
      BY <3>2, FS_Subset
    <3> QED
      BY <1>0, <2>1, <2>3, <3>1, <3>2, <3>3 DEF BoundsAssumption
  <2>5. FitTypeOK'
    <3>1. kept' \subseteq DOMAIN prompt
      BY <1>0, <2>1
    <3> QED
      BY <1>0, <2>1, <2>4, <3>1 DEF FitInv, FitTypeOK, Prompts
  <2>6. ASSUME NEW n \in Nat, n < dropped'
        PROVE  ~Fits(Without(n))
    <3>1. n < dropped \/ n = dropped
      BY <1>0, <2>1, <2>6
    <3>2. CASE n = dropped
      <4>1. Without(n) = kept
        BY <3>2 DEF FitInv
      <4> QED
        BY <2>1, <4>1
    <3> QED
      BY <3>1, <3>2 DEF FitInv
  <2>7. dropped' <= Cardinality(Droppable)
    BY <1>0, <2>1, <2>2, Places, FS_CardinalityType
  <2> QED
    BY <1>0, <1>1, <2>1, <2>2, <2>3, <2>5, <2>6, <2>7 DEF FitInv
<1> QED
  BY <1>2, <1>3 DEF FitNext, Accept, Overflow, fitVars

\* So it holds in every round.
LEMMA FitInvariant ==
  ASSUME BoundsAssumption
  PROVE  FitSpec => []FitInv
  BY FitBegins, FitStep, PTL DEF FitSpec

\* Every variable of the loop keeps its type.
THEOREM FitTypeCorrect ==
  ASSUME BoundsAssumption
  PROVE  FitSpec => []FitTypeOK
<1>1. FitInv => FitTypeOK
  BY DEF FitInv
<1> QED
  BY <1>1, FitInvariant, PTL

\* Instructions and question are never dropped, and what was is counted.
THEOREM EssentialsCorrect ==
  ASSUME BoundsAssumption
  PROVE  FitSpec => []EssentialsAreKept
<1>1. FitInv => EssentialsAreKept
  <2> SUFFICES ASSUME FitInv
               PROVE  EssentialsAreKept
    OBVIOUS
  <2>1. LastUser \in DOMAIN prompt
    BY Conversation DEF FitInv, FitTypeOK
  <2>2. Essentials \subseteq DOMAIN prompt \ Droppable
    BY <2>1 DEF Essentials, Droppable
  <2>3. Essentials \subseteq kept
    BY <2>2, WithoutIs DEF FitInv
  <2> QED
    BY <2>3 DEF FitInv, EssentialsAreKept
<1> QED
  BY <1>1, FitInvariant, PTL

\* No fewer messages could have been dropped, and a refused conversation fits
\* with no number of them, whatever the messages and the window.
THEOREM LeastCorrect ==
  ASSUME BoundsAssumption
  PROVE  FitSpec => []DropsTheLeast
<1>1. FitInv => DropsTheLeast
  <2> SUFFICES ASSUME FitInv
               PROVE  DropsTheLeast
    OBVIOUS
  <2> DEFINE enough == {n \in 0 .. Cardinality(Droppable) :
                          Fits(Without(n))}
  <2>1. prompt \in Prompts /\ dropped \in Nat
    BY DEF FitInv, FitTypeOK
  <2>2. Cardinality(Droppable) \in Nat
    BY <2>1, Places, FS_CardinalityType
  <2>3. ASSUME outcome = "fits", strategy # "reject"
        PROVE  kept = Without(Min(enough))
    <3>1. dropped \in enough
      BY <2>1, <2>2, <2>3 DEF FitInv
    <3>2. \A n \in enough : dropped <= n
      BY <2>1, <2>2 DEF FitInv
    <3>3. \A n \in enough : n \in Nat
      BY <2>2
    <3> HIDE DEF enough
    <3>4. Min(enough) = dropped
      BY <3>1, <3>2, <3>3 DEF Min
    <3> QED
      BY <3>4 DEF FitInv
  <2>4. ASSUME outcome = "overflow", strategy # "reject", NEW n \in enough
        PROVE  FALSE
    <3>1. /\ ~Fits(kept) /\ Droppable \cap kept = {}
          /\ kept = Without(dropped)
      BY <2>4 DEF FitInv
    <3>2. n >= dropped /\ n \in Nat
      BY <2>1, <2>2 DEF FitInv
    <3>3. \A i \in Droppable : Place(i) < dropped
      BY <2>1, <3>1, WithoutIs, Places
    <3>4. \A i \in Droppable : ~(Place(i) >= n)
      BY <2>1, <3>2, <3>3, Places
    <3>5. Without(n) = kept
      BY <2>1, <3>1, <3>3, <3>4, WithoutIs, Places
    <3> QED
      BY <3>1, <3>5
  <2>5. (outcome = "fits" /\ strategy = "reject" => kept = Without(0))
        /\ (outcome = "overflow" /\ strategy = "reject" => ~Fits(Without(0)))
    BY DEF FitInv
  <2> QED
    BY <2>3, <2>4, <2>5 DEF DropsTheLeast
<1> QED
  BY <1>1, FitInvariant, PTL

----------------------------------------------------------------------------
(* What follows is about Records                                           *)

USE WorksAssumption, ReadsAssumption, NamesAssumption

----------------------------------------------------------------------------
(* Rounding                                                                *)

\* Quotient and remainder.
LEMMA DivMod ==
  ASSUME NEW n \in Nat, NEW d \in Nat \ {0}
  PROVE  n \div d \in Nat /\ n % d \in 0..(d - 1) /\ n = d * (n \div d) + (n % d)
  BY SMT

\* Decimal.quantize is off by at most half a unit, in either direction.
THEOREM HalfEvenIsNearest ==
  ASSUME NEW n \in Nat, NEW d \in Nat \ {0}
  PROVE  /\ RoundHalfEven(n, d) \in Nat
         /\ 2 * (d * RoundHalfEven(n, d) - n) <= d
         /\ 2 * (n - d * RoundHalfEven(n, d)) <= d
<1> DEFINE q == n \div d
           r == n % d
           p == d * q
<1>1. q \in Nat /\ r \in 0..(d - 1) /\ n = p + r
  BY DivMod
<1>2. p \in Int /\ d * (q + 1) = p + d
  BY <1>1
<1> HIDE DEF p
<1>3. CASE RoundHalfEven(n, d) = q /\ 2 * r <= d
  <2>1. d * RoundHalfEven(n, d) = p
    BY <1>3 DEF p
  <2> QED
    BY <1>1, <1>2, <1>3, <2>1
<1>4. CASE RoundHalfEven(n, d) = q + 1 /\ 2 * r >= d
  BY <1>1, <1>2, <1>4
<1> QED
  BY <1>1, <1>3, <1>4 DEF RoundHalfEven

\* A price in the ledger is off by at most half of its last digit.
THEOREM StoredCostIsNearest ==
  ASSUME NEW exact \in Nat
  PROVE  LET stored == RoundHalfUp(exact, 10) IN
           stored \in Nat /\ 10 * stored - exact <= 5 /\ exact - 10 * stored <= 5
  BY SMT DEF RoundHalfUp

\* The projection of a report is 30 times its total over its days, to 15 units.
THEOREM ProjectionIsNear ==
  ASSUME NEW total \in Nat, NEW days \in Nat \ {0}
  PROVE  /\ days * Projected(total, days) - DaysPerMonth * total <= 15 * days
         /\ DaysPerMonth * total - days * Projected(total, days) <= 15 * days
<1> DEFINE R == RoundHalfEven(total, days)
           x == days * R
<1>1. /\ R \in Nat /\ 2 * (x - total) <= days /\ 2 * (total - x) <= days
  BY HalfEvenIsNearest
<1>2. x \in Int /\ days * (R * 30) = 30 * x
  BY <1>1
<1> HIDE DEF x, R
<1>3. /\ 30 * x - 30 * total <= 15 * days
      /\ 30 * total - 30 * x <= 15 * days
  BY <1>1, <1>2
<1>4. days * Projected(total, days) = 30 * x
  BY <1>2 DEF Projected, DailyAverage, DaysPerMonth, R
<1> QED
  BY <1>3, <1>4 DEF DaysPerMonth

----------------------------------------------------------------------------
(* Types                                                                   *)

\* A price is a number, if the model has one.
LEMMA CostType ==
  ASSUME TypeOK, NEW w \in Works
  PROVE  Cost(w) \in Nat \cup {None} /\ Exact(w) \in Nat \cup {None}
<1> DEFINE price == Tariffs[tariff][w.model]
<1>1. price \in Prices \cup {None}
  BY TariffsAssumption DEF TypeOK
<1>2. CASE price \in Prices
  <2>1. w.input * price.input \in Nat /\ w.output * price.output \in Nat
    BY <1>2 DEF Prices
  <2>2. ExactCost(price, w.input, w.output) \in Nat
    BY <2>1 DEF ExactCost
  <2>3. StoredCost(price, w.input, w.output) \in Nat
    BY <2>2, StoredCostIsNearest DEF StoredCost
  <2> QED
    BY <2>2, <2>3 DEF Cost, Exact
<1> QED
  BY <1>1, <1>2 DEF Cost, Exact

\* The charge for a request is a row of the ledger.
LEMMA ChargeType ==
  ASSUME TypeOK, NEW w \in Works
  PROVE  Charge(w) \in Charges
  BY CostType, TariffsAssumption DEF Charge, Charges, TypeOK

\* Rows that are published are rows.
LEMMA PublishType ==
  ASSUME TypeOK, NEW w \in Works, Publish(w), stage[w] = "answered"
  PROVE  /\ owner' \in [Conversations -> Clients \cup {None, Nobody, Deleted}]
         /\ messages' \subseteq Messages /\ usage' \subseteq Charges
         /\ spent' \subseteq [work : Works, exact : Nat \cup {None}, at : Nat]
<1>1. draft[w] \in Drafts
  BY DEF TypeOK
<1>2. draft[w].rows \subseteq Messages /\ draft[w].charges \subseteq Charges
  BY <1>1 DEF Drafts
<1>3. \A u \in draft[w].charges : u.work \in Works /\ u.at \in Nat
  BY <1>2 DEF Charges
<1>4. owner' \in [Conversations -> Clients \cup {None, Nobody, Deleted}]
  BY DEF Publish, TypeOK
<1> QED
  BY <1>2, <1>3, <1>4, CostType DEF Publish, TypeOK

\* A transaction that has not begun, or is over, holds nothing.
LEMMA NoDraftType == NoDraft \in Drafts
  BY DEF NoDraft, Drafts

\* What is left of a draft after its end keeps the conversation only.
LEMMA ToldType ==
  ASSUME TypeOK, NEW w \in Works
  PROVE  Told(w) \in Drafts /\ Told(w).conv = draft[w].conv
  BY DEF TypeOK, Told, Drafts, NoDraft

\* Every step keeps the types.
LEMMA TypeStep ==
  ASSUME TypeOK, [Next]_vars
  PROVE  TypeOK'
<1> USE NoDraftType DEF Open, rows, writers, readers
<1>1. ASSUME NEW w \in Works, Question(w)
      PROVE  TypeOK'
  <2>1. PICK c \in Conversations :
           draft' = [draft EXCEPT ![w] = [NoDraft EXCEPT !.conv = c,
                                              !.rows = {Row(w, c, "user", seq + 1)}]]
    BY <1>1 DEF Question
  <2>2. Row(w, c, "user", seq + 1) \in Messages
    BY DEF Row, Messages, TypeOK
  <2> DEFINE D == [NoDraft EXCEPT !.conv = c, !.rows = {Row(w, c, "user", seq + 1)}]
  <2>3. D \in Drafts /\ D.conv = c
    BY <2>2 DEF NoDraft, Drafts
  <2> HIDE DEF D
  <2>4. draft' = [draft EXCEPT ![w] = D]
    BY <2>1 DEF D
  <2> QED
    BY <1>1, <2>3, <2>4 DEF Question, TypeOK, Acknowledged
<1>2. ASSUME NEW w \in Works, Answer(w)
      PROVE  TypeOK'
  <2> DEFINE row == Row(w, draft[w].conv, "assistant", seq + 1)
             charges == IF w.kind = "cached" THEN {} ELSE {Charge(w)}
             D == [draft[w] EXCEPT !.rows = @ \cup {row}, !.charges = charges]
  <2>1. draft[w] \in Drafts /\ draft[w].conv \in Conversations
    BY <1>2 DEF TypeOK, Answer
  <2>2. row \in Messages
    BY <2>1 DEF Row, Messages, TypeOK
  <2>3. charges \subseteq Charges
    BY ChargeType
  <2>4. draft' = [draft EXCEPT ![w] = D]
    BY <1>2 DEF Answer, TypeOK
  <2> HIDE DEF row, charges
  <2>5. D \in Drafts /\ D.conv \in Conversations
    BY <2>1, <2>2, <2>3 DEF Drafts
  <2> HIDE DEF D
  <2>6. /\ stage[w] = "asked" /\ stage' = [stage EXCEPT ![w] = "answered"]
        /\ seq' = seq + 1
        /\ UNCHANGED <<rows, earlier, tariff, today, readers>>
    BY <1>2 DEF Answer
  <2>7. draft' \in [Works -> Drafts]
    BY <2>4, <2>5 DEF TypeOK
  <2>8. ASSUME NEW x \in Works, stage'[x] \in Open
        PROVE  draft'[x].conv \in Conversations
    BY <2>4, <2>5, <2>6, <2>8 DEF TypeOK
  <2>9. \A x \in Works : stage'[x] \in Open => draft'[x].conv \in Conversations
    BY <2>8
  <2>10. stage' \in [Works -> {"new", "stored", "lost"} \cup Open] /\ seq' \in Nat
    BY <2>6 DEF TypeOK
  <2> HIDE DEF Open
  <2> QED
    BY <2>6, <2>7, <2>9, <2>10 DEF TypeOK
<1>3. ASSUME NEW w \in Works, Account(w)
      PROVE  TypeOK'
  <2>1. Charge(w) \in Charges
    BY ChargeType
  <2>2. [work |-> w, exact |-> Exact(w), at |-> today]
          \in [work : Works, exact : Nat \cup {None}, at : Nat]
    BY CostType, TariffsAssumption DEF TypeOK
  <2> QED
    BY <1>3, <2>1, <2>2 DEF Account, TypeOK
<1>4. ASSUME NEW w \in Works, Commit(w)
      PROVE  TypeOK'
  <2>1. stage[w] = "answered" /\ Publish(w)
    BY <1>4 DEF Commit
  <2> QED
    BY <1>4, <2>1, PublishType, ToldType DEF Commit, TypeOK
<1>5. ASSUME NEW w \in Works, Abandon(w)
      PROVE  TypeOK'
  <2>1. /\ owner' \in [Conversations -> Clients \cup {None, Nobody, Deleted}]
        /\ messages' \subseteq Messages /\ usage' \subseteq Charges
        /\ spent' \subseteq [work : Works, exact : Nat \cup {None}, at : Nat]
    BY <1>5, PublishType DEF Abandon, TypeOK
  <2> QED
    BY <1>5, <2>1 DEF Abandon, TypeOK
<1>6. ASSUME NEW o \in Clients, Create(o)
      PROVE  TypeOK'
  BY <1>6 DEF Create, TypeOK
<1>7. ASSUME NEW c \in Conversations, Delete(c)
      PROVE  TypeOK'
  BY <1>7 DEF Delete, TypeOK
<1>8. ASSUME NEW r \in Reads, Check(r)
      PROVE  TypeOK'
  BY <1>8 DEF Check, TypeOK, Acknowledged
<1>9. ASSUME NEW r \in Reads, List(r)
      PROVE  TypeOK'
  BY <1>9 DEF List, TypeOK
<1>10. ASSUME Restart
       PROVE  TypeOK'
  <2>1. tariff' \in DOMAIN Tariffs
    BY <1>10, TariffsAssumption DEF Restart, TypeOK
  <2> QED
    BY <1>10, <2>1 DEF Restart, TypeOK
<1>11. ASSUME DaysPass
       PROVE  TypeOK'
  BY <1>11 DEF DaysPass, TypeOK
<1>12. ASSUME UNCHANGED vars
       PROVE  TypeOK'
  BY <1>12 DEF vars, TypeOK
<1> QED
  BY <1>1, <1>2, <1>3, <1>4, <1>5, <1>6, <1>7, <1>8, <1>9, <1>10, <1>11, <1>12 DEF Next

\* Type correctness of the records.
THEOREM TypeCorrect == Spec => []TypeOK
<1>1. Init => TypeOK
  BY TariffsAssumption DEF Init, TypeOK, NoDraft, Drafts, Open
<1> QED
  BY <1>1, TypeStep, PTL DEF Spec

----------------------------------------------------------------------------
(* Conversations and their owners                                          *)

\* The rows of an open transaction are its own, and its conversation belongs to
\* its client or is not there for anybody else yet.
OwnDraft(w) ==
    LET c == draft[w].conv IN
      /\ IsChat(w)
      /\ \A m \in draft[w].rows : m.work = w /\ m.conv = c
      /\ IF w.conv = None THEN owner[c] = None /\ \A x \in Works \ {w} : draft[x].conv # c
                          ELSE c = w.conv /\ owner[c] = w.owner

\* A message is of the owner of its conversation, who alone may read it.
Ownership ==
    /\ \A m \in messages : owner[m.conv] = m.work.owner
    /\ \A w \in Works : stage[w] \in Open => OwnDraft(w)
    /\ \A r \in reading : ~r.admin => owner[r.conv] \in {r.client, Deleted}

\* ... and every row that is published keeps to it.
LEMMA OwnershipPublished ==
  ASSUME TypeOK, Ownership, NEW w \in Works, stage[w] = "answered", Publish(w)
  PROVE  /\ \A m \in messages' : owner'[m.conv] = m.work.owner
         /\ \A x \in Works \ {w} : stage[x] \in Open =>
              owner'[draft[x].conv] = owner[draft[x].conv]
         /\ \A r \in reading : ~r.admin => owner'[r.conv] \in {r.client, Deleted}
<1> DEFINE c == draft[w].conv
<1>1. OwnDraft(w) /\ c \in Conversations
  BY DEF Ownership, Open, TypeOK
<1>2. draft[w].rows \subseteq Messages
  BY DEF TypeOK, Drafts
<1>3. CASE w.conv # None
  BY <1>1, <1>2, <1>3 DEF OwnDraft, Publish, Ownership
<1>4. CASE w.conv = None
  <2>1. owner' = [owner EXCEPT ![c] = w.owner] /\ owner[c] = None
    BY <1>1, <1>4 DEF OwnDraft, Publish
  <2>2. \A m \in messages : m.conv # c
    BY <2>1 DEF Ownership, TypeOK, Messages
  <2>3. \A m \in messages' : owner'[m.conv] = m.work.owner
    BY <1>1, <1>2, <2>1, <2>2 DEF Publish, OwnDraft, Ownership, TypeOK, Messages
  <2>4. \A x \in Works \ {w} : draft[x].conv # c
    BY <1>1, <1>4 DEF OwnDraft
  <2>5. \A r \in reading : ~r.admin => r.conv # c
    BY <2>1 DEF Ownership, TypeOK
  <2> QED
    BY <2>1, <2>3, <2>4, <2>5 DEF Ownership, TypeOK
<1> QED
  BY <1>3, <1>4

\* Every step keeps messages, drafts and reads with those who may have them.
LEMMA OwnershipStep ==
  ASSUME TypeOK, TypeOK', Ownership, [Next]_vars
  PROVE  Ownership'
<1> USE DEF rows, writers, readers
<1>1. ASSUME NEW w \in Works, Question(w)
      PROVE  Ownership'
  <2>1. PICK c \in Conversations :
           /\ Target(w, c)
           /\ draft' = [draft EXCEPT ![w] = [NoDraft EXCEPT !.conv = c,
                                              !.rows = {Row(w, c, "user", seq + 1)}]]
    BY <1>1 DEF Question
  <2>2. /\ stage[w] = "new" /\ IsChat(w) /\ stage' = [stage EXCEPT ![w] = "asked"]
        /\ UNCHANGED <<owner, messages, reading>>
    BY <1>1 DEF Question
  <2>3. /\ draft'[w].conv = c /\ draft'[w].rows = {Row(w, c, "user", seq + 1)}
        /\ \A x \in Works \ {w} : draft'[x] = draft[x]
    BY <2>1 DEF NoDraft, TypeOK
  <2>4. OwnDraft(w)'
    BY <2>1, <2>2, <2>3 DEF OwnDraft, Target, Unused, Row, IsChat
  <2>5. ASSUME NEW x \in Works \ {w}, stage'[x] \in Open
        PROVE  OwnDraft(x)'
    <3>1. OwnDraft(x)
      BY <2>2, <2>5 DEF Ownership, TypeOK, Open
    <3>2. draft[x].conv \in Conversations
      BY <2>2, <2>5 DEF TypeOK, Open
    <3>3. w.conv = None \/ x.conv = None => c # draft[x].conv
      BY <2>1, <3>1 DEF Target, Unused, OwnDraft
    <3> QED
      BY <2>2, <2>3, <3>1, <3>3 DEF OwnDraft, IsChat
  <2> QED
    BY <2>2, <2>4, <2>5 DEF Ownership
<1>2. ASSUME NEW w \in Works, Answer(w)
      PROVE  Ownership'
  <2>1. /\ stage[w] = "asked" /\ stage' = [stage EXCEPT ![w] = "answered"]
        /\ draft'[w].conv = draft[w].conv
        /\ draft'[w].rows = draft[w].rows \cup {Row(w, draft[w].conv, "assistant", seq + 1)}
        /\ \A x \in Works \ {w} : draft'[x] = draft[x]
        /\ UNCHANGED <<owner, messages, reading>>
    BY <1>2 DEF Answer, TypeOK, Drafts
  <2>2. ASSUME NEW x \in Works, stage'[x] \in Open
        PROVE  OwnDraft(x)'
    <3>1. OwnDraft(x) /\ OwnDraft(w)
      BY <2>1, <2>2 DEF Ownership, TypeOK, Open
    <3>2. \A y \in Works : draft'[y].conv = draft[y].conv
      BY <2>1
    <3> QED
      BY <2>1, <3>1, <3>2 DEF OwnDraft, IsChat, Row
  <2> QED
    BY <2>1, <2>2 DEF Ownership
<1>3. ASSUME NEW w \in Works, Account(w)
      PROVE  Ownership'
  BY <1>3 DEF Account, Ownership, OwnDraft, Open, IsChat, TypeOK
<1>4. ASSUME NEW w \in Works, stage[w] = "answered", Publish(w), stage'[w] \notin Open,
             \A x \in Works \ {w} : stage'[x] = stage[x] /\ draft'[x] = draft[x],
             draft'[w].conv \in {None, draft[w].conv}, reading' = reading
      PROVE  Ownership'
  <2>1. /\ \A m \in messages' : owner'[m.conv] = m.work.owner
        /\ \A x \in Works \ {w} : stage[x] \in Open =>
             owner'[draft[x].conv] = owner[draft[x].conv]
        /\ \A r \in reading : ~r.admin => owner'[r.conv] \in {r.client, Deleted}
    BY <1>4, OwnershipPublished
  <2>2. ASSUME NEW x \in Works, stage'[x] \in Open
        PROVE  OwnDraft(x)'
    <3>1. x # w /\ stage[x] \in Open /\ OwnDraft(x) /\ draft[x].conv \in Conversations
      BY <1>4, <2>2 DEF Ownership, TypeOK
    <3>2. owner'[draft'[x].conv] = owner[draft[x].conv]
      BY <1>4, <2>1, <3>1
    <3> QED
      BY <1>4, <3>1, <3>2 DEF OwnDraft, IsChat
  <2> QED
    BY <1>4, <2>1, <2>2 DEF Ownership
<1>5. ASSUME NEW w \in Works, Commit(w)
      PROVE  Ownership'
  BY <1>4, <1>5, ToldType DEF Commit, Open, TypeOK
<1>6. ASSUME NEW w \in Works, Abandon(w)
      PROVE  Ownership'
  <2>1. CASE stage[w] = "answered" /\ Publish(w)
    BY <1>4, <1>6, <2>1 DEF Abandon, Open, TypeOK, NoDraft
  <2>2. CASE UNCHANGED rows
    BY <1>6, <2>2 DEF Abandon, Ownership, OwnDraft, Open, IsChat, TypeOK, NoDraft
  <2> QED
    BY <1>6, <2>1, <2>2 DEF Abandon
<1>7. ASSUME NEW o \in Clients, Create(o)
      PROVE  Ownership'
  <2>1. PICK c \in Conversations : Unused(c) /\ owner' = [owner EXCEPT ![c] = o]
    BY <1>7 DEF Create
  <2>2. UNCHANGED <<messages, writers, readers>>
    BY <1>7 DEF Create
  <2> QED
    BY <2>1, <2>2 DEF Ownership, OwnDraft, IsChat, Unused, TypeOK, Messages
<1>8. ASSUME NEW c \in Conversations, Delete(c)
      PROVE  Ownership'
  <2>1. /\ owner' = [owner EXCEPT ![c] = Deleted]
        /\ messages' = {m \in messages : m.conv # c}
        /\ \A w \in Works : stage[w] \in Open => draft[w].conv # c
        /\ UNCHANGED <<stage, draft, reading>>
    BY <1>8 DEF Delete, Locked
  <2>2. \A m \in messages' : owner'[m.conv] = m.work.owner
    BY <2>1 DEF Ownership, TypeOK, Messages
  <2>3. \A w \in Works : stage'[w] \in Open => OwnDraft(w)'
    BY <2>1 DEF Ownership, OwnDraft, IsChat, TypeOK
  <2>4. \A r \in reading' : ~r.admin => owner'[r.conv] \in {r.client, Deleted}
    BY <2>1 DEF Ownership, TypeOK
  <2> QED
    BY <2>2, <2>3, <2>4 DEF Ownership
<1>9. ASSUME NEW r \in Reads, Check(r)
      PROVE  Ownership'
  <2>1. /\ UNCHANGED <<owner, messages, stage, draft>>
        /\ reading' = reading \cup {r} /\ MayRead(r)
    BY <1>9 DEF Check
  <2> QED
    BY <2>1 DEF Ownership, OwnDraft, IsChat, MayRead
<1>10. ASSUME NEW r \in Reads, List(r)
       PROVE  Ownership'
  BY <1>10 DEF List, Ownership, OwnDraft, IsChat
<1>11. ASSUME Restart
       PROVE  Ownership'
  BY <1>11 DEF Restart, Ownership, Open, TypeOK
<1>12. ASSUME UNCHANGED <<rows, writers, readers>>
       PROVE  Ownership'
  BY <1>12 DEF Ownership, OwnDraft, IsChat
<1> QED
  BY <1>1, <1>2, <1>3, <1>5, <1>6, <1>7, <1>8, <1>9, <1>10, <1>11, <1>12
  DEF Next, DaysPass, vars

\* Nobody but an admin is shown a conversation of somebody else.
THEOREM ReadersCorrect == Spec => []ReadersSeeTheirOwn
<1>1. Init => Ownership
  BY DEF Init, Ownership, Open
<1>2. TypeOK /\ Ownership => ReadersSeeTheirOwn
  <2> SUFFICES ASSUME TypeOK, Ownership, NEW r \in reading, ~r.admin
               PROVE  /\ owner[r.conv] \in {r.client, Deleted}
                      /\ \A w \in Listed(r.conv) : w.owner = r.client
    BY DEF ReadersSeeTheirOwn
  <2>1. owner[r.conv] \in {r.client, Deleted}
    BY DEF Ownership
  <2>2. ASSUME NEW m \in messages, m.conv = r.conv
        PROVE  m.work.owner = r.client
    <3>1. owner[r.conv] = m.work.owner /\ m.work.owner \in Clients
      BY <2>2 DEF Ownership, TypeOK, Messages
    <3> QED
      BY <2>1, <3>1
  <2> QED
    BY <2>1, <2>2 DEF Listed, Has
<1> QED
  BY <1>1, <1>2, TypeCorrect, OwnershipStep, PTL DEF Spec

----------------------------------------------------------------------------
(* Lists are sorted                                                        *)

\* How many messages come before m.
Rank(ms, m) == Cardinality({x \in ms : x.seq < m.seq})

\* Messages with numbers of their own have ranks of their own, which leave no gap.
LEMMA RanksAreDense ==
  ASSUME NEW ms, IsFiniteSet(ms), \A m \in ms : m.seq \in Nat,
         \A x, y \in ms : x.seq = y.seq => x = y
  PROVE  /\ Cardinality(ms) \in Nat
         /\ \A m \in ms : Rank(ms, m) \in 0..(Cardinality(ms) - 1)
         /\ \A x, y \in ms : x.seq < y.seq => Rank(ms, x) < Rank(ms, y)
         /\ \A k \in 0..(Cardinality(ms) - 1) : \E m \in ms : Rank(ms, m) = k
<1> DEFINE Before(m) == {x \in ms : x.seq < m.seq}
           n == Cardinality(ms)
           f == [m \in ms |-> Rank(ms, m)]
<1>0. /\ \A m : Rank(ms, m) = Cardinality(Before(m))
      /\ \A m, x : x \in Before(m) <=> x \in ms /\ x.seq < m.seq
  BY DEF Rank
<1>1. n \in Nat
  BY FS_CardinalityType
<1> HIDE DEF Before
<1>2. ASSUME NEW m \in ms
      PROVE  /\ IsFiniteSet(Before(m)) /\ Cardinality(Before(m)) \in Nat
             /\ Cardinality(Before(m)) < n
  <2>1. Before(m) \in SUBSET ms /\ m \notin Before(m)
    BY <1>0
  <2>2. /\ IsFiniteSet(Before(m)) /\ Cardinality(Before(m)) <= n
        /\ (n = Cardinality(Before(m)) => ms = Before(m))
    BY <2>1, FS_Subset
  <2>3. Cardinality(Before(m)) \in Nat
    BY <2>2, FS_CardinalityType
  <2> QED
    BY <1>1, <2>1, <2>2, <2>3
<1>3. ASSUME NEW x \in ms, NEW y \in ms, x.seq < y.seq
      PROVE  Cardinality(Before(x)) < Cardinality(Before(y))
  <2>1. Before(x) \in SUBSET Before(y) /\ x \in Before(y) /\ x \notin Before(x)
    BY <1>0, <1>3
  <2>2. IsFiniteSet(Before(y))
    BY <1>2
  <2>3. /\ Cardinality(Before(x)) <= Cardinality(Before(y))
        /\ (Cardinality(Before(y)) = Cardinality(Before(x)) => Before(y) = Before(x))
    BY <2>1, <2>2, FS_Subset
  <2> QED
    BY <1>2, <2>1, <2>3
<1>4. \A m \in ms : Rank(ms, m) \in 0..(n - 1)
  BY <1>0, <1>1, <1>2
<1>5. \A x, y \in ms : x.seq < y.seq => Rank(ms, x) < Rank(ms, y)
  BY <1>0, <1>3
<1>6. \A x, y \in ms : x # y => Rank(ms, x) # Rank(ms, y)
  BY <1>4, <1>5
<1>7. f \in Injection(ms, 0..(n - 1))
  BY <1>4, <1>6 DEF Injection, IsInjective
<1>8. IsFiniteSet(0..(n - 1)) /\ Cardinality(0..(n - 1)) = n
  BY <1>1, FS_Interval
<1>9. f \in Surjection(ms, 0..(n - 1))
  BY <1>7, <1>8, FS_Injection
<1>10. \A k \in 0..(n - 1) : \E m \in ms : Rank(ms, m) = k
  BY <1>9 DEF Surjection
<1> QED
  BY <1>1, <1>4, <1>5, <1>10

\* A list has all the messages, each in the place its number gives it.
LEMMA InOrderSorts ==
  ASSUME NEW ms, IsFiniteSet(ms), \A m \in ms : m.seq \in Nat,
         \A x, y \in ms : x.seq = y.seq => x = y
  PROVE  /\ \A m \in ms : \E i \in DOMAIN InOrder(ms) : InOrder(ms)[i] = m
         /\ \A i \in DOMAIN InOrder(ms) : InOrder(ms)[i] \in ms
         /\ \A i, j \in DOMAIN InOrder(ms) :
              InOrder(ms)[i].seq < InOrder(ms)[j].seq => i < j
<1> DEFINE n == Cardinality(ms)
           list == InOrder(ms)
<1>1. /\ n \in Nat
      /\ \A m \in ms : Rank(ms, m) \in 0..(n - 1)
      /\ \A x, y \in ms : x.seq < y.seq => Rank(ms, x) < Rank(ms, y)
      /\ \A k \in 0..(n - 1) : \E m \in ms : Rank(ms, m) = k
  BY RanksAreDense
<1>2. list = [i \in 1..n |-> CHOOSE m \in ms : Rank(ms, m) = i - 1]
  BY DEF InOrder, Arranged, Rank
<1> HIDE DEF list
<1>3. ASSUME NEW i \in 1..n
      PROVE  list[i] \in ms /\ Rank(ms, list[i]) = i - 1
  <2>1. i - 1 \in 0..(n - 1)
    BY <1>1, <1>3
  <2> QED
    BY <1>1, <1>2, <2>1
<1>4. ASSUME NEW m \in ms
      PROVE  \E i \in 1..n : list[i] = m
  <2>1. Rank(ms, m) + 1 \in 1..n
    BY <1>1
  <2>2. list[Rank(ms, m) + 1] \in ms /\ Rank(ms, list[Rank(ms, m) + 1]) = Rank(ms, m)
    BY <1>1, <1>3, <2>1
  <2>3. list[Rank(ms, m) + 1] = m
    BY <1>1, <2>2
  <2> QED
    BY <2>1, <2>3
<1>5. ASSUME NEW i \in 1..n, NEW j \in 1..n, list[i].seq < list[j].seq
      PROVE  i < j
  BY <1>1, <1>3, <1>5
<1> QED
  BY <1>2, <1>3, <1>4, <1>5 DEF list

----------------------------------------------------------------------------
(* Numbers                                                                 *)

\* A row that is committed, or inserted and not yet committed.
Drawn(m) == m \in messages \/ \E w \in Works : m \in draft[w].rows

\* Numbers are drawn upwards, each once; what was acknowledged before a
\* transaction began has drawn all its numbers by then.
Numbering ==
    /\ \A m : Drawn(m) => m.seq <= seq /\ stage[m.work] # "new"
    /\ \A m, n : Drawn(m) /\ Drawn(n) /\ m.seq = n.seq => m = n
    /\ \A w \in Works : \A x \in earlier[w] : stage[x] = "stored"
    /\ \A m, n : Drawn(m) /\ Drawn(n) /\ n.work \in earlier[m.work] => n.seq < m.seq

\* Rows that were drawn, committed or not, are rows of messages.
LEMMA DrawnType ==
  ASSUME TypeOK, NEW m, Drawn(m)
  PROVE  m \in Messages /\ m.work \in Works /\ m.conv \in Conversations /\ m.seq \in Nat
<1>1. m \in Messages
  BY DEF Drawn, TypeOK, Drafts
<1> QED
  BY <1>1 DEF Messages

\* A step draws no number, or the next one for a transaction that is open.
DrawsNone ==
    /\ seq' = seq
    /\ \A m : Drawn(m)' => Drawn(m)
    /\ \A x \in Works : earlier'[x] = earlier[x]

Draws(row) ==
    /\ seq' = seq + 1 /\ row.seq = seq + 1 /\ row.work \in Works
    /\ \A m : Drawn(m)' => Drawn(m) \/ m = row
    /\ stage[row.work] \in {"new", "asked"} /\ stage'[row.work] # "new"
    /\ \/ earlier' = earlier
       \/ /\ stage[row.work] = "new"
          /\ earlier' = [earlier EXCEPT ![row.work] = Acknowledged]

Progress ==
    \A x \in Works : /\ stage'[x] = "new" => stage[x] = "new"
                     /\ stage[x] = "stored" => stage'[x] = "stored"

\* A step draws one number for one row or none; no transaction begins twice, and one
\* that is stored stays stored.
LEMMA DrawnStep ==
  ASSUME TypeOK, TypeOK', [Next]_vars
  PROVE  Progress /\ (DrawsNone \/ \E row : Draws(row))
<1> USE DEF rows, writers, readers
<1>1. ASSUME NEW w \in Works, Question(w)
      PROVE  Progress /\ \E row : Draws(row)
  <2>1. PICK c \in Conversations :
           draft' = [draft EXCEPT ![w] = [NoDraft EXCEPT !.conv = c,
                                              !.rows = {Row(w, c, "user", seq + 1)}]]
    BY <1>1 DEF Question
  <2> DEFINE row == Row(w, c, "user", seq + 1)
  <2>2. draft'[w].rows = {row} /\ \A x \in Works \ {w} : draft'[x] = draft[x]
    BY <2>1 DEF NoDraft, TypeOK
  <2>3. row.seq = seq + 1 /\ row.work = w
    BY DEF Row
  <2> HIDE DEF row
  <2>4. \A m : Drawn(m)' => Drawn(m) \/ m = row
    BY <1>1, <2>2 DEF Question, Drawn
  <2>5. Draws(row)
    BY <1>1, <2>3, <2>4 DEF Question, Draws, TypeOK
  <2> QED
    BY <1>1, <2>5 DEF Question, Progress, TypeOK
<1>2. ASSUME NEW w \in Works, Answer(w)
      PROVE  Progress /\ \E row : Draws(row)
  <2> DEFINE row == Row(w, draft[w].conv, "assistant", seq + 1)
  <2>1. /\ draft'[w].rows = draft[w].rows \cup {row}
        /\ \A x \in Works \ {w} : draft'[x] = draft[x]
    BY <1>2 DEF Answer, TypeOK, Drafts
  <2>2. row.seq = seq + 1 /\ row.work = w
    BY DEF Row
  <2> HIDE DEF row
  <2>3. \A m : Drawn(m)' => Drawn(m) \/ m = row
    BY <1>2, <2>1 DEF Answer, Drawn
  <2>4. Draws(row)
    BY <1>2, <2>2, <2>3 DEF Answer, Draws, TypeOK
  <2> QED
    BY <1>2, <2>4 DEF Answer, Progress, TypeOK
<1>3. ASSUME NEW w \in Works, Account(w)
      PROVE  Progress /\ DrawsNone
  BY <1>3 DEF Account, Progress, DrawsNone, Drawn, TypeOK
<1>4. ASSUME NEW w \in Works, Commit(w)
      PROVE  Progress /\ DrawsNone
  <2>1. messages' = messages \cup draft[w].rows
    BY <1>4 DEF Commit, Publish
  <2>2. draft'[w].rows = {} /\ \A x \in Works \ {w} : draft'[x] = draft[x]
    BY <1>4 DEF Commit, Told, NoDraft, TypeOK
  <2> QED
    BY <1>4, <2>1, <2>2 DEF Commit, Progress, DrawsNone, Drawn, TypeOK
<1>5. ASSUME NEW w \in Works, Abandon(w)
      PROVE  Progress /\ DrawsNone
  <2>1. messages' = messages \/ messages' = messages \cup draft[w].rows
    BY <1>5 DEF Abandon, Publish
  <2>2. draft'[w].rows = {} /\ \A x \in Works \ {w} : draft'[x] = draft[x]
    BY <1>5 DEF Abandon, NoDraft, TypeOK
  <2>3. \A m : Drawn(m)' => Drawn(m)
    BY <2>1, <2>2 DEF Drawn
  <2>4. Progress
    BY <1>5 DEF Abandon, Progress, TypeOK, Open
  <2> QED
    BY <1>5, <2>3, <2>4 DEF Abandon, DrawsNone
<1>6. ASSUME NEW o \in Clients, Create(o)
      PROVE  Progress /\ DrawsNone
  BY <1>6 DEF Create, Progress, DrawsNone, Drawn
<1>7. ASSUME NEW c \in Conversations, Delete(c)
      PROVE  Progress /\ DrawsNone
  BY <1>7 DEF Delete, Progress, DrawsNone, Drawn
<1>8. ASSUME NEW r \in Reads, Check(r) \/ List(r)
      PROVE  Progress /\ DrawsNone
  BY <1>8 DEF Check, List, Progress, DrawsNone, Drawn
<1>9. ASSUME Restart
      PROVE  Progress /\ DrawsNone
  <2>1. \A x \in Works : draft'[x] = NoDraft \/ draft'[x] = draft[x]
    BY <1>9 DEF Restart
  <2>2. \A m : Drawn(m)' => Drawn(m)
    BY <1>9, <2>1 DEF Drawn, NoDraft, Restart
  <2> QED
    BY <1>9, <2>2 DEF Restart, Progress, DrawsNone, Open
<1>10. ASSUME UNCHANGED <<rows, writers, readers>>
       PROVE  Progress /\ DrawsNone
  BY <1>10 DEF Progress, DrawsNone, Drawn
<1> QED
  BY <1>1, <1>2, <1>3, <1>4, <1>5, <1>6, <1>7, <1>8, <1>9, <1>10 DEF Next, DaysPass, vars

\* Every step keeps numbers apart, below seq, and above those acknowledged before.
LEMMA NumberingStep ==
  ASSUME TypeOK, TypeOK', Numbering, [Next]_vars
  PROVE  Numbering'
<1>1. Progress
  BY DrawnStep
<1>2. \A m : Drawn(m) => m.work \in Works /\ m.seq \in Nat
  BY DrawnType
<1>3. CASE DrawsNone
  <2>1. \A m : Drawn(m)' => m.seq <= seq' /\ stage'[m.work] # "new"
    BY <1>1, <1>2, <1>3 DEF Numbering, DrawsNone, Progress
  <2>2. \A m, n : Drawn(m)' /\ Drawn(n)' /\ m.seq = n.seq => m = n
    BY <1>3 DEF Numbering, DrawsNone
  <2>3. \A w \in Works : \A x \in earlier'[w] : stage'[x] = "stored"
    BY <1>1, <1>3 DEF Numbering, DrawsNone, Progress, TypeOK
  <2>4. \A m, n : Drawn(m)' /\ Drawn(n)' /\ n.work \in earlier'[m.work] => n.seq < m.seq
    BY <1>2, <1>3 DEF Numbering, DrawsNone
  <2> QED
    BY <2>1, <2>2, <2>3, <2>4 DEF Numbering
<1>4. ASSUME NEW row, Draws(row)
      PROVE  Numbering'
  <2>1. \A m : Drawn(m)' => Drawn(m) \/ m = row
    BY <1>4 DEF Draws
  <2>2. \A m : Drawn(m)' => m.seq <= seq' /\ stage'[m.work] # "new"
    BY <1>1, <1>2, <1>4, <2>1 DEF Numbering, Draws, Progress, TypeOK
  <2>3. \A m : Drawn(m) => m.seq < row.seq
    BY <1>2, <1>4 DEF Numbering, Draws, TypeOK
  <2>4. \A m, n : Drawn(m)' /\ Drawn(n)' /\ m.seq = n.seq => m = n
    BY <1>2, <2>1, <2>3, <1>4 DEF Numbering, Draws, TypeOK
  <2>5. \A w \in Works : \A x \in earlier'[w] : stage'[x] = "stored"
    BY <1>1, <1>4 DEF Numbering, Draws, Progress, TypeOK, Acknowledged
  <2>6. \A w \in Works : row.work \notin earlier'[w]
    BY <1>4, <2>5 DEF Numbering, Draws, TypeOK, Acknowledged
  <2>7. \A m : Drawn(m) => earlier'[m.work] = earlier[m.work] 
    BY <1>2, <1>4 DEF Numbering, Draws, TypeOK
  <2>8. ASSUME NEW m, NEW n, Drawn(m)', Drawn(n)', n.work \in earlier'[m.work]
        PROVE  n.seq < m.seq
    <3>1. m.work \in Works
      BY <1>2, <1>4, <2>1, <2>8 DEF Draws
    <3>2. n # row /\ Drawn(n)
      BY <2>1, <2>6, <2>8, <3>1
    <3> QED
      BY <2>1, <2>3, <2>7, <2>8, <3>2 DEF Numbering
  <2> QED
    BY <2>2, <2>4, <2>5, <2>8 DEF Numbering
<1> QED
  BY <1>3, <1>4, DrawnStep

----------------------------------------------------------------------------
(* Whole exchanges, and what was acknowledged                              *)

\* What an open transaction has inserted.
Shape(w) ==
    LET c == draft[w].conv IN
      /\ stage[w] = "new" => c = None
      /\ stage[w] \notin Open => draft[w].rows = {}
      /\ stage[w] = "asked" => \E n \in Nat :
            n <= seq /\ draft[w].rows = {Row(w, c, "user", n)}
      /\ stage[w] = "answered" => \E n, k \in Nat :
            n < k /\ draft[w].rows = {Row(w, c, "user", n), Row(w, c, "assistant", k)}

\* The question and the reply of the exchange of m are in set ms.
Both(m, ms) ==
    \E q, a \in ms : /\ q.work = m.work /\ q.conv = m.conv /\ q.role = "user"
                     /\ a.work = m.work /\ a.conv = m.conv /\ a.role = "assistant"
                     /\ q.seq < a.seq

\* An acknowledged exchange is there as long as its conversation is.
Kept(w) ==
    LET c == draft[w].conv IN
      stage[w] = "stored" /\ c \in Conversations =>
        owner[c] = Deleted \/ \E m \in messages : m.work = w /\ m.conv = c

Storage ==
    /\ IsFiniteSet(messages)
    /\ \A w \in Works : Shape(w) /\ Kept(w)
    /\ \A m \in messages : Both(m, messages)
    /\ \A r \in reading : \A w \in due[r] : stage[w] = "stored" /\ draft[w].conv = r.conv

\* More rows leave a pair a pair.
LEMMA BothMore ==
  ASSUME NEW ms, NEW ns, ms \subseteq ns, NEW m, Both(m, ms)
  PROVE  Both(m, ns)
  BY DEF Both

\* Rows are published in pairs.
LEMMA StoragePublished ==
  ASSUME TypeOK, Storage, NEW w \in Works, stage[w] = "answered", Publish(w)
  PROVE  /\ messages' = messages \cup draft[w].rows
         /\ IsFiniteSet(messages')
         /\ \A m \in messages' : Both(m, messages')
         /\ \E m \in messages' : m.work = w /\ m.conv = draft[w].conv
<1> DEFINE c == draft[w].conv
<1>1. PICK n \in Nat, k \in Nat :
         n < k /\ draft[w].rows = {Row(w, c, "user", n), Row(w, c, "assistant", k)}
  BY DEF Storage, Shape
<1> DEFINE q == Row(w, c, "user", n)
           a == Row(w, c, "assistant", k)
<1>2. /\ q.work = w /\ q.conv = c /\ q.role = "user" /\ q.seq = n
      /\ a.work = w /\ a.conv = c /\ a.role = "assistant" /\ a.seq = k
  BY DEF Row
<1>3. messages' = messages \cup draft[w].rows /\ draft[w].rows = {q, a}
  BY <1>1 DEF Publish
<1> HIDE DEF q, a
<1>4. messages' = (messages \cup {q}) \cup {a}
  BY <1>3
<1>5. IsFiniteSet(messages')
  BY <1>4, FS_AddElement DEF Storage
<1>6. ASSUME NEW m \in messages'
      PROVE  Both(m, messages')
  <2>1. CASE m \in messages
    BY <1>3, <2>1, BothMore DEF Storage
  <2>2. CASE m \in {q, a}
    BY <1>1, <1>2, <1>3, <2>2 DEF Both
  <2> QED
    BY <1>3, <2>1, <2>2
<1> QED
  BY <1>2, <1>3, <1>5, <1>6

\* A step that publishes nothing and closes or opens no transaction.
LEMMA StorageStays ==
  ASSUME TypeOK, TypeOK', Storage, [Next]_vars,
         messages' = messages, owner' = owner, seq' = seq,
         \A x \in Works : stage'[x] = stage[x] /\ draft'[x] = draft[x],
         reading' \subseteq reading, \A r \in reading' : due'[r] = due[r]
  PROVE  Storage'
<1>1. \A x \in Works : Shape(x)' /\ Kept(x)'
  BY DEF Storage, Shape, Kept
<1>2. \A r \in reading' : \A w \in due'[r] : stage'[w] = "stored" /\ draft'[w].conv = r.conv
  BY DEF Storage, TypeOK
<1> QED
  BY <1>1, <1>2 DEF Storage

\* What is deleted stays deleted.
LEMMA DeletedStays ==
  ASSUME TypeOK, Ownership, [Next]_vars
  PROVE  \A c \in Conversations : owner[c] = Deleted => owner'[c] = Deleted
<1> USE DEF rows, writers, readers
<1>1. ASSUME NEW w \in Works, stage[w] = "answered", Publish(w)
      PROVE  \A c \in Conversations : owner[c] = Deleted => owner'[c] = Deleted
  <2>1. OwnDraft(w)
    BY <1>1 DEF Ownership, Open
  <2> QED
    BY <1>1, <2>1 DEF Publish, OwnDraft, TypeOK
<1>2. ASSUME NEW w \in Works, Commit(w) \/ Abandon(w)
      PROVE  \A c \in Conversations : owner[c] = Deleted => owner'[c] = Deleted
  BY <1>1, <1>2 DEF Commit, Abandon
<1>3. ASSUME NEW o \in Clients, Create(o)
      PROVE  \A c \in Conversations : owner[c] = Deleted => owner'[c] = Deleted
  BY <1>3 DEF Create, Unused, TypeOK
<1>4. ASSUME NEW d \in Conversations, Delete(d)
      PROVE  \A c \in Conversations : owner[c] = Deleted => owner'[c] = Deleted
  BY <1>4 DEF Delete, TypeOK
<1> QED
  BY <1>2, <1>3, <1>4
  DEF Next, Question, Answer, Account, Check, List, Restart, DaysPass, vars

\* Every step publishes both rows of an exchange or none, and keeps what was acknowledged.
LEMMA StorageStep ==
  ASSUME TypeOK, TypeOK', Ownership, Storage, [Next]_vars
  PROVE  Storage'
<1> USE DEF rows, writers, readers
<1>0. \A c \in Conversations : owner[c] = Deleted => owner'[c] = Deleted
  BY DeletedStays
<1>1. ASSUME NEW w \in Works, Question(w)
      PROVE  Storage'
  <2>1. PICK c \in Conversations :
           draft' = [draft EXCEPT ![w] = [NoDraft EXCEPT !.conv = c,
                                              !.rows = {Row(w, c, "user", seq + 1)}]]
    BY <1>1 DEF Question
  <2>2. /\ draft'[w].conv = c /\ draft'[w].rows = {Row(w, c, "user", seq + 1)}
        /\ \A x \in Works \ {w} : draft'[x] = draft[x]
    BY <2>1 DEF NoDraft, TypeOK
  <2>3. /\ stage[w] = "new" /\ stage' = [stage EXCEPT ![w] = "asked"]
        /\ seq' = seq + 1 /\ UNCHANGED <<owner, messages, reading, due>>
    BY <1>1 DEF Question
  <2>4. Shape(w)' /\ Kept(w)'
    BY <2>2, <2>3 DEF Shape, Kept, Open, TypeOK
  <2>5. ASSUME NEW x \in Works \ {w}
        PROVE  Shape(x)' /\ Kept(x)'
    <3>1. Shape(x) /\ Kept(x) /\ draft'[x] = draft[x] /\ stage'[x] = stage[x]
      BY <2>2, <2>3 DEF Storage, TypeOK
    <3>2. \A n \in Nat : n <= seq => n <= seq'
      BY <2>3 DEF TypeOK
    <3> QED
      BY <2>3, <3>1, <3>2 DEF Shape, Kept
  <2>6. \A r \in reading' : \A x \in due'[r] : stage'[x] = "stored" /\ draft'[x].conv = r.conv
    BY <2>2, <2>3 DEF Storage, TypeOK
  <2> QED
    BY <2>3, <2>4, <2>5, <2>6 DEF Storage
<1>2. ASSUME NEW w \in Works, Answer(w)
      PROVE  Storage'
  <2> DEFINE c == draft[w].conv
  <2>1. /\ stage[w] = "asked" /\ stage' = [stage EXCEPT ![w] = "answered"]
        /\ draft'[w].conv = draft[w].conv
        /\ draft'[w].rows = draft[w].rows \cup {Row(w, c, "assistant", seq + 1)}
        /\ \A x \in Works \ {w} : draft'[x] = draft[x]
        /\ seq' = seq + 1 /\ UNCHANGED <<owner, messages, reading, due>>
    BY <1>2 DEF Answer, TypeOK, Drafts
  <2>2. PICK n \in Nat : n <= seq /\ draft[w].rows = {Row(w, c, "user", n)}
    BY <2>1 DEF Storage, Shape
  <2>3. draft'[w].rows = {Row(w, c, "user", n), Row(w, c, "assistant", seq + 1)}
    BY <2>1, <2>2
  <2>4. n < seq + 1 /\ seq + 1 \in Nat /\ stage'[w] = "answered"
    BY <2>1, <2>2 DEF TypeOK
  <2>5. Shape(w)' /\ Kept(w)'
    BY <2>1, <2>3, <2>4 DEF Shape, Kept, Open
  <2>6. ASSUME NEW x \in Works \ {w}
        PROVE  Shape(x)' /\ Kept(x)'
    <3>1. Shape(x) /\ Kept(x) /\ draft'[x] = draft[x] /\ stage'[x] = stage[x]
      BY <2>1 DEF Storage, TypeOK
    <3>2. \A k \in Nat : k <= seq => k <= seq'
      BY <2>1 DEF TypeOK
    <3> QED
      BY <2>1, <3>1, <3>2 DEF Shape, Kept
  <2>7. \A r \in reading' : \A x \in due'[r] : stage'[x] = "stored" /\ draft'[x].conv = r.conv
    BY <2>1 DEF Storage, TypeOK
  <2> QED
    BY <2>1, <2>5, <2>6, <2>7 DEF Storage
<1>3. ASSUME NEW w \in Works, Account(w)
      PROVE  Storage'
  <2>1. /\ stage[w] = "new" /\ stage'[w] \in {"stored", "lost"}
        /\ \A x \in Works \ {w} : stage'[x] = stage[x]
        /\ UNCHANGED <<owner, messages, seq, draft, reading, due>>
    BY <1>3 DEF Account, TypeOK
  <2>2. draft[w].conv = None /\ draft[w].rows = {}
    BY <2>1 DEF Storage, Shape, Open
  <2>3. \A x \in Works : Shape(x)' /\ Kept(x)'
    BY <2>1, <2>2 DEF Storage, Shape, Kept, Open
  <2>4. \A r \in reading' : \A x \in due'[r] : stage'[x] = "stored" /\ draft'[x].conv = r.conv
    BY <2>1 DEF Storage, TypeOK
  <2> QED
    BY <2>1, <2>3, <2>4 DEF Storage
<1>4. ASSUME NEW w \in Works, Commit(w)
      PROVE  Storage'
  <2>1. /\ stage[w] = "answered" /\ Publish(w) /\ stage' = [stage EXCEPT ![w] = "stored"]
        /\ draft'[w].conv = draft[w].conv /\ draft'[w].rows = {}
        /\ \A x \in Works \ {w} : draft'[x] = draft[x]
        /\ UNCHANGED <<seq, reading, due>>
    BY <1>4 DEF Commit, Told, NoDraft, TypeOK
  <2>2. /\ messages' = messages \cup draft[w].rows /\ IsFiniteSet(messages')
        /\ \A m \in messages' : Both(m, messages')
        /\ \E m \in messages' : m.work = w /\ m.conv = draft[w].conv
    BY <2>1, StoragePublished
  <2>3. Shape(w)' /\ Kept(w)'
    BY <2>1, <2>2 DEF Shape, Kept, Open, TypeOK
  <2>4. ASSUME NEW x \in Works \ {w}
        PROVE  Shape(x)' /\ Kept(x)'
    <3>1. Shape(x) /\ Kept(x) /\ draft'[x] = draft[x] /\ stage'[x] = stage[x]
      BY <2>1 DEF Storage, TypeOK
    <3> QED
      BY <1>0, <2>1, <2>2, <3>1 DEF Shape, Kept
  <2>5. \A r \in reading' : \A x \in due'[r] : stage'[x] = "stored" /\ draft'[x].conv = r.conv
    BY <2>1 DEF Storage, TypeOK
  <2> QED
    BY <2>2, <2>3, <2>4, <2>5 DEF Storage
<1>5. ASSUME NEW w \in Works, Abandon(w)
      PROVE  Storage'
  <2>1. /\ stage[w] \in Open /\ stage' = [stage EXCEPT ![w] = "lost"]
        /\ draft'[w].conv = None /\ draft'[w].rows = {}
        /\ \A x \in Works \ {w} : draft'[x] = draft[x]
        /\ UNCHANGED <<seq, reading, due>>
    BY <1>5 DEF Abandon, NoDraft, TypeOK
  <2>2. /\ messages \subseteq messages' /\ IsFiniteSet(messages')
        /\ \A m \in messages' : Both(m, messages')
    <3>1. CASE UNCHANGED rows
      BY <3>1 DEF Storage
    <3>2. CASE stage[w] = "answered" /\ Publish(w)
      BY <3>2, StoragePublished
    <3> QED
      BY <1>5, <3>1, <3>2 DEF Abandon
  <2>3. Shape(w)' /\ Kept(w)'
    BY <2>1 DEF Shape, Kept, Open, TypeOK
  <2>4. ASSUME NEW x \in Works \ {w}
        PROVE  Shape(x)' /\ Kept(x)'
    <3>1. Shape(x) /\ Kept(x) /\ draft'[x] = draft[x] /\ stage'[x] = stage[x]
      BY <2>1 DEF Storage, TypeOK
    <3> QED
      BY <1>0, <2>1, <2>2, <3>1 DEF Shape, Kept
  <2>5. \A r \in reading' : \A x \in due'[r] : stage'[x] = "stored" /\ draft'[x].conv = r.conv
    BY <2>1 DEF Storage, TypeOK, Open
  <2> QED
    BY <2>2, <2>3, <2>4, <2>5 DEF Storage
<1>6. ASSUME NEW o \in Clients, Create(o)
      PROVE  Storage'
  <2>1. UNCHANGED <<messages, writers, readers>>
    BY <1>6 DEF Create
  <2>2. \A x \in Works : Shape(x)' /\ Kept(x)'
    BY <1>0, <2>1 DEF Storage, Shape, Kept
  <2> QED
    BY <2>1, <2>2 DEF Storage
<1>7. ASSUME NEW c \in Conversations, Delete(c)
      PROVE  Storage'
  <2>1. /\ owner'[c] = Deleted /\ messages' = {m \in messages : m.conv # c}
        /\ UNCHANGED <<writers, readers>>
    BY <1>7 DEF Delete, TypeOK
  <2>2. IsFiniteSet(messages')
    BY <2>1, FS_Subset DEF Storage
  <2>3. ASSUME NEW m \in messages'
        PROVE  Both(m, messages')
    BY <2>1, <2>3 DEF Storage, Both
  <2>4. ASSUME NEW x \in Works
        PROVE  Shape(x)' /\ Kept(x)'
    <3>1. Shape(x) /\ Kept(x)
      BY DEF Storage
    <3> QED
      BY <1>0, <2>1, <3>1 DEF Shape, Kept
  <2> QED
    BY <2>1, <2>2, <2>3, <2>4 DEF Storage
<1>8. ASSUME NEW r \in Reads, Check(r)
      PROVE  Storage'
  <2>1. /\ due' = [due EXCEPT ![r] = {w \in Acknowledged : draft[w].conv = r.conv}]
        /\ reading' = reading \cup {r} /\ UNCHANGED <<rows, writers>>
    BY <1>8 DEF Check
  <2>2. \A x \in Works : Shape(x)' /\ Kept(x)'
    BY <2>1 DEF Storage, Shape, Kept
  <2>3. \A s \in reading' : \A w \in due'[s] : stage'[w] = "stored" /\ draft'[w].conv = s.conv
    BY <2>1 DEF Storage, TypeOK, Acknowledged
  <2> QED
    BY <2>1, <2>2, <2>3 DEF Storage
<1>9. ASSUME NEW r \in Reads, List(r)
      PROVE  Storage'
  BY <1>9, StorageStays DEF List, TypeOK
<1>10. ASSUME Restart
       PROVE  Storage'
  <2>1. /\ \A x \in Works : IF stage[x] \in Open
                              THEN stage'[x] = "lost" /\ draft'[x] = NoDraft
                              ELSE stage'[x] = stage[x] /\ draft'[x] = draft[x]
        /\ reading' = {} /\ UNCHANGED <<rows, seq>>
    BY <1>10 DEF Restart, TypeOK
  <2>2. ASSUME NEW x \in Works
        PROVE  Shape(x)' /\ Kept(x)'
    BY <2>1 DEF Storage, Shape, Kept, Open, NoDraft
  <2> QED
    BY <2>1, <2>2 DEF Storage
<1>11. ASSUME UNCHANGED <<rows, writers, readers>>
       PROVE  Storage'
  BY <1>11, StorageStays
<1> QED
  BY <1>1, <1>2, <1>3, <1>4, <1>5, <1>6, <1>7, <1>8, <1>9, <1>10, <1>11
  DEF Next, DaysPass, vars

----------------------------------------------------------------------------
(* What readers are shown                                                  *)

RecordsInv == TypeOK /\ Ownership /\ Numbering /\ Storage

\* The invariant holds throughout.
LEMMA RecordsInvariant == Spec => []RecordsInv
<1>1. Init => RecordsInv
  <2> SUFFICES ASSUME Init
               PROVE  RecordsInv
    OBVIOUS
  <2>1. TypeOK
    BY TariffsAssumption DEF Init, TypeOK, NoDraft, Drafts, Open
  <2>2. Ownership
    BY DEF Init, Ownership, Open
  <2>3. \A m : ~Drawn(m)
    BY DEF Init, Drawn, NoDraft
  <2>4. Numbering
    BY <2>3 DEF Init, Numbering
  <2>5. Storage
    BY FS_EmptySet DEF Init, Storage, Shape, Kept, NoDraft, Open
  <2> QED
    BY <2>1, <2>2, <2>4, <2>5 DEF RecordsInv
<1>2. RecordsInv /\ [Next]_vars => RecordsInv'
  BY TypeStep, OwnershipStep, NumberingStep, StorageStep DEF RecordsInv
<1> QED
  BY <1>1, <1>2, PTL DEF Spec

\* A list has the messages of its conversation, in the order of their numbers.
LEMMA ListingSorts ==
  ASSUME RecordsInv, NEW c \in Conversations
  PROVE  /\ \A m \in Has(c) : \E i \in DOMAIN Listing(c) : Listing(c)[i] = m
         /\ \A i \in DOMAIN Listing(c) : Listing(c)[i] \in Has(c)
         /\ \A i, j \in DOMAIN Listing(c) :
              Listing(c)[i].seq < Listing(c)[j].seq => i < j
<1>1. IsFiniteSet(Has(c))
  BY FS_Subset DEF Has, RecordsInv, Storage
<1>2. /\ \A m \in Has(c) : m.seq \in Nat
      /\ \A x, y \in Has(c) : x.seq = y.seq => x = y
  BY DEF Has, RecordsInv, TypeOK, Messages, Numbering, Drawn
<1> QED
  BY <1>1, <1>2, InOrderSorts DEF Listing

\* Every list holds both messages of an exchange or none, however the writers,
\* the operators and the readers interleave.
THEOREM ExchangesCorrect == Spec => []ListsHoldWholeExchanges
<1>1. RecordsInv => ListsHoldWholeExchanges
  <2> SUFFICES ASSUME RecordsInv, NEW c \in Conversations, NEW w \in Listed(c)
               PROVE  \E i, j \in DOMAIN Listing(c) :
                        /\ i < j
                        /\ Listing(c)[i].work = w /\ Listing(c)[i].role = "user"
                        /\ Listing(c)[j].work = w /\ Listing(c)[j].role = "assistant"
    BY DEF ListsHoldWholeExchanges
  <2>0. PICK m \in Has(c) : m.work = w
    BY DEF Listed
  <2>1. PICK q \in Has(c), a \in Has(c) :
           /\ q.work = w /\ q.role = "user" /\ a.work = w /\ a.role = "assistant"
           /\ q.seq < a.seq
    <3>1. m \in messages /\ m.conv = c
      BY DEF Has
    <3>2. PICK q \in messages, a \in messages :
             /\ q.work = m.work /\ q.conv = m.conv /\ q.role = "user"
             /\ a.work = m.work /\ a.conv = m.conv /\ a.role = "assistant"
             /\ q.seq < a.seq
      BY <3>1 DEF RecordsInv, Storage, Both
    <3>3. q \in Has(c) /\ a \in Has(c)
      BY <3>1, <3>2 DEF Has
    <3> QED
      BY <2>0, <3>2, <3>3
  <2>2. PICK i \in DOMAIN Listing(c), j \in DOMAIN Listing(c) :
           Listing(c)[i] = q /\ Listing(c)[j] = a
    BY ListingSorts
  <2> QED
    BY <2>1, <2>2, ListingSorts
<1> QED
  BY <1>1, RecordsInvariant, PTL

\* Every list is in the order in which exchanges followed one another.
THEOREM OrderCorrect == Spec => []ListsAreChronological
<1>1. RecordsInv => ListsAreChronological
  <2> SUFFICES ASSUME RecordsInv, NEW c \in Conversations,
                      NEW i \in DOMAIN Listing(c), NEW j \in DOMAIN Listing(c),
                      Listing(c)[i].work \in earlier[Listing(c)[j].work]
               PROVE  i < j
    BY DEF ListsAreChronological
  <2>1. Listing(c)[i] \in Has(c) /\ Listing(c)[j] \in Has(c)
    BY ListingSorts
  <2>2. Drawn(Listing(c)[i]) /\ Drawn(Listing(c)[j])
    BY <2>1 DEF Has, Drawn
  <2>3. Listing(c)[i].seq < Listing(c)[j].seq
    BY <2>2 DEF RecordsInv, Numbering
  <2> QED
    BY <2>3, ListingSorts
<1> QED
  BY <1>1, RecordsInvariant, PTL

\* What was acknowledged is in every list that is asked for afterwards.
THEOREM CompletenessCorrect == Spec => []ListsAreComplete
<1>1. RecordsInv => ListsAreComplete
  <2> SUFFICES ASSUME RecordsInv, NEW r \in reading, NEW w \in due[r],
                      owner[r.conv] # Deleted
               PROVE  w \in Listed(r.conv)
    BY DEF ListsAreComplete
  <2>1. r \in Reads /\ r.conv \in Conversations /\ w \in Works
    BY DEF RecordsInv, TypeOK
  <2>2. stage[w] = "stored" /\ draft[w].conv = r.conv /\ Kept(w)
    BY <2>1 DEF RecordsInv, Storage
  <2>3. PICK m \in messages : m.work = w /\ m.conv = r.conv
    BY <2>1, <2>2 DEF Kept
  <2>4. m \in Has(r.conv)
    BY <2>3 DEF Has
  <2> QED
    BY <2>3, <2>4 DEF Listed
<1> QED
  BY <1>1, RecordsInvariant, PTL

----------------------------------------------------------------------------
(* The books: rows of the ledger and what was spent                        *)

\* A row of the ledger and what was spent.
Matches(u, s) ==
    /\ s.work = u.work /\ s.at = u.at
    /\ u.cost = None => s.exact = None
    /\ u.cost # None => /\ s.exact # None
                        /\ 10 * u.cost - s.exact <= 5 /\ s.exact - 10 * u.cost <= 5

\* The ledger has one row for each request that cost something, at most one for
\* each, with its price to half a unit.
Accounted ==
    /\ IsFiniteSet(usage)
    /\ \A u \in usage : stage[u.work] \in {"stored", "lost"}
    /\ \A s \in spent : stage[s.work] \in {"stored", "lost"}
    /\ \A u, v \in usage : u.work = v.work => u = v
    /\ \A s, t \in spent : s.work = t.work => s = t
    /\ \A u \in usage : \E s \in spent : Matches(u, s)
    /\ \A s \in spent : \E u \in usage : Matches(u, s)

\* An open transaction has inserted one row at most, at the prices in force.
Charged ==
    \A w \in Works : stage[w] \in Open =>
        /\ \A u \in draft[w].charges : u.work = w /\ u.cost = Cost(w)
        /\ \A u, v \in draft[w].charges : u = v

Billed == Accounted /\ Charged

\* A row with the cost in force matches the exact price in force.
LEMMA CostMatches ==
  ASSUME TypeOK, NEW w \in Works, NEW at
  PROVE  Matches([work |-> w, cost |-> Cost(w), at |-> at],
                 [work |-> w, exact |-> Exact(w), at |-> at])
<1> DEFINE price == Tariffs[tariff][w.model]
<1>1. price \in Prices \cup {None}
  BY TariffsAssumption, WorksAssumption DEF TypeOK
<1>2. CASE price = None
  BY <1>2 DEF Matches, Cost, Exact
<1>3. CASE price # None
  <2>1. w.input * price.input \in Nat /\ w.output * price.output \in Nat
    BY <1>1, <1>3, WorksAssumption DEF Prices
  <2>2. ExactCost(price, w.input, w.output) \in Nat
    BY <2>1 DEF ExactCost
  <2>3. Exact(w) = ExactCost(price, w.input, w.output)
        /\ Cost(w) = RoundHalfUp(Exact(w), 10)
    BY <1>3 DEF Exact, Cost, StoredCost
  <2>4. Exact(w) \in Nat /\ Cost(w) \in Nat
        /\ 10 * Cost(w) - Exact(w) <= 5 /\ Exact(w) - 10 * Cost(w) <= 5
    BY <2>2, <2>3, StoredCostIsNearest
  <2> QED
    BY <2>4, NamesAssumption DEF Matches
<1> QED
  BY <1>2, <1>3

\* A transaction that closes enters its row, what was spent with it.
LEMMA AccountedMore ==
  ASSUME TypeOK, Accounted, NEW w \in Works, stage[w] \notin {"stored", "lost"},
         stage'[w] \in {"stored", "lost"},
         \A x \in Works \ {w} : stage'[x] = stage[x],
         NEW us, \A u, v \in us : u = v,
         \A u \in us :
           u.work = w /\ \E at \in Nat : u = [work |-> w, cost |-> Cost(w), at |-> at],
         usage' = usage \cup us,
         spent' = spent \cup {[work |-> u.work, exact |-> Exact(w), at |-> u.at] : u \in us}
  PROVE  Accounted'
<1>1. CASE us = {}
  BY <1>1 DEF Accounted, Matches, TypeOK, Charges
<1>2. CASE us # {}
  <2>1. PICK at \in Nat : us = {[work |-> w, cost |-> Cost(w), at |-> at]}
    BY <1>2
  <2> DEFINE u == [work |-> w, cost |-> Cost(w), at |-> at]
             s == [work |-> w, exact |-> Exact(w), at |-> at]
  <2>2. usage' = usage \cup {u} /\ spent' = spent \cup {s} /\ Matches(u, s)
    BY <2>1, CostMatches
  <2>3. u.work = w /\ s.work = w
    OBVIOUS
  <2> HIDE DEF u, s
  <2>4. IsFiniteSet(usage')
    BY <2>2, FS_AddElement DEF Accounted
  <2>5. (\A v \in usage : v.work \in Works \ {w}) /\ (\A t \in spent : t.work \in Works \ {w})
    BY DEF Accounted, TypeOK, Charges
  <2>6. /\ \A v \in usage' : stage'[v.work] \in {"stored", "lost"}
        /\ \A t \in spent' : stage'[t.work] \in {"stored", "lost"}
    BY <2>2, <2>3, <2>5 DEF Accounted
  <2>7. /\ \A v, x \in usage' : v.work = x.work => v = x
        /\ \A t, x \in spent' : t.work = x.work => t = x
    BY <2>2, <2>3, <2>5 DEF Accounted
  <2>8. /\ \A v \in usage' : \E t \in spent' : Matches(v, t)
        /\ \A t \in spent' : \E v \in usage' : Matches(v, t)
    BY <2>2 DEF Accounted
  <2> QED
    BY <2>4, <2>6, <2>7, <2>8 DEF Accounted, Matches
<1> QED
  BY <1>1, <1>2

\* Every step keeps the books.
LEMMA BilledStep ==
  ASSUME TypeOK, TypeOK', Billed, [Next]_vars
  PROVE  Billed'
<1> USE DEF rows, writers, readers, Open
<1>1. ASSUME usage' = usage, spent' = spent,
             \A x \in Works : stage[x] \in {"stored", "lost"} => stage'[x] \in {"stored", "lost"}
      PROVE  Accounted'
  BY <1>1 DEF Billed, Accounted, Matches, TypeOK, Charges
<1>2. ASSUME tariff' = tariff, NEW w \in Works,
             stage'[w] \in Open => draft'[w].charges = {} \/ draft'[w].charges = {Charge(w)},
             \A x \in Works \ {w} : stage'[x] = stage[x] /\ draft'[x] = draft[x]
      PROVE  Charged'
  BY <1>2 DEF Billed, Charged, Charge, Cost
<1>3. ASSUME NEW w \in Works, Question(w)
      PROVE  Billed'
  <2>1. \A x \in Works \ {w} : stage'[x] = stage[x] /\ draft'[x] = draft[x]
    BY <1>3 DEF Question, TypeOK
  <2>2. draft'[w].charges = {}
    BY <1>3 DEF Question, TypeOK, NoDraft
  <2>3. Charged'
    BY <1>2, <1>3, <2>1, <2>2 DEF Question
  <2>4. Accounted'
    BY <1>1, <1>3 DEF Question, TypeOK
  <2> QED
    BY <2>3, <2>4 DEF Billed
<1>4. ASSUME NEW w \in Works, Answer(w)
      PROVE  Billed'
  <2>1. \A x \in Works \ {w} : stage'[x] = stage[x] /\ draft'[x] = draft[x]
    BY <1>4 DEF Answer, TypeOK
  <2>2. draft'[w].charges = {} \/ draft'[w].charges = {Charge(w)}
    BY <1>4 DEF Answer, TypeOK, Drafts
  <2>3. Charged'
    BY <1>2, <1>4, <2>1, <2>2 DEF Answer
  <2>4. Accounted'
    BY <1>1, <1>4 DEF Answer, TypeOK
  <2> QED
    BY <2>3, <2>4 DEF Billed
<1>5. ASSUME NEW w \in Works, stage[w] = "answered", Publish(w),
             stage'[w] \in {"stored", "lost"}, tariff' = tariff,
             \A x \in Works \ {w} : stage'[x] = stage[x] /\ draft'[x] = draft[x]
      PROVE  Billed'
  <2>1. Charged'
    BY <1>2, <1>5
  <2>2. /\ \A u, v \in draft[w].charges : u = v
        /\ \A u \in draft[w].charges :
             u.work = w /\ \E at \in Nat : u = [work |-> w, cost |-> Cost(w), at |-> at]
    BY <1>5 DEF Billed, Charged, TypeOK, Drafts, Charges
  <2>3. Accounted'
    BY <1>5, <2>2, AccountedMore DEF Publish, Billed
  <2> QED
    BY <2>1, <2>3 DEF Billed
<1>6. ASSUME NEW w \in Works, Commit(w)
      PROVE  Billed'
  BY <1>5, <1>6 DEF Commit, TypeOK
<1>7. ASSUME NEW w \in Works, Abandon(w)
      PROVE  Billed'
  <2>1. CASE stage[w] = "answered" /\ Publish(w)
    BY <1>5, <1>7, <2>1 DEF Abandon, TypeOK
  <2>2. CASE UNCHANGED rows
    <3>1. Accounted'
      BY <1>1, <1>7, <2>2 DEF Abandon, TypeOK
    <3>2. Charged'
      BY <1>2, <1>7 DEF Abandon, TypeOK
    <3> QED
      BY <3>1, <3>2 DEF Billed
  <2> QED
    BY <1>7, <2>1, <2>2 DEF Abandon
<1>8. ASSUME NEW w \in Works, Account(w)
      PROVE  Billed'
  <2>1. \A x \in Works \ {w} : stage'[x] = stage[x] /\ draft'[x] = draft[x]
    BY <1>8 DEF Account, TypeOK
  <2>2. Charged'
    BY <1>2, <1>8, <2>1 DEF Account, TypeOK
  <2>3. CASE UNCHANGED <<usage, spent>>
    BY <1>1, <1>8, <2>2, <2>3 DEF Account, Billed, TypeOK
  <2>4. CASE /\ usage' = usage \cup {Charge(w)}
             /\ spent' = spent \cup {[work |-> w, exact |-> Exact(w), at |-> today]}
             /\ stage' = [stage EXCEPT ![w] = "stored"]
    <3> DEFINE us == {Charge(w)}
    <3>1. /\ Charge(w).work = w /\ Charge(w).at = today /\ today \in Nat
          /\ Charge(w) = [work |-> w, cost |-> Cost(w), at |-> today]
      BY TariffsAssumption DEF Charge, TypeOK
    <3>2. {[work |-> u.work, exact |-> Exact(w), at |-> u.at] : u \in us}
            = {[work |-> w, exact |-> Exact(w), at |-> today]}
      BY <3>1
    <3>3. /\ \A u, v \in us : u = v
          /\ \A u \in us :
               u.work = w /\ \E at \in Nat : u = [work |-> w, cost |-> Cost(w), at |-> at]
      BY <3>1
    <3>4. /\ stage[w] = "new" /\ stage'[w] = "stored"
          /\ usage' = usage \cup us
          /\ spent' = spent \cup {[work |-> u.work, exact |-> Exact(w), at |-> u.at] : u \in us}
      BY <1>8, <2>4, <3>2 DEF Account, TypeOK
    <3> HIDE DEF us
    <3>5. Accounted'
      BY <2>1, <3>3, <3>4, AccountedMore DEF Billed
    <3> QED
      BY <2>2, <3>5 DEF Billed
  <2> QED
    BY <1>8, <2>3, <2>4 DEF Account
<1>9. ASSUME Restart
      PROVE  Billed'
  <2>1. Accounted'
    BY <1>1, <1>9 DEF Restart, TypeOK
  <2>2. \A x \in Works : stage'[x] \notin Open
    BY <1>9 DEF Restart, TypeOK
  <2> QED
    BY <2>1, <2>2 DEF Billed, Charged
<1>10. ASSUME UNCHANGED <<usage, spent, writers, tariff>>
       PROVE  Billed'
  <2>1. Accounted'
    BY <1>1, <1>10
  <2>2. Charged'
    BY <1>10 DEF Billed, Charged, Cost
  <2> QED
    BY <2>1, <2>2 DEF Billed
<1> QED
  BY <1>3, <1>4, <1>6, <1>7, <1>8, <1>9, <1>10
  DEF Next, Create, Delete, Check, List, DaysPass, vars

\* The books are right in every state.
LEMMA BilledInvariant == Spec => [](TypeOK /\ Billed)
<1>1. Init => TypeOK /\ Billed
  <2> SUFFICES ASSUME Init
               PROVE  TypeOK /\ Billed
    OBVIOUS
  <2>1. TypeOK
    BY TariffsAssumption DEF Init, TypeOK, NoDraft, Drafts, Open
  <2>2. Billed
    BY FS_EmptySet DEF Init, Billed, Accounted, Charged, Open
  <2> QED
    BY <2>1, <2>2
<1> QED
  BY <1>1, TypeStep, BilledStep, PTL DEF Spec

----------------------------------------------------------------------------
(* What a report tells                                                     *)

\* The rows of a report, and what was spent in its window, one for one.
LEMMA WindowMatches ==
  ASSUME TypeOK, Billed, NEW p \in Reports
  PROVE  \E h : /\ \A u \in InWindow(p) : Matches(u, h[u])
                /\ \A u, v \in InWindow(p) : h[u] = h[v] => u = v
                /\ {h[u] : u \in InWindow(p)} = {s \in spent : s.at >= today - p.days}
<1> DEFINE us == InWindow(p)
           inside == {s \in spent : s.at >= today - p.days}
           h == [u \in us |-> CHOOSE s \in spent : Matches(u, s)]
<1>1. \A u \in us : u \in usage /\ u.at >= today - p.days
  BY DEF InWindow
<1>2. \A u \in us : h[u] \in spent /\ Matches(u, h[u])
  BY <1>1 DEF Billed, Accounted
<1> HIDE DEF h
<1>3. \A u, v \in us : h[u] = h[v] => u = v
  BY <1>1, <1>2 DEF Billed, Accounted, Matches
<1>4. \A u \in us : h[u] \in inside
  BY <1>1, <1>2 DEF Matches
<1>5. ASSUME NEW s \in inside
      PROVE  \E u \in us : s = h[u]
  <2>1. PICK u \in usage : Matches(u, s)
    BY DEF Billed, Accounted
  <2>2. u \in us
    BY <2>1 DEF Matches, InWindow
  <2>3. h[u] = s
    BY <1>2, <2>1, <2>2 DEF Billed, Accounted, Matches
  <2> QED
    BY <2>2, <2>3
<1> QED
  BY <1>2, <1>3, <1>4, <1>5

\* What is added up: the tokens and the costs of rows.
Tokens(us) == [u \in us |-> u.work.input + u.work.output]
Costs(us) == [u \in us |-> u.cost]

\* Rows are finitely many, with numbers of tokens and amounts.
LEMMA WindowType ==
  ASSUME TypeOK, Billed, NEW us \in SUBSET usage
  PROVE  /\ IsFiniteSet(us) /\ IsFiniteSet(Priced(us))
         /\ IsFiniteSet({u.work.model : u \in us})
         /\ \A u \in us : Tokens(us)[u] \in Int
         /\ \A u \in Priced(us) : u \in us /\ Costs(us)[u] \in Nat
<1>1. IsFiniteSet(us) /\ Priced(us) \in SUBSET us
  BY FS_Subset DEF Priced, Billed, Accounted
<1>2. IsFiniteSet(Priced(us))
  BY <1>1, FS_Subset
<1> DEFINE key == [u \in us |-> u.work.model]
<1>3. {key[u] : u \in us} = {u.work.model : u \in us}
  OBVIOUS
<1> HIDE DEF key
<1>4. IsFiniteSet({key[u] : u \in us})
  BY <1>1, ImageCounts
<1>5. \A u \in us : u.work \in Works /\ u.cost \in Nat \cup {None}
  BY DEF TypeOK, Charges
<1>6. \A u \in us : Tokens(us)[u] \in Int
  <2>1. \A u \in us : u.work.input \in Nat /\ u.work.output \in Nat
    BY <1>5
  <2>2. \A u \in us : Tokens(us)[u] = u.work.input + u.work.output
    BY DEF Tokens
  <2> QED
    BY <2>1, <2>2
<1>7. \A u \in Priced(us) : u \in us /\ Costs(us)[u] \in Nat
  BY <1>5 DEF Costs, Priced
<1> QED
  BY <1>1, <1>2, <1>3, <1>4, <1>6, <1>7

\* A row of the table: the columns of a group.
Group(us, m) == {u \in us : u.work.model = m}
Rejected(us) == {u \in us : u.work.kind = "rejected"}

\* The row of a model in a report, in terms of the ledger rows of that model.
LEMMA RowIs ==
  ASSUME TypeOK, Billed, NEW us \in SUBSET usage, NEW m \in {u.work.model : u \in us}
  PROVE  /\ ByModel(us)[m].requests = Cardinality(Group(us, m))
         /\ ByModel(us)[m].failed = Cardinality(Group(Rejected(us), m))
         /\ ByModel(us)[m].unpriced = Cardinality(Group(us \ Priced(us), m))
         /\ ByModel(us)[m].tokens = SumFunctionOnSet(Tokens(us), Group(us, m))
         /\ ByModel(us)[m].cost = SumFunctionOnSet(Costs(us), Group(Priced(us), m))
         /\ ByModel(us)[m].cost \in Nat
         /\ ByModel(us)[m].rub = Rub(ByModel(us)[m].cost, Rate)
<1> DEFINE group == Group(us, m)
           row == ByModel(us)[m]
           mine == Group(Priced(us), m)
<1>1. row = OfModel(group)
  BY DEF ByModel, Group
<1>2. /\ row.requests = Cardinality(group)
      /\ row.failed = Cardinality({u \in group : u.work.kind = "rejected"})
      /\ row.unpriced = Cardinality(group \ Priced(group))
      /\ row.tokens = SumFunction(Tokens(group))
      /\ row.cost = SumFunction([u \in Priced(group) |-> u.cost])
      /\ row.rub = Rub(row.cost, Rate)
  BY <1>1 DEF OfModel, Tokens
<1>3. /\ {u \in group : u.work.kind = "rejected"} = Group(Rejected(us), m)
      /\ group \ Priced(group) = Group(us \ Priced(us), m)
      /\ Priced(group) = mine
  BY DEF Priced, Group, Rejected
<1>4. /\ IsFiniteSet(us) /\ IsFiniteSet(Priced(us))
      /\ \A u \in Priced(us) : u \in us /\ Costs(us)[u] \in Nat
  BY WindowType
<1>5. IsFiniteSet(group) /\ IsFiniteSet(mine)
  BY <1>4, FS_Subset DEF Group
<1>6. SumFunction(Tokens(group)) = SumFunctionOnSet(Tokens(us), group)
  <2>1. DOMAIN Tokens(group) = group /\ \A u \in group : Tokens(group)[u] = Tokens(us)[u]
    BY DEF Tokens, Group
  <2> HIDE DEF group
  <2> QED
    BY <1>5, <2>1, SumOf, SumSame
<1>7. SumFunction([u \in mine |-> u.cost]) = SumFunctionOnSet(Costs(us), mine)
  <2> DEFINE c == [u \in mine |-> u.cost]
  <2>1. DOMAIN c = mine /\ \A u \in mine : c[u] = Costs(us)[u]
    BY DEF Costs, Priced, Group
  <2> HIDE DEF mine, c
  <2>2. SumFunctionOnSet(c, mine) = SumFunctionOnSet(Costs(us), mine)
    BY <1>5, <2>1, SumSame
  <2>3. SumFunction(c) = SumFunctionOnSet(c, mine)
    BY <2>1, SumOf
  <2> QED
    BY <2>2, <2>3 DEF c
<1>8. SumFunctionOnSet(Costs(us), mine) \in Nat
  <2>1. \A u \in mine : Costs(us)[u] \in Nat /\ Costs(us)[u] \in Int
    BY <1>4 DEF Group
  <2> HIDE DEF mine
  <2> QED
    BY <1>5, <2>1, SumType
<1> QED
  BY <1>2, <1>3, <1>6, <1>7, <1>8

\* The totals of a report are what its rows count and add up to.
LEMMA TotalsAre ==
  ASSUME TypeOK, Billed, NEW p \in Reports
  PROVE  LET us == InWindow(p)
             R  == ReportOf(p)
             models == {u.work.model : u \in us}
         IN  /\ R.byModel = ByModel(us) /\ DOMAIN R.byModel = models /\ IsFiniteSet(models)
             /\ R.requests = Cardinality(us)
             /\ R.failed = Cardinality(Rejected(us))
             /\ R.unpriced = Cardinality(us \ Priced(us))
             /\ R.tokens = SumFunctionOnSet(Tokens(us), us)
             /\ R.cost = SumFunctionOnSet(Costs(us), Priced(us))
             /\ R.cost = SumFunctionOnSet([m \in models |-> ByModel(us)[m].cost], models)
             /\ R.cost \in Nat
             /\ R.rub = Rub(R.cost, Rate)
             /\ R.projected = Projected(R.cost, p.days)
<1> DEFINE us == InWindow(p)
           R == ReportOf(p)
           table == ByModel(us)
           models == {u.work.model : u \in us}
           key == [u \in us |-> u.work.model]
           failed == Rejected(us)
           C == [m \in models |-> table[m].cost]
<1>1. us \in SUBSET usage
  BY DEF InWindow
<1>2. DOMAIN table = models
  BY DEF ByModel
<1>3. /\ R.byModel = table
      /\ R.requests = SumFunction([m \in models |-> table[m].requests])
      /\ R.failed = SumFunction([m \in models |-> table[m].failed])
      /\ R.unpriced = SumFunction([m \in models |-> table[m].unpriced])
      /\ R.tokens = SumFunction([m \in models |-> table[m].tokens])
      /\ R.cost = SumFunction(C)
      /\ R.rub = Rub(R.cost, Rate) /\ R.projected = Projected(R.cost, p.days)
  BY <1>2 DEF ReportOf
<1>4. /\ IsFiniteSet(us) /\ IsFiniteSet(Priced(us)) /\ IsFiniteSet(models)
      /\ \A u \in us : Tokens(us)[u] \in Int
      /\ \A u \in Priced(us) : u \in us /\ Costs(us)[u] \in Nat /\ Costs(us)[u] \in Int
  <2> HIDE DEF us
  <2>1. /\ IsFiniteSet(us) /\ IsFiniteSet(Priced(us)) /\ IsFiniteSet(models)
        /\ \A u \in us : Tokens(us)[u] \in Int
        /\ \A u \in Priced(us) : u \in us /\ Costs(us)[u] \in Nat
    BY <1>1, WindowType
  <2>2. \A n \in Nat : n \in Int
    OBVIOUS
  <2> QED
    BY <2>1, <2>2
<1>5. IsFiniteSet(failed) /\ IsFiniteSet(us \ Priced(us))
  BY <1>4, FS_Subset DEF Rejected
<1>6. \A u \in us : key[u] = u.work.model /\ key[u] \in models
  OBVIOUS
<1>7. ASSUME NEW m \in models
      PROVE  /\ table[m].requests = Cardinality({u \in us : key[u] = m})
             /\ table[m].failed = Cardinality({u \in failed : key[u] = m})
             /\ table[m].unpriced = Cardinality({u \in us \ Priced(us) : key[u] = m})
             /\ table[m].tokens = SumFunctionOnSet(Tokens(us), {u \in us : key[u] = m})
             /\ table[m].cost = SumFunctionOnSet(Costs(us), {u \in Priced(us) : key[u] = m})
  <2>1. \A S \in SUBSET us : Group(S, m) = {u \in S : key[u] = m}
    BY <1>6 DEF Group
  <2>2. failed \in SUBSET us /\ Priced(us) \in SUBSET us
    BY DEF Rejected, Priced
  <2>3. m \in {u.work.model : u \in us}
    OBVIOUS
  <2> HIDE DEF key, us, models, C, R
  <2>4. /\ table[m].requests = Cardinality(Group(us, m))
        /\ table[m].failed = Cardinality(Group(failed, m))
        /\ table[m].unpriced = Cardinality(Group(us \ Priced(us), m))
        /\ table[m].tokens = SumFunctionOnSet(Tokens(us), Group(us, m))
        /\ table[m].cost = SumFunctionOnSet(Costs(us), Group(Priced(us), m))
    BY <1>1, <2>3, RowIs
  <2> HIDE DEF table, failed
  <2> QED
    BY <2>1, <2>2, <2>4
<1> HIDE DEF table, key, models, us, failed
<1>8. R.requests = Cardinality(us)
  <2> DEFINE by == [m \in models |-> table[m].requests]
  <2>1. DOMAIN by = models /\ \A m \in models : by[m] = Cardinality({u \in us : key[u] = m})
    BY <1>7
  <2> HIDE DEF by
  <2>2. IsFiniteSet(us) /\ IsFiniteSet(models) /\ \A u \in us : key[u] \in models
    BY <1>4, <1>6
  <2>3. SumFunction(by) = Cardinality(us)
    BY <2>1, <2>2, CountGroups
  <2> QED
    BY <1>3, <2>3 DEF by
<1>9. R.failed = Cardinality(failed)
  <2> DEFINE by == [m \in models |-> table[m].failed]
  <2>1. DOMAIN by = models /\ \A m \in models : by[m] = Cardinality({u \in failed : key[u] = m})
    BY <1>7
  <2>2. \A u \in failed : key[u] \in models
    BY <1>6 DEF failed, Rejected
  <2> HIDE DEF by
  <2>3. SumFunction(by) = Cardinality(failed)
    BY <1>4, <1>5, <2>1, <2>2, CountGroups
  <2> QED
    BY <1>3, <2>3 DEF by
<1>10. R.unpriced = Cardinality(us \ Priced(us))
  <2> DEFINE by == [m \in models |-> table[m].unpriced]
             rest == us \ Priced(us)
  <2>1. DOMAIN by = models /\ \A m \in models : by[m] = Cardinality({u \in rest : key[u] = m})
    BY <1>7
  <2>2. \A u \in rest : key[u] \in models
    BY <1>6
  <2> HIDE DEF by, rest
  <2>3. SumFunction(by) = Cardinality(rest)
    BY <1>4, <1>5, <2>1, <2>2, CountGroups DEF rest
  <2> QED
    BY <1>3, <2>3 DEF by, rest
<1>11. R.tokens = SumFunctionOnSet(Tokens(us), us)
  <2> DEFINE by == [m \in models |-> table[m].tokens]
  <2>1. /\ DOMAIN by = models
        /\ \A m \in models : by[m] = SumFunctionOnSet(Tokens(us), {u \in us : key[u] = m})
    BY <1>7
  <2> HIDE DEF by
  <2>2. SumFunction(by) = SumFunctionOnSet(Tokens(us), us)
    BY <1>4, <1>6, <2>1, TableSums
  <2> QED
    BY <1>3, <2>2 DEF by
<1>12. R.cost = SumFunctionOnSet(Costs(us), Priced(us))
  <2>1. /\ DOMAIN C = models
        /\ \A m \in models : C[m] = SumFunctionOnSet(Costs(us), {u \in Priced(us) : key[u] = m})
    BY <1>7
  <2>2. \A u \in Priced(us) : key[u] \in models
    BY <1>4, <1>6
  <2> HIDE DEF C
  <2>3. SumFunction(C) = SumFunctionOnSet(Costs(us), Priced(us))
    BY <1>4, <2>1, <2>2, TableSums
  <2> QED
    BY <1>3, <2>3
<1>13. R.cost \in Nat
  BY <1>4, <1>12, SumType
<1>14. R.cost = SumFunctionOnSet(C, models)
  BY <1>3, SumOf
<1> QED
  BY <1>2, <1>3, <1>4, <1>8, <1>9, <1>10, <1>11, <1>12, <1>13, <1>14
  DEF table, models, us, failed

\* A sum in roubles is off by at most half a unit.
LEMMA RubIsNear ==
  ASSUME NEW usd \in Nat
  PROVE  /\ Rub(usd, Rate) \in Nat
         /\ 10000 * Rub(usd, Rate) - Rate * usd <= 5000
         /\ Rate * usd - 10000 * Rub(usd, Rate) <= 5000
         /\ Rate * usd \in Int
<1> DEFINE x == usd * Rate
<1>1. x \in Nat /\ Rate * usd = x
  BY TariffsAssumption
<1> HIDE DEF x
<1>2. /\ RoundHalfEven(x, 10000) \in Nat
      /\ 2 * (10000 * RoundHalfEven(x, 10000) - x) <= 10000
      /\ 2 * (x - 10000 * RoundHalfEven(x, 10000)) <= 10000
  BY <1>1, HalfEvenIsNearest
<1>3. Rub(usd, Rate) = RoundHalfEven(x, 10000)
  BY DEF Rub, x
<1> QED
  BY <1>1, <1>2, <1>3

\* The rouble total is near the sum of the roubles of the models.
LEMMA RubTotal ==
  ASSUME NEW M, IsFiniteSet(M), NEW cost, \A m \in M : cost[m] \in Nat,
         NEW rub, \A m \in M : rub[m] = Rub(cost[m], Rate)
  PROVE  /\ SumFunctionOnSet(rub, M) \in Int
         /\ 2 * Abs(Rub(SumFunctionOnSet(cost, M), Rate) - SumFunctionOnSet(rub, M))
              <= Cardinality(M) + 1
<1> DEFINE C == SumFunctionOnSet(cost, M)
           S == SumFunctionOnSet(rub, M)
           n == Cardinality(M)
           r == Rub(C, Rate)
           x == Rate * C
           unit == 10000
           half == 5000
<1>1. \A m \in M : /\ cost[m] \in Int /\ rub[m] \in Int
                   /\ unit * rub[m] - Rate * cost[m] <= half
                   /\ Rate * cost[m] - unit * rub[m] <= half
  BY RubIsNear
<1>2. Rate \in Int /\ unit \in Int /\ half \in Int
  BY TariffsAssumption
<1> HIDE DEF unit, half
<1>3. unit * S - Rate * C <= half * n /\ Rate * C - unit * S <= half * n
  BY <1>1, <1>2, SumClose
<1>4. 10000 * S - Rate * C <= 5000 * n /\ Rate * C - 10000 * S <= 5000 * n
  BY <1>3 DEF unit, half
<1>5. C \in Nat /\ S \in Int
  BY <1>1, SumType
<1>6. n \in Nat
  BY FS_CardinalityType
<1> HIDE DEF C, S, n, r
<1>7. /\ r \in Nat /\ 10000 * r - Rate * C <= 5000
      /\ Rate * C - 10000 * r <= 5000
  BY <1>5, RubIsNear DEF r
<1>8. x \in Int /\ Rate * C = x
  BY <1>2, <1>5
<1> HIDE DEF x
<1>9. 2 * (r - S) <= n + 1 /\ 2 * (S - r) <= n + 1
  BY <1>4, <1>5, <1>6, <1>7, <1>8
<1>10. 2 * Abs(r - S) <= n + 1
  BY <1>5, <1>7, <1>9 DEF Abs
<1> QED
  BY <1>5, <1>10 DEF C, S, n, r

\* What a report tells of the ledger is what was spent.
LEMMA LedgerTells ==
  ASSUME TypeOK, Billed, NEW p \in Reports
  PROVE  LET us     == InWindow(p)
             inside == {s \in spent : s.at >= today - p.days}
             priced == {s \in inside : s.exact # None}
             exact  == SumFunction([s \in priced |-> s.exact])
             C      == SumFunctionOnSet(Costs(us), Priced(us))
         IN  /\ Cardinality(us) = Cardinality(inside)
             /\ Cardinality(us \ Priced(us)) = Cardinality(inside \ priced)
             /\ Cardinality(Rejected(us)) = Cardinality({s \in inside : s.work.kind = "rejected"})
             /\ SumFunctionOnSet(Tokens(us), us)
                  = SumFunction([s \in inside |-> s.work.input + s.work.output])
             /\ Abs(10 * C - exact) <= 5 * Cardinality(priced)
<1> DEFINE us == InWindow(p)
           inside == {s \in spent : s.at >= today - p.days}
           priced == {s \in inside : s.exact # None}
           exactly == [s \in priced |-> s.exact]
           C == SumFunctionOnSet(Costs(us), Priced(us))
           E == SumFunctionOnSet(exactly, priced)
           n == Cardinality(priced)
<1>1. us \in SUBSET usage
  BY DEF InWindow
<1>2. PICK h : /\ \A u \in us : Matches(u, h[u])
               /\ \A u, v \in us : h[u] = h[v] => u = v
               /\ {h[u] : u \in us} = inside
  BY WindowMatches
<1>3. \A s \in inside : s.exact \in Nat \cup {None}
  BY DEF TypeOK
<1> HIDE DEF us, inside
<1>4. /\ IsFiniteSet(us) /\ IsFiniteSet(Priced(us))
      /\ \A u \in us : Tokens(us)[u] \in Int
      /\ \A u \in Priced(us) : u \in us /\ Costs(us)[u] \in Nat
  BY <1>1, WindowType
<1>5. \A u \in us : /\ h[u] \in inside /\ h[u].work = u.work
                    /\ h[u].exact = None <=> u.cost = None
  BY <1>2 DEF Matches
<1>6. ASSUME NEW S \in SUBSET us, NEW T, T = {h[u] : u \in S}
      PROVE  Cardinality(S) = Cardinality(T)
  <2>1. IsFiniteSet(S) /\ \A u, v \in S : h[u] = h[v] => u = v
    BY <1>2, <1>4, FS_Subset
  <2>2. Cardinality({h[u] : u \in S}) = Cardinality(S)
    BY <2>1, ImageCounts
  <2> QED
    BY <1>6, <2>2
<1>7. Cardinality(us) = Cardinality(inside)
  BY <1>2, <1>6
<1>8. Cardinality(us \ Priced(us)) = Cardinality(inside \ priced)
  <2>1. inside \ priced = {h[u] : u \in us \ Priced(us)}
    BY <1>2, <1>5 DEF Priced
  <2> QED
    BY <1>6, <2>1
<1>9. Cardinality(Rejected(us)) = Cardinality({s \in inside : s.work.kind = "rejected"})
  <2>1. {s \in inside : s.work.kind = "rejected"} = {h[u] : u \in Rejected(us)}
    BY <1>2, <1>5 DEF Rejected
  <2>2. Rejected(us) \in SUBSET us
    BY DEF Rejected
  <2> QED
    BY <1>6, <2>1, <2>2
<1>10. {h[u] : u \in Priced(us)} = priced
  BY <1>2, <1>5 DEF Priced
<1>11. Priced(us) \in SUBSET us
  BY DEF Priced
<1>12. Cardinality(Priced(us)) = n
  BY <1>6, <1>10, <1>11
<1>13. SumFunctionOnSet(Tokens(us), us)
         = SumFunction([s \in inside |-> s.work.input + s.work.output])
  <2> DEFINE f == [s \in inside |-> s.work.input + s.work.output]
  <2>1. \A u \in us : f[h[u]] = Tokens(us)[u]
    BY <1>5 DEF Tokens
  <2>2. DOMAIN f = inside
    OBVIOUS
  <2> HIDE DEF f
  <2>3. SumFunctionOnSet(f, {h[u] : u \in us}) = SumFunctionOnSet(Tokens(us), us)
    BY <1>2, <1>4, <2>1, SumRenamed
  <2>4. SumFunction(f) = SumFunctionOnSet(f, inside)
    BY <2>2, SumOf
  <2> QED
    BY <1>2, <2>3, <2>4 DEF f
<1> DEFINE g == [u \in Priced(us) |-> h[u].exact]
           ten == 10
           five == 5
           one == 1
<1>14. \A u \in Priced(us) : /\ h[u] \in priced /\ exactly[h[u]] = g[u] /\ g[u] \in Int
                             /\ Costs(us)[u] \in Int
                             /\ ten * Costs(us)[u] - one * g[u] <= five
                             /\ one * g[u] - ten * Costs(us)[u] <= five
  <2> SUFFICES ASSUME NEW u \in Priced(us)
               PROVE  /\ h[u] \in priced /\ exactly[h[u]] = g[u] /\ g[u] \in Int
                      /\ Costs(us)[u] \in Int
                      /\ ten * Costs(us)[u] - one * g[u] <= five
                      /\ one * g[u] - ten * Costs(us)[u] <= five
    OBVIOUS
  <2>1. /\ u \in us /\ u.cost # None /\ Costs(us)[u] = u.cost /\ u.cost \in Nat
        /\ h[u] \in priced
    BY <1>4, <1>5 DEF Priced, Costs
  <2>2. h[u].exact \in Nat /\ 10 * u.cost - h[u].exact <= 5 /\ h[u].exact - 10 * u.cost <= 5
    BY <1>2, <1>3, <2>1 DEF Matches
  <2>3. g[u] = h[u].exact /\ exactly[h[u]] = h[u].exact
    BY <2>1
  <2> QED
    BY <2>1, <2>2, <2>3
<1> HIDE DEF g, priced, exactly, ten, five, one
<1>15. E = SumFunctionOnSet(g, Priced(us))
  <2>1. \A u, v \in Priced(us) : h[u] = h[v] => u = v
    BY <1>2, <1>11
  <2>2. SumFunctionOnSet(exactly, {h[u] : u \in Priced(us)}) = SumFunctionOnSet(g, Priced(us))
    BY <1>4, <1>14, <2>1, SumRenamed
  <2> QED
    BY <1>10, <2>2
<1>16. E \in Int /\ C \in Int
  BY <1>4, <1>14, <1>15, SumType
<1>17. ten \in Int /\ one \in Int /\ five \in Int
  BY DEF ten, one, five
<1>18. ten * C - one * E <= five * n /\ one * E - ten * C <= five * n
  BY <1>4, <1>12, <1>14, <1>15, <1>17, SumClose
<1>19. n \in Nat
  BY <1>4, <1>12, FS_CardinalityType
<1> HIDE DEF C, E, n
<1>20. Abs(10 * C - E) <= 5 * n
  BY <1>16, <1>18, <1>19 DEF Abs, ten, one, five
<1>21. SumFunction(exactly) = E
  BY SumOf DEF E, exactly
<1> QED
  BY <1>7, <1>8, <1>9, <1>13, <1>20, <1>21 DEF us, inside, priced, exactly, C, n

\* Every report tells every request of its window, with its price to half a unit
\* of the ledger, and its totals agree up to their rounding.
THEOREM ReportsCorrect == Spec => []ReportsTellTheSpending
<1>1. TypeOK /\ Billed => ReportsTellTheSpending
  <2> SUFFICES ASSUME TypeOK, Billed, NEW p \in Reports
               PROVE  LET R      == ReportOf(p)
                          inside == {s \in spent : s.at >= today - p.days}
                          priced == {s \in inside : s.exact # None}
                          exact  == SumFunction([s \in priced |-> s.exact])
                          rubs   == SumFunction([m \in DOMAIN R.byModel |-> R.byModel[m].rub])
                      IN  /\ R.requests = Cardinality(inside)
                          /\ R.unpriced = Cardinality(inside \ priced)
                          /\ R.failed = Cardinality({s \in inside : s.work.kind = "rejected"})
                          /\ R.tokens
                               = SumFunction([s \in inside |-> s.work.input + s.work.output])
                          /\ Abs(10 * R.cost - exact) <= 5 * Cardinality(priced)
                          /\ Abs(p.days * R.projected - DaysPerMonth * R.cost) <= 15 * p.days
                          /\ 2 * Abs(R.rub - rubs) <= Cardinality(DOMAIN R.byModel) + 1
    BY DEF ReportsTellTheSpending
  <2> DEFINE us == InWindow(p)
             R == ReportOf(p)
             table == ByModel(us)
             models == {u.work.model : u \in us}
             cost == [m \in models |-> table[m].cost]
             rub == [m \in models |-> table[m].rub]
             C == SumFunctionOnSet(Costs(us), Priced(us))
  <2>1. /\ R.byModel = table /\ DOMAIN R.byModel = models /\ IsFiniteSet(models)
        /\ R.requests = Cardinality(us)
        /\ R.failed = Cardinality(Rejected(us))
        /\ R.unpriced = Cardinality(us \ Priced(us))
        /\ R.tokens = SumFunctionOnSet(Tokens(us), us)
        /\ R.cost = C
        /\ R.cost = SumFunctionOnSet(cost, models)
        /\ R.cost \in Nat
        /\ R.rub = Rub(R.cost, Rate)
        /\ R.projected = Projected(R.cost, p.days)
    BY TotalsAre
  <2>2. \A m \in models : cost[m] \in Nat /\ rub[m] = Rub(cost[m], Rate)
    <3>1. us \in SUBSET usage
      BY DEF InWindow
    <3>2. \A m \in models : table[m].cost \in Nat /\ table[m].rub = Rub(table[m].cost, Rate)
      <4> HIDE DEF us
      <4> QED
        BY <3>1, RowIs
    <3> QED
      BY <3>2
  <2> HIDE DEF R
  <2>3. 2 * Abs(R.rub - SumFunction([m \in DOMAIN R.byModel |-> R.byModel[m].rub]))
          <= Cardinality(DOMAIN R.byModel) + 1
    <3>1. [m \in DOMAIN R.byModel |-> R.byModel[m].rub] = rub /\ DOMAIN rub = models
      BY <2>1
    <3> HIDE DEF rub, cost, models
    <3>2. SumFunction(rub) = SumFunctionOnSet(rub, models)
      BY <3>1, SumOf
    <3>3. 2 * Abs(Rub(SumFunctionOnSet(cost, models), Rate) - SumFunctionOnSet(rub, models))
            <= Cardinality(models) + 1
      BY <2>1, <2>2, RubTotal
    <3> QED
      BY <2>1, <3>1, <3>2, <3>3
  <2>4. Abs(p.days * R.projected - DaysPerMonth * R.cost) <= 15 * p.days
    <3> DEFINE a == p.days * R.projected
               b == DaysPerMonth * R.cost
    <3>1. p.days \in Nat \ {0}
      BY ReportsAssumption
    <3>2. a - b <= 15 * p.days /\ b - a <= 15 * p.days
      BY <2>1, <3>1, ProjectionIsNear
    <3>3. Projected(R.cost, p.days) \in Nat
      <4>1. RoundHalfEven(R.cost, p.days) \in Nat
        BY <2>1, <3>1, HalfEvenIsNearest
      <4> QED
        BY <4>1 DEF Projected, DailyAverage, DaysPerMonth
    <3>4. a \in Int /\ b \in Int
      BY <2>1, <3>1, <3>3 DEF DaysPerMonth
    <3> HIDE DEF a, b
    <3>5. Abs(a - b) <= 15 * p.days
      BY <3>2, <3>4 DEF Abs
    <3> QED
      BY <3>5 DEF a, b
  <2> DEFINE inside == {s \in spent : s.at >= today - p.days}
             priced == {s \in inside : s.exact # None}
             exact == SumFunction([s \in priced |-> s.exact])
  <2>5. /\ Cardinality(us) = Cardinality(inside)
        /\ Cardinality(us \ Priced(us)) = Cardinality(inside \ priced)
        /\ Cardinality(Rejected(us)) = Cardinality({s \in inside : s.work.kind = "rejected"})
        /\ SumFunctionOnSet(Tokens(us), us)
             = SumFunction([s \in inside |-> s.work.input + s.work.output])
        /\ Abs(10 * C - exact) <= 5 * Cardinality(priced)
    BY LedgerTells
  <2> HIDE DEF us, C
  <2>6. /\ R.requests = Cardinality(inside)
        /\ R.unpriced = Cardinality(inside \ priced)
        /\ R.failed = Cardinality({s \in inside : s.work.kind = "rejected"})
        /\ R.tokens = SumFunction([s \in inside |-> s.work.input + s.work.output])
        /\ Abs(10 * R.cost - exact) <= 5 * Cardinality(priced)
    <3> HIDE DEF inside, priced, exact
    <3> QED
      BY <2>1, <2>5
  <2> QED
    BY <2>3, <2>4, <2>6 DEF R
<1> QED
  BY <1>1, BilledInvariant, PTL

=============================================================================
