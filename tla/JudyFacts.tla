------------------------------ MODULE JudyFacts ------------------------------
(***************************************************************************)
(* Facts the proofs of several modules rest on: induction over numbers and *)
(* finite sets, sums, and strings cut into words of W characters, the      *)
(* paths of the trees of JudySL and JudyHS.                                *)
(***************************************************************************)
EXTENDS Integers, Sequences, FiniteSets, Functions, SequenceTheorems, FiniteSetTheorems, TLAPS

-----------------------------------------------------------------------------
(* Induction.  A set stands for the predicate to be proved, since no       *)
(* prover here is given one as an operator.                                *)

\* A set of naturals that is not empty has a least one.
LEMMA Least ==
    ASSUME NEW P \in SUBSET Nat, NEW n \in P
    PROVE  \E x \in P : \A y \in P : x <= y
  <1> DEFINE R == {r \in Nat \X Nat : r[1] < r[2]}
  <1>1. IsWellFoundedOn(R, Nat)
    BY NatLessThanWellFounded DEF OpToRel
  <1>2. PICK x \in P : \A y \in P : <<y, x>> \notin R
    BY <1>1, WFMin
  <1>3. \A y \in P : ~(y < x)
    BY <1>2
  <1>4. \A y \in P : y \in Nat
    OBVIOUS
  <1> QED
    BY <1>3, <1>4

\* Induction up to n.
LEMMA UpTo ==
    ASSUME NEW P, NEW n \in Nat, 0 \in P, \A m \in 0..(n - 1) : m \in P => m + 1 \in P
    PROVE  \A m \in 0..n : m \in P
  <1> SUFFICES ASSUME NEW i \in 0..n, i \notin P PROVE FALSE
    OBVIOUS
  <1> DEFINE Q == {m \in 0..n : m \notin P}
  <1>1. i \in Q /\ Q \in SUBSET Nat
    OBVIOUS
  <1>2. PICK x \in Q : \A y \in Q : x <= y
    BY <1>1, Least
  <1>3. x \in 0..n /\ x \notin P /\ x # 0
    BY <1>2
  <1>4. x - 1 \in 0..(n - 1) /\ x - 1 \in 0..n /\ ~(x <= x - 1)
    BY <1>3
  <1>5. x - 1 \in P
    BY <1>2, <1>4
  <1> QED
    BY <1>3, <1>4, <1>5

\* Induction over the subsets of a finite set, an element at a time.
LEMMA OneByOne ==
    ASSUME NEW S, IsFiniteSet(S), NEW P, {} \in P,
           \A T \in SUBSET S : \A x \in S : x \notin T /\ T \in P => T \cup {x} \in P
    PROVE  S \in P
  <1> DEFINE Q == {m \in Nat : \A T \in SUBSET S : Cardinality(T) = m => T \in P}
  <1>1. \A T \in SUBSET S : IsFiniteSet(T) /\ Cardinality(T) \in Nat
    BY FS_Subset, FS_CardinalityType
  <1>2. 0 \in Q
    BY <1>1, FS_EmptySet
  <1>3. ASSUME NEW m \in Nat, m \in Q PROVE m + 1 \in Q
    <2> SUFFICES ASSUME NEW T \in SUBSET S, Cardinality(T) = m + 1 PROVE T \in P
      OBVIOUS
    <2>1. PICK x \in T : TRUE
      BY <1>1, FS_EmptySet
    <2>2. Cardinality(T \ {x}) = m /\ T \ {x} \in SUBSET S
      <3>1. Cardinality(T \ {x}) = Cardinality(T) - 1
        BY <1>1, <2>1, FS_RemoveElement
      <3> QED
        BY <3>1
    <2>3. T \ {x} \in P
      BY <1>3, <2>2
    <2>4. T = (T \ {x}) \cup {x} /\ x \in S /\ x \notin T \ {x}
      BY <2>1
    <2> QED
      BY <2>2, <2>3, <2>4
  <1>4. Cardinality(S) \in Nat /\ S \in SUBSET S
    BY <1>1
  <1> HIDE DEF Q
  <1>5. Cardinality(S) \in 0..Cardinality(S)
    BY <1>4
  <1>6. Cardinality(S) \in Q
    BY <1>2, <1>3, <1>4, <1>5, UpTo
  <1> QED
    BY <1>4, <1>6 DEF Q

-----------------------------------------------------------------------------
(* Sums: what a fold of the library computes *)

First(s) == CHOOSE x \in s : TRUE

\* g adds up f over every set of D.
Adds(g, f, D) ==
    \A s \in D : g[s] = IF s = {} THEN 0 ELSE f[First(s)] + g[s \ {First(s)}]

LEMMA FirstIn ==
    ASSUME NEW s, s # {}
    PROVE  First(s) \in s
  BY DEF First

\* There is such a function on the subsets of a finite set,
LEMMA AddsExists ==
    ASSUME NEW S, IsFiniteSet(S), NEW f, \A x \in S : f[x] \in Int
    PROVE  \E g \in [SUBSET S -> Int] : Adds(g, f, SUBSET S)
  <1> DEFINE D(n) == {s \in SUBSET S : Cardinality(s) <= n}
             P == {n \in Nat : \E g \in [D(n) -> Int] : Adds(g, f, D(n))}
  <1>1. \A s \in SUBSET S : IsFiniteSet(s) /\ Cardinality(s) \in Nat
    BY FS_Subset, FS_CardinalityType
  <1>2. ASSUME NEW s \in SUBSET S, s # {}
        PROVE  /\ First(s) \in S /\ s \ {First(s)} \in SUBSET S
               /\ Cardinality(s \ {First(s)}) = Cardinality(s) - 1
    BY <1>1, <1>2, FirstIn, FS_RemoveElement
  <1>3. 0 \in P
    <2> DEFINE g == [s \in D(0) |-> 0]
    <2>1. \A s \in D(0) : s = {}
      BY <1>1, FS_EmptySet
    <2>2. g \in [D(0) -> Int] /\ Adds(g, f, D(0))
      BY <2>1 DEF Adds
    <2> QED
      BY <2>2
  <1>4. ASSUME NEW n \in Nat, n \in P PROVE n + 1 \in P
    <2>1. PICK g \in [D(n) -> Int] : Adds(g, f, D(n))
      BY <1>4
    <2> DEFINE h == [s \in D(n + 1) |->
                        IF Cardinality(s) <= n THEN g[s] ELSE f[First(s)] + g[s \ {First(s)}]]
    <2>2. ASSUME NEW s \in D(n + 1), s # {}
          PROVE  /\ First(s) \in S /\ s \ {First(s)} \in D(n)
                 /\ f[First(s)] \in Int /\ g[s \ {First(s)}] \in Int
                 /\ h[s \ {First(s)}] = g[s \ {First(s)}]
      <3>1. /\ First(s) \in S /\ s \ {First(s)} \in SUBSET S
            /\ Cardinality(s \ {First(s)}) = Cardinality(s) - 1
        BY <1>2, <2>2
      <3>2. Cardinality(s \ {First(s)}) <= n /\ Cardinality(s \ {First(s)}) <= n + 1
        BY <1>1, <3>1
      <3> QED
        BY <3>1, <3>2
    <2>3. \A s \in D(n + 1) : Cardinality(s) <= n => s \in D(n)
      OBVIOUS
    <2>4. \A s \in D(n + 1) : ~(Cardinality(s) <= n) => s # {}
      <3>1. Cardinality({}) = 0 /\ 0 <= n
        BY FS_EmptySet
      <3> QED
        BY <3>1
    <2>5. h \in [D(n + 1) -> Int]
      <3>1. ASSUME NEW s \in D(n + 1)
            PROVE  (IF Cardinality(s) <= n THEN g[s] ELSE f[First(s)] + g[s \ {First(s)}]) \in Int
        <4>1. CASE Cardinality(s) <= n
          BY <2>1, <2>3, <4>1
        <4>2. CASE ~(Cardinality(s) <= n)
          <5>1. f[First(s)] \in Int /\ g[s \ {First(s)}] \in Int
            BY <2>2, <2>4, <4>2
          <5> QED
            BY <4>2, <5>1
        <4> QED
          BY <4>1, <4>2
      <3> HIDE DEF D
      <3> QED
        BY <3>1
    <2>6. Adds(h, f, D(n + 1))
      <3> SUFFICES ASSUME NEW s \in D(n + 1)
                   PROVE  h[s] = IF s = {} THEN 0 ELSE f[First(s)] + h[s \ {First(s)}]
        BY DEF Adds
      <3>1. CASE Cardinality(s) <= n
        BY <2>1, <2>2, <2>3, <3>1 DEF Adds
      <3>2. CASE ~(Cardinality(s) <= n)
        BY <2>2, <2>4, <3>2
      <3> QED
        BY <3>1, <3>2
    <2>7. n + 1 \in Nat
      OBVIOUS
    <2> HIDE DEF h, D
    <2> QED
      BY <2>5, <2>6, <2>7
  <1> DEFINE c == Cardinality(S)
  <1>5. c \in Nat
    BY <1>1
  <1>6. c \in P
    <2> HIDE DEF P, c
    <2> QED
      BY <1>3, <1>4, <1>5, UpTo
  <1>7. D(c) = SUBSET S
    BY FS_Subset
  <1> QED
    BY <1>6, <1>7

\* and no other.
LEMMA AddsUnique ==
    ASSUME NEW S, IsFiniteSet(S), NEW T \in SUBSET S, NEW f, NEW g, NEW h,
           Adds(g, f, SUBSET S), Adds(h, f, SUBSET T)
    PROVE  g[T] = h[T]
  <1> DEFINE P == {n \in Nat : \A s \in SUBSET T : Cardinality(s) = n => g[s] = h[s]}
  <1>1. \A s \in SUBSET T : IsFiniteSet(s) /\ Cardinality(s) \in Nat /\ s \in SUBSET S
    BY FS_Subset, FS_CardinalityType
  <1>2. 0 \in P
    BY <1>1, FS_EmptySet DEF Adds
  <1>3. ASSUME NEW n \in Nat, n \in P PROVE n + 1 \in P
    <2> SUFFICES ASSUME NEW s \in SUBSET T, Cardinality(s) = n + 1 PROVE g[s] = h[s]
      OBVIOUS
    <2>1. s # {}
      <3>1. Cardinality({}) = 0 /\ n + 1 # 0
        BY FS_EmptySet
      <3> QED
        BY <3>1
    <2>2. Cardinality(s \ {First(s)}) = Cardinality(s) - 1 /\ s \ {First(s)} \in SUBSET T
      BY <1>1, <2>1, FirstIn, FS_RemoveElement
    <2>3. g[s \ {First(s)}] = h[s \ {First(s)}]
      <3>1. Cardinality(s \ {First(s)}) = n
        BY <2>2
      <3> QED
        BY <1>3, <2>2, <3>1
    <2> QED
      BY <1>1, <2>1, <2>3 DEF Adds
  <1>4. Cardinality(T) \in Nat
    BY <1>1
  <1> HIDE DEF P
  <1>5. Cardinality(T) \in P
    BY <1>2, <1>3, <1>4, UpTo
  <1> QED
    BY <1>5 DEF P

\* The sum of the library is one.
LEMMA SumAdds ==
    ASSUME NEW S, IsFiniteSet(S), NEW f, \A x \in S : f[x] \in Int
    PROVE  \E g \in [SUBSET S -> Int] :
              Adds(g, f, SUBSET S) /\ \A T \in SUBSET S : g[T] = SumFunctionOnSet(f, T)
  <1>1. PICK g \in [SUBSET S -> Int] : Adds(g, f, SUBSET S)
    BY AddsExists
  <1>2. ASSUME NEW T \in SUBSET S PROVE g[T] = SumFunctionOnSet(f, T)
    <2> DEFINE Iter(h) == h = [s \in SUBSET T |->
                    IF s = {} THEN 0 ELSE f[First(s)] + h[s \ {First(s)}]]
               iter == CHOOSE h : Iter(h)
    <2>1. SumFunctionOnSet(f, T) = iter[T]
      BY DEF SumFunctionOnSet, FoldFunctionOnSet, MapThenFoldSet, First
    <2>2. IsFiniteSet(T) /\ \A x \in T : f[x] \in Int
      BY FS_Subset
    <2>3. PICK h \in [SUBSET T -> Int] : Adds(h, f, SUBSET T)
      BY <2>2, AddsExists
    <2>4. Iter(h)
      BY <2>3 DEF Adds
    <2>5. Iter(iter)
      BY <2>4
    <2>6. Adds(iter, f, SUBSET T)
      <3> HIDE DEF iter
      <3> QED
        BY <2>5 DEF Adds
    <2> HIDE DEF iter
    <2> QED
      BY <1>1, <2>1, <2>6, AddsUnique
  <1> QED
    BY <1>1, <1>2

LEMMA SumNone == \A f : SumFunctionOnSet(f, {}) = 0
  <1> SUFFICES ASSUME NEW f PROVE SumFunctionOnSet(f, {}) = 0
    OBVIOUS
  <1>1. IsFiniteSet({}) /\ \A x \in {} : f[x] \in Int
    BY FS_EmptySet
  <1>2. PICK g \in [SUBSET {} -> Int] :
              Adds(g, f, SUBSET {}) /\ \A T \in SUBSET {} : g[T] = SumFunctionOnSet(f, T)
    BY <1>1, SumAdds
  <1> QED
    BY <1>2 DEF Adds

\* Whichever element is taken first.
LEMMA SumLess ==
    ASSUME NEW S, IsFiniteSet(S), NEW f, \A x \in S : f[x] \in Int, NEW x \in S
    PROVE  /\ SumFunctionOnSet(f, S) \in Int
           /\ SumFunctionOnSet(f, S \ {x}) \in Int
           /\ SumFunctionOnSet(f, S) = f[x] + SumFunctionOnSet(f, S \ {x})
  <1>1. PICK g \in [SUBSET S -> Int] :
              Adds(g, f, SUBSET S) /\ \A T \in SUBSET S : g[T] = SumFunctionOnSet(f, T)
    BY SumAdds
  <1> DEFINE P == {n \in Nat : \A s \in SUBSET S : \A y \in s :
                      Cardinality(s) = n => g[s] = f[y] + g[s \ {y}]}
  <1>2. \A s \in SUBSET S : IsFiniteSet(s) /\ Cardinality(s) \in Nat
    BY FS_Subset, FS_CardinalityType
  <1>3. 0 \in P
    BY <1>2, FS_EmptySet
  <1>4. ASSUME NEW n \in Nat, n \in P PROVE n + 1 \in P
    <2> SUFFICES ASSUME NEW s \in SUBSET S, NEW y \in s, Cardinality(s) = n + 1
                 PROVE  g[s] = f[y] + g[s \ {y}]
      OBVIOUS
    <2> DEFINE c == First(s)
               r == (s \ {c}) \ {y}
    <2>1. c \in s
      BY FirstIn
    <2> HIDE DEF c
    <2>2. g[s] = f[c] + g[s \ {c}]
      BY <1>1 DEF Adds, c
    <2>3. /\ f[y] \in Int /\ f[c] \in Int /\ g[r] \in Int
          /\ s \ {c} \in SUBSET S /\ s \ {y} \in SUBSET S
      BY <1>1, <2>1
    <2>4. CASE c = y
      BY <2>2, <2>4
    <2>5. CASE c # y
      <3>1. Cardinality(s \ {c}) = n /\ Cardinality(s \ {y}) = n
        <4>1. Cardinality(s \ {c}) = Cardinality(s) - 1 /\ Cardinality(s \ {y}) = Cardinality(s) - 1
          BY <1>2, <2>1, FS_RemoveElement
        <4> QED
          BY <4>1
      <3>2. g[s \ {c}] = f[y] + g[r]
        <4>1. y \in s \ {c}
          BY <2>5
        <4> QED
          BY <1>4, <2>3, <3>1, <4>1
      <3>3. g[s \ {y}] = f[c] + g[r]
        <4>1. c \in s \ {y} /\ (s \ {y}) \ {c} = r
          BY <2>1, <2>5
        <4> QED
          BY <1>4, <2>3, <3>1, <4>1
      <3> QED
        BY <2>2, <2>3, <3>2, <3>3
    <2> QED
      BY <2>4, <2>5
  <1>5. Cardinality(S) \in Nat
    BY <1>2
  <1>6. Cardinality(S) \in P
    <2> HIDE DEF P
    <2>1. Cardinality(S) \in 0..Cardinality(S)
      BY <1>5
    <2> QED
      BY <1>3, <1>4, <1>5, <2>1, UpTo
  <1>7. g[S] = f[x] + g[S \ {x}]
    BY <1>6
  <1> QED
    BY <1>1, <1>7

LEMMA SumMore ==
    ASSUME NEW S, IsFiniteSet(S), NEW x, x \notin S, NEW f, \A y \in S \cup {x} : f[y] \in Int
    PROVE  /\ SumFunctionOnSet(f, S) \in Int
           /\ SumFunctionOnSet(f, S \cup {x}) = f[x] + SumFunctionOnSet(f, S)
  <1>1. IsFiniteSet(S \cup {x}) /\ (S \cup {x}) \ {x} = S
    BY FS_AddElement
  <1> QED
    BY <1>1, SumLess

LEMMA SumType ==
    ASSUME NEW S, IsFiniteSet(S), NEW f, \A x \in S : f[x] \in Nat
    PROVE  SumFunctionOnSet(f, S) \in Nat
  <1> DEFINE P == {T \in SUBSET S : SumFunctionOnSet(f, T) \in Nat}
  <1>1. {} \in P
    BY SumNone
  <1>2. ASSUME NEW T \in SUBSET S, NEW x \in S, x \notin T, T \in P
        PROVE  T \cup {x} \in P
    <2>1. IsFiniteSet(T) /\ \A y \in T \cup {x} : f[y] \in Int
      BY FS_Subset
    <2>2. SumFunctionOnSet(f, T \cup {x}) = f[x] + SumFunctionOnSet(f, T)
      BY <1>2, <2>1, SumMore
    <2> QED
      BY <1>2, <2>2
  <1> HIDE DEF P
  <1>3. S \in P
    BY <1>1, <1>2, OneByOne
  <1> QED
    BY <1>3 DEF P

LEMMA SumSame ==
    ASSUME NEW S, IsFiniteSet(S), NEW f, NEW g, \A x \in S : f[x] \in Int /\ g[x] = f[x]
    PROVE  SumFunctionOnSet(g, S) = SumFunctionOnSet(f, S)
  <1> DEFINE P == {T \in SUBSET S : SumFunctionOnSet(g, T) = SumFunctionOnSet(f, T)}
  <1>1. {} \in P
    BY SumNone
  <1>2. ASSUME NEW T \in SUBSET S, NEW x \in S, x \notin T, T \in P
        PROVE  T \cup {x} \in P
    <2>1. IsFiniteSet(T) /\ \A y \in T \cup {x} : f[y] \in Int /\ g[y] \in Int
      BY FS_Subset
    <2>2. /\ SumFunctionOnSet(f, T \cup {x}) = f[x] + SumFunctionOnSet(f, T)
          /\ SumFunctionOnSet(g, T \cup {x}) = g[x] + SumFunctionOnSet(g, T)
      BY <1>2, <2>1, SumMore
    <2> QED
      BY <1>2, <2>2
  <1> HIDE DEF P
  <1>3. S \in P
    BY <1>1, <1>2, OneByOne
  <1> QED
    BY <1>3 DEF P

LEMMA SumZero ==
    ASSUME NEW S, IsFiniteSet(S), NEW f, \A x \in S : f[x] = 0
    PROVE  SumFunctionOnSet(f, S) = 0
  <1> DEFINE P == {T \in SUBSET S : SumFunctionOnSet(f, T) = 0}
  <1>1. {} \in P
    BY SumNone
  <1>2. ASSUME NEW T \in SUBSET S, NEW x \in S, x \notin T, T \in P
        PROVE  T \cup {x} \in P
    <2>1. IsFiniteSet(T) /\ \A y \in T \cup {x} : f[y] \in Int
      BY FS_Subset
    <2>2. SumFunctionOnSet(f, T \cup {x}) = f[x] + SumFunctionOnSet(f, T)
      BY <1>2, <2>1, SumMore
    <2> QED
      BY <1>2, <2>2
  <1> HIDE DEF P
  <1>3. S \in P
    BY <1>1, <1>2, OneByOne
  <1> QED
    BY <1>3 DEF P

\* One term is another one.
LEMMA SumPut ==
    ASSUME NEW S, IsFiniteSet(S), NEW f, NEW g, NEW x \in S,
           \A y \in S : f[y] \in Int /\ g[y] \in Int /\ (y # x => g[y] = f[y])
    PROVE  SumFunctionOnSet(g, S) = SumFunctionOnSet(f, S) + g[x] - f[x]
  <1>1. /\ SumFunctionOnSet(f, S) = f[x] + SumFunctionOnSet(f, S \ {x})
        /\ SumFunctionOnSet(g, S) = g[x] + SumFunctionOnSet(g, S \ {x})
        /\ SumFunctionOnSet(f, S \ {x}) \in Int
    BY SumLess
  <1>2. SumFunctionOnSet(g, S \ {x}) = SumFunctionOnSet(f, S \ {x})
    <2>1. IsFiniteSet(S \ {x}) /\ \A y \in S \ {x} : f[y] \in Int /\ g[y] = f[y]
      BY FS_RemoveElement
    <2> QED
      BY <2>1, SumSame
  <1>3. f[x] \in Int /\ g[x] \in Int
    OBVIOUS
  <1> QED
    BY <1>1, <1>2, <1>3

\* Two parts.
LEMMA SumParts ==
    ASSUME NEW S, IsFiniteSet(S), NEW R, IsFiniteSet(R), R \cap S = {},
           NEW f, \A x \in R \cup S : f[x] \in Int
    PROVE  SumFunctionOnSet(f, R \cup S) = SumFunctionOnSet(f, R) + SumFunctionOnSet(f, S)
  <1> DEFINE P == {T \in SUBSET S : /\ SumFunctionOnSet(f, R) \in Int
                                   /\ SumFunctionOnSet(f, T) \in Int
                                   /\ SumFunctionOnSet(f, R \cup T) =
                                        SumFunctionOnSet(f, R) + SumFunctionOnSet(f, T)}
  <1>1. {} \in P
    <2>1. SumFunctionOnSet(f, R) \in Int
      <3>1. CASE R = {}
        BY <3>1, SumNone
      <3>2. CASE R # {}
        BY <3>2, SumLess
      <3> QED
        BY <3>1, <3>2
    <2>2. R \cup {} = R
      OBVIOUS
    <2> QED
      BY <2>1, <2>2, SumNone
  <1>2. ASSUME NEW T \in SUBSET S, NEW x \in S, x \notin T, T \in P
        PROVE  T \cup {x} \in P
    <2>1. IsFiniteSet(T) /\ IsFiniteSet(R \cup T)
      BY FS_Subset, FS_Union
    <2>2. x \notin R \cup T /\ f[x] \in Int /\ \A y \in (R \cup T) \cup {x} : f[y] \in Int
      BY <1>2
    <2>3. SumFunctionOnSet(f, T \cup {x}) = f[x] + SumFunctionOnSet(f, T)
      BY <1>2, <2>1, <2>2, SumMore
    <2>4. SumFunctionOnSet(f, (R \cup T) \cup {x}) = f[x] + SumFunctionOnSet(f, R \cup T)
      BY <2>1, <2>2, SumMore
    <2>5. R \cup (T \cup {x}) = (R \cup T) \cup {x}
      OBVIOUS
    <2>6. /\ SumFunctionOnSet(f, R) \in Int /\ SumFunctionOnSet(f, T) \in Int
          /\ SumFunctionOnSet(f, R \cup T) = SumFunctionOnSet(f, R) + SumFunctionOnSet(f, T)
      BY <1>2
    <2>7. /\ SumFunctionOnSet(f, T \cup {x}) \in Int
          /\ SumFunctionOnSet(f, R \cup (T \cup {x})) =
                SumFunctionOnSet(f, R) + SumFunctionOnSet(f, T \cup {x})
      BY <2>2, <2>3, <2>4, <2>5, <2>6
    <2> QED
      BY <2>6, <2>7
  <1> HIDE DEF P
  <1>3. S \in P
    BY <1>1, <1>2, OneByOne
  <1> QED
    BY <1>3 DEF P

\* Terms under other names.
LEMMA SumImage ==
    ASSUME NEW S, IsFiniteSet(S), NEW h, NEW f, NEW g,
           \A x \in S : g[h[x]] = f[x] /\ f[x] \in Int,
           \A x, y \in S : h[x] = h[y] => x = y
    PROVE  SumFunctionOnSet(g, {h[x] : x \in S}) = SumFunctionOnSet(f, S)
  <1> DEFINE P == {T \in SUBSET S :
                      /\ IsFiniteSet({h[x] : x \in T})
                      /\ SumFunctionOnSet(g, {h[x] : x \in T}) = SumFunctionOnSet(f, T)}
  <1>1. {} \in P
    <2>1. {h[x] : x \in {}} = {}
      OBVIOUS
    <2> QED
      BY <2>1, SumNone, FS_EmptySet
  <1>2. ASSUME NEW T \in SUBSET S, NEW y \in S, y \notin T, T \in P
        PROVE  T \cup {y} \in P
    <2> DEFINE H == {h[x] : x \in T}
    <2>1. {h[x] : x \in T \cup {y}} = H \cup {h[y]}
      OBVIOUS
    <2>2. h[y] \notin H /\ \A z \in H \cup {h[y]} : g[z] \in Int
      BY <1>2
    <2>3. IsFiniteSet(H) /\ SumFunctionOnSet(g, H) = SumFunctionOnSet(f, T)
      BY <1>2
    <2>4. IsFiniteSet(T) /\ \A x \in T \cup {y} : f[x] \in Int
      BY FS_Subset
    <2>5. SumFunctionOnSet(f, T \cup {y}) = f[y] + SumFunctionOnSet(f, T)
      BY <1>2, <2>4, SumMore
    <2> HIDE DEF H
    <2>6. SumFunctionOnSet(g, H \cup {h[y]}) = g[h[y]] + SumFunctionOnSet(g, H)
      BY <2>2, <2>3, SumMore
    <2>7. IsFiniteSet(H \cup {h[y]})
      BY <2>3, FS_AddElement
    <2> QED
      BY <2>1, <2>3, <2>5, <2>6, <2>7
  <1> HIDE DEF P
  <1>3. S \in P
    BY <1>1, <1>2, OneByOne
  <1> QED
    BY <1>3 DEF P

\* The size of a union of sets apart from each other.
LEMMA SumSizes ==
    ASSUME NEW S, IsFiniteSet(S), NEW K, NEW f,
           \A x \in S : IsFiniteSet(K[x]) /\ f[x] = Cardinality(K[x]),
           \A x, y \in S : x # y => K[x] \cap K[y] = {},
           NEW V, \A v : v \in V <=> \E x \in S : v \in K[x]
    PROVE  IsFiniteSet(V) /\ SumFunctionOnSet(f, S) = Cardinality(V)
  <1> DEFINE U(T) == UNION {K[x] : x \in T}
             P == {T \in SUBSET S : IsFiniteSet(U(T)) /\ SumFunctionOnSet(f, T) = Cardinality(U(T))}
  <1>1. {} \in P
    <2>1. U({}) = {}
      OBVIOUS
    <2> QED
      BY <2>1, SumNone, FS_EmptySet
  <1>2. ASSUME NEW T \in SUBSET S, NEW y \in S, y \notin T, T \in P
        PROVE  T \cup {y} \in P
    <2>1. U(T \cup {y}) = U(T) \cup K[y] /\ U(T) \cap K[y] = {}
      BY <1>2
    <2>2. IsFiniteSet(U(T)) /\ IsFiniteSet(K[y]) /\ SumFunctionOnSet(f, T) = Cardinality(U(T))
      BY <1>2
    <2>3. IsFiniteSet(T) /\ \A x \in T \cup {y} : f[x] \in Int
      <3>1. \A x \in T \cup {y} : f[x] = Cardinality(K[x]) /\ Cardinality(K[x]) \in Nat
        BY FS_CardinalityType
      <3> QED
        BY <3>1, FS_Subset
    <2>4. SumFunctionOnSet(f, T \cup {y}) = f[y] + SumFunctionOnSet(f, T)
      BY <1>2, <2>3, SumMore
    <2> HIDE DEF U
    <2>5. /\ IsFiniteSet(U(T) \cup K[y]) /\ Cardinality(U(T)) \in Nat /\ Cardinality(K[y]) \in Nat
          /\ Cardinality(U(T) \cup K[y]) = Cardinality(U(T)) + Cardinality(K[y])
      <3>1. Cardinality(U(T) \cup K[y]) =
                Cardinality(U(T)) + Cardinality(K[y]) - Cardinality(U(T) \cap K[y])
        BY <2>2, FS_Union
      <3>2. Cardinality(U(T) \cap K[y]) = 0
        BY <2>1, FS_EmptySet
      <3>3. Cardinality(U(T)) \in Nat /\ Cardinality(K[y]) \in Nat
        BY <2>2, FS_CardinalityType
      <3> QED
        BY <2>2, <3>1, <3>2, <3>3, FS_Union
    <2>6. f[y] = Cardinality(K[y])
      OBVIOUS
    <2>7. IsFiniteSet(U(T \cup {y}))
          /\ SumFunctionOnSet(f, T \cup {y}) = Cardinality(U(T \cup {y}))
      <3>1. IsFiniteSet(U(T) \cup K[y])
        BY <2>5
      <3>2. SumFunctionOnSet(f, T \cup {y}) = Cardinality(U(T) \cup K[y])
        BY <2>2, <2>4, <2>5, <2>6
      <3> QED
        BY <2>1, <3>1, <3>2, Zenon
    <2> QED
      BY <2>7
  <1> HIDE DEF P
  <1>3. S \in P
    BY <1>1, <1>2, OneByOne
  <1>4. V = U(S)
    OBVIOUS
  <1> QED
    BY <1>3, <1>4 DEF P

-----------------------------------------------------------------------------
(* Words of a string *)

\* Multiples of a word are a word apart.
LEMMA Borders ==
    ASSUME NEW W \in Nat \ {0}, NEW m \in Nat, NEW n \in Nat, m % W = 0, n % W = 0, m < n
    PROVE  m + W <= n
  <1> DEFINE i == m \div W
             j == n \div W
  <1>1. i \in Nat /\ j \in Nat
    OBVIOUS
  <1>2. m = W * i /\ n = W * j
    OBVIOUS
  <1>3. i < j
    <2>1. ASSUME j <= i
          PROVE  FALSE
      <3>1. W * (i - j) \in Nat
        BY <1>1, <2>1
      <3>2. W * i = W * j + W * (i - j)
        BY <1>1
      <3> QED
        BY <1>2, <3>1, <3>2
    <2> QED
      BY <1>1, <2>1
  <1>4. W * (j - i - 1) \in Nat
    BY <1>1, <1>3
  <1>5. W * j = W * i + W + W * (j - i - 1)
    BY <1>1
  <1> QED
    BY <1>2, <1>4, <1>5

\* A word further is again a multiple.
LEMMA NextBorder ==
    ASSUME NEW W \in Nat \ {0}, NEW m \in Nat, m % W = 0
    PROVE  (m + W) % W = 0
  <1> DEFINE n == m + W
             i == m \div W
             j == n \div W
             r == n % W
             d == i + 1 - j
  <1>1. i \in Nat /\ j \in Nat /\ d \in Int /\ r \in 0..(W - 1)
    OBVIOUS
  <1>2. m = W * i /\ n = W * j + r
    OBVIOUS
  <1>3. r = W * d
    <2>1. W * d = W * i + W - W * j
      BY <1>1
    <2> QED
      BY <1>1, <1>2, <2>1
  <1>4. ASSUME d > 0
        PROVE  FALSE
    <2>1. W * (d - 1) \in Nat /\ W * d = W + W * (d - 1)
      BY <1>1, <1>4
    <2> QED
      BY <1>1, <1>3, <2>1
  <1>5. ASSUME d < 0
        PROVE  FALSE
    <2>1. W * (-1 - d) \in Nat /\ W * d = - W - W * (-1 - d)
      BY <1>1, <1>5
    <2> QED
      BY <1>1, <1>3, <2>1
  <1>6. d = 0
    BY <1>1, <1>4, <1>5
  <1> HIDE DEF d
  <1> QED
    BY <1>3, <1>6

\* A string with a word more: its parts.
LEMMA ChildParts ==
    ASSUME NEW W \in Nat \ {0}, NEW S, NEW p \in Seq(S), NEW w \in Seq(S), Len(w) = W
    PROVE  /\ p \o w \in Seq(S)
           /\ Len(p \o w) = Len(p) + W
           /\ SubSeq(p \o w, 1, Len(p)) = p
           /\ SubSeq(p \o w, Len(p) + 1, Len(p) + W) = w
           /\ \A m \in 0..Len(p) : SubSeq(p \o w, 1, m) = SubSeq(p, 1, m)
           /\ \A m \in 0..(Len(p) - W) :
                SubSeq(p \o w, m + 1, m + W) = SubSeq(p, m + 1, m + W)
           /\ p \o w # p
  <1> DEFINE c == p \o w
  <1>1. /\ Len(p) \in Nat
        /\ c \in Seq(S) /\ Len(c) = Len(p) + W
        /\ \A i \in 1..Len(c) : c[i] = IF i <= Len(p) THEN p[i] ELSE w[i - Len(p)]
    BY LenProperties, ConcatProperties
  <1>2. /\ \A i \in 1..Len(p) : p[i] \in S
        /\ \A i \in 1..W : w[i] \in S
        /\ \A i \in 1..Len(c) : c[i] \in S
    BY <1>1, ElementOfSeq
  <1>3. ASSUME NEW m \in 0..Len(p), NEW n \in 0..Len(p)
        PROVE  SubSeq(c, m + 1, n) = SubSeq(p, m + 1, n)
    <2>1. /\ SubSeq(c, m + 1, n) \in Seq(S) /\ SubSeq(p, m + 1, n) \in Seq(S)
          /\ Len(SubSeq(c, m + 1, n)) = (IF m + 1 <= n THEN n - m ELSE 0)
          /\ Len(SubSeq(p, m + 1, n)) = (IF m + 1 <= n THEN n - m ELSE 0)
          /\ \A i \in 1..(n - m) : SubSeq(c, m + 1, n)[i] = c[m + i]
          /\ \A i \in 1..(n - m) : SubSeq(p, m + 1, n)[i] = p[m + i]
      BY <1>1, <1>2, SubSeqProperties
    <2>2. \A i \in 1..(n - m) : c[m + i] = p[m + i]
      BY <1>1
    <2> QED
      BY <1>1, <2>1, <2>2, SeqEqual
  <1>4. SubSeq(c, Len(p) + 1, Len(p) + W) = w
    <2>1. /\ SubSeq(c, Len(p) + 1, Len(p) + W) \in Seq(S)
          /\ Len(SubSeq(c, Len(p) + 1, Len(p) + W)) = W
          /\ \A i \in 1..W :
                SubSeq(c, Len(p) + 1, Len(p) + W)[i] = c[Len(p) + i]
      BY <1>1, <1>2, SubSeqProperties
    <2>2. \A i \in 1..W : c[Len(p) + i] = w[i]
      BY <1>1
    <2> QED
      BY <2>1, <2>2, SeqEqual
  <1>5. SubSeq(p, 1, Len(p)) = p
    BY SubSeqFull
  <1>6. \A m \in 0..Len(p) : SubSeq(c, 1, m) = SubSeq(p, 1, m)
    BY <1>1, <1>3
  <1>7. \A m \in 0..(Len(p) - W) :
            SubSeq(c, m + 1, m + W) = SubSeq(p, m + 1, m + W)
    BY <1>1, <1>3
  <1>8. c # p
    BY <1>1
  <1>9. /\ c \in Seq(S) /\ Len(c) = Len(p) + W
        /\ SubSeq(c, 1, Len(p)) = p
    <2>1. Len(p) \in 0..Len(p)
      BY <1>1
    <2> QED
      BY <1>1, <1>5, <1>6, <2>1
  <1> QED
    BY <1>4, <1>6, <1>7, <1>8, <1>9

\* A word in the middle of a string.
LEMMA MiddleWord ==
    ASSUME NEW S, NEW p \in Seq(S), NEW w \in Seq(S), NEW r \in Seq(S)
    PROVE  SubSeq((p \o w) \o r, Len(p) + 1, Len(p) + Len(w)) = w
  <1> DEFINE c == (p \o w) \o r
  <1>1. /\ Len(p) \in Nat /\ Len(w) \in Nat /\ Len(r) \in Nat
        /\ p \o w \in Seq(S) /\ Len(p \o w) = Len(p) + Len(w)
        /\ \A i \in 1..Len(w) : (p \o w)[Len(p) + i] = w[i]
    BY LenProperties, ConcatProperties
  <1>2. /\ c \in Seq(S) /\ Len(c) = Len(p) + Len(w) + Len(r)
        /\ \A i \in 1..(Len(p) + Len(w)) : c[i] = (p \o w)[i]
    BY <1>1, ConcatProperties
  <1>3. \A i \in 1..Len(c) : c[i] \in S
    BY <1>2, ElementOfSeq
  <1> HIDE DEF c
  <1>4. /\ SubSeq(c, Len(p) + 1, Len(p) + Len(w)) \in Seq(S)
        /\ Len(SubSeq(c, Len(p) + 1, Len(p) + Len(w))) = Len(w)
        /\ \A i \in 1..Len(w) : SubSeq(c, Len(p) + 1, Len(p) + Len(w))[i] = c[Len(p) + i]
    BY <1>1, <1>2, <1>3, SubSeqProperties
  <1>5. \A i \in 1..Len(w) : c[Len(p) + i] = w[i]
    BY <1>1, <1>2
  <1> QED
    BY <1>4, <1>5, SeqEqual DEF c


\* A number is its whole words and what remains.
LEMMA Quotient ==
    ASSUME NEW W \in Nat \ {0}, NEW m \in Nat
    PROVE  /\ m \div W \in Nat /\ m % W \in 0..(W - 1)
           /\ m = W * (m \div W) + (m % W)
  OBVIOUS

\* Whole words are whole again when cut.
LEMMA WholeWords ==
    ASSUME NEW W \in Nat \ {0}, NEW n \in Nat
    PROVE  (n * W) % W = 0 /\ n * W \in Nat
  <1> DEFINE m == n * W
             j == m \div W
             r == m % W
             d == n - j
  <1>0. m \in Nat /\ m = W * n
    OBVIOUS
  <1> HIDE DEF m
  <1>1. j \in Nat /\ d \in Int /\ r \in 0..(W - 1)
    BY <1>0, Quotient
  <1>2. m = W * j + r
    BY <1>0, Quotient
  <1>3. r = W * d
    <2>1. W * d = W * n - W * j
      BY <1>1
    <2> QED
      BY <1>0, <1>1, <1>2, <2>1
  <1>4. ASSUME d > 0
        PROVE  FALSE
    <2>1. W * (d - 1) \in Nat /\ W * d = W + W * (d - 1)
      BY <1>1, <1>4
    <2> QED
      BY <1>1, <1>3, <2>1
  <1>5. ASSUME d < 0
        PROVE  FALSE
    <2>1. W * (-1 - d) \in Nat /\ W * d = - W - W * (-1 - d)
      BY <1>1, <1>5
    <2> QED
      BY <1>1, <1>3, <2>1
  <1>6. d = 0
    BY <1>1, <1>4, <1>5
  <1> HIDE DEF d
  <1> QED
    BY <1>0, <1>1, <1>3, <1>6 DEF m

\* A number of whole words up to a length is one of those counted.
LEMMA WordsUpTo ==
    ASSUME NEW W \in Nat \ {0}, NEW m \in Nat, NEW n \in Nat, m % W = 0, m <= n
    PROVE  \E i \in 0..(n \div W) : m = i * W
  <1> DEFINE i == m \div W
             j == n \div W
             r == n % W
  <1>1. i \in Nat /\ j \in Nat /\ r \in 0..(W - 1)
    OBVIOUS
  <1>2. m = W * i /\ n = W * j + r
    OBVIOUS
  <1>3. ASSUME i > j
        PROVE  FALSE
    <2>1. W * (i - j - 1) \in Nat /\ W * i = W * j + W + W * (i - j - 1)
      BY <1>1, <1>3
    <2> QED
      BY <1>1, <1>2, <2>1
  <1>4. i \in 0..j
    BY <1>1, <1>3
  <1>5. W * i = i * W
    BY <1>1
  <1> QED
    BY <1>2, <1>4, <1>5

\* And counted, it is within the length.
LEMMA WordsWithin ==
    ASSUME NEW W \in Nat \ {0}, NEW n \in Nat, NEW i \in 0..(n \div W)
    PROVE  i * W \in 0..n
  <1> DEFINE j == n \div W
             r == n % W
  <1>1. j \in Nat /\ r \in 0..(W - 1) /\ n = W * j + r
    OBVIOUS
  <1>2. W * (j - i) \in Nat /\ W * j = i * W + W * (j - i) /\ i * W \in Nat
    <2>1. i \in Nat /\ j - i \in Nat
      BY <1>1
    <2> QED
      BY <1>1, <2>1
  <1> QED
    BY <1>1, <1>2

\* Parts of the first and of the second of two sequences.
LEMMA PartsOfTwo ==
    ASSUME NEW S, NEW p \in Seq(S), NEW r \in Seq(S)
    PROVE  /\ p \o r \in Seq(S) /\ Len(p \o r) = Len(p) + Len(r)
           /\ \A m \in Nat : \A n \in 0..Len(p) : SubSeq(p \o r, m + 1, n) = SubSeq(p, m + 1, n)
           /\ SubSeq(p \o r, 1, Len(p)) = p
           /\ \A n \in 0..Len(r) : SubSeq(p \o r, Len(p) + 1, Len(p) + n) = SubSeq(r, 1, n)
           /\ SubSeq(p \o r, Len(p) + 1, Len(p \o r)) = r
  <1> DEFINE c == p \o r
  <1>1. /\ Len(p) \in Nat /\ Len(r) \in Nat
        /\ c \in Seq(S) /\ Len(c) = Len(p) + Len(r)
        /\ \A i \in 1..Len(c) : c[i] = IF i <= Len(p) THEN p[i] ELSE r[i - Len(p)]
    BY LenProperties, ConcatProperties
  <1>2. /\ \A i \in 1..Len(p) : p[i] \in S
        /\ \A i \in 1..Len(r) : r[i] \in S
        /\ \A i \in 1..Len(c) : c[i] \in S
    BY <1>1, ElementOfSeq
  <1>3. ASSUME NEW m \in Nat, NEW n \in 0..Len(p)
        PROVE  SubSeq(c, m + 1, n) = SubSeq(p, m + 1, n)
    <2>1. /\ SubSeq(c, m + 1, n) \in Seq(S) /\ SubSeq(p, m + 1, n) \in Seq(S)
          /\ Len(SubSeq(c, m + 1, n)) = (IF m + 1 <= n THEN n - m ELSE 0)
          /\ Len(SubSeq(p, m + 1, n)) = (IF m + 1 <= n THEN n - m ELSE 0)
          /\ \A i \in 1..(n - m) : SubSeq(c, m + 1, n)[i] = c[m + i]
          /\ \A i \in 1..(n - m) : SubSeq(p, m + 1, n)[i] = p[m + i]
      BY <1>1, <1>2, SubSeqProperties
    <2>2. \A i \in 1..(n - m) : c[m + i] = p[m + i]
      BY <1>1
    <2> QED
      BY <1>1, <2>1, <2>2, SeqEqual
  <1>4. ASSUME NEW n \in 0..Len(r)
        PROVE  SubSeq(c, Len(p) + 1, Len(p) + n) = SubSeq(r, 1, n)
    <2>1. /\ SubSeq(c, Len(p) + 1, Len(p) + n) \in Seq(S) /\ SubSeq(r, 1, n) \in Seq(S)
          /\ Len(SubSeq(c, Len(p) + 1, Len(p) + n)) = n
          /\ Len(SubSeq(r, 1, n)) = n
          /\ \A i \in 1..n : SubSeq(c, Len(p) + 1, Len(p) + n)[i] = c[Len(p) + i]
          /\ \A i \in 1..n : SubSeq(r, 1, n)[i] = r[i]
      BY <1>1, <1>2, SubSeqProperties
    <2>2. \A i \in 1..n : c[Len(p) + i] = r[i]
      BY <1>1
    <2> QED
      BY <1>1, <2>1, <2>2, SeqEqual
  <1>5. SubSeq(p, 1, Len(p)) = p /\ SubSeq(r, 1, Len(r)) = r
    BY SubSeqFull
  <1>6. Len(p) \in 0..Len(p) /\ Len(r) \in 0..Len(r) /\ 0 \in Nat
    BY <1>1
  <1>7. SubSeq(c, 1, Len(p)) = p
    <2>1. SubSeq(c, 0 + 1, Len(p)) = SubSeq(p, 0 + 1, Len(p))
      BY <1>3, <1>6
    <2> QED
      BY <1>5, <2>1
  <1>8. SubSeq(c, Len(p) + 1, Len(c)) = r
    BY <1>1, <1>4, <1>5, <1>6
  <1> QED
    BY <1>1, <1>3, <1>4, <1>7, <1>8

-----------------------------------------------------------------------------
(* Recursive functions *)

\* B is the body of a recursive function from S to V, whose value at u has only
\* those at places of lower rank r, up to n, for arguments.
Descends(S, V, n, r, B) ==
    /\ V # {} /\ n \in Nat /\ r \in [S -> 0..n]
    /\ \A g \in [S -> V] : \A u \in S : B[<<g, u>>] \in V
    /\ \A g, h \in [S -> V] : \A u \in S :
          (\A v \in S : r[v] < r[u] => g[v] = h[v]) => B[<<g, u>>] = B[<<h, u>>]

\* There is such a function.
LEMMA Recursive ==
    ASSUME NEW S, NEW V, NEW n, NEW r, NEW B, Descends(S, V, n, r, B)
    PROVE  \E g \in [S -> V] : \A u \in S : g[u] = B[<<g, u>>]
  <1>0. /\ V # {} /\ n \in Nat /\ r \in [S -> 0..n]
        /\ \A g \in [S -> V] : \A u \in S : B[<<g, u>>] \in V
        /\ \A g, h \in [S -> V] : \A u \in S :
              (\A v \in S : r[v] < r[u] => g[v] = h[v]) => B[<<g, u>>] = B[<<h, u>>]
    BY DEF Descends
  <1> DEFINE P == {m \in Nat : \E g \in [S -> V] : \A u \in S : r[u] < m => g[u] = B[<<g, u>>]}
  <1>1. 0 \in P
    <2>1. PICK v \in V : TRUE
      BY <1>0
    <2>2. [u \in S |-> v] \in [S -> V] /\ \A u \in S : ~(r[u] < 0)
      BY <1>0
    <2> QED
      BY <2>2
  <1>2. ASSUME NEW m \in Nat, m \in P PROVE m + 1 \in P
    <2>1. PICK g \in [S -> V] : \A u \in S : r[u] < m => g[u] = B[<<g, u>>]
      BY <1>2
    <2> DEFINE h == [u \in S |-> B[<<g, u>>]]
    <2>2. h \in [S -> V]
      BY <1>0, <2>1
    <2>3. ASSUME NEW u \in S, r[u] < m + 1 PROVE h[u] = B[<<h, u>>]
      <3>1. ASSUME NEW v \in S, r[v] < r[u] PROVE g[v] = h[v]
        <4>1. r[v] \in Nat /\ r[u] \in Nat
          BY <1>0
        <4>2. r[v] < m
          BY <1>2, <2>3, <3>1, <4>1
        <4> QED
          BY <2>1, <4>2
      <3>2. B[<<g, u>>] = B[<<h, u>>]
        BY <1>0, <2>1, <2>2, <3>1
      <3> QED
        BY <3>2
    <2> HIDE DEF h
    <2> QED
      BY <2>2, <2>3
  <1> HIDE DEF P
  <1>3. n + 1 \in P
    <2>1. \A m \in 0..((n + 1) - 1) : m \in P => m + 1 \in P
      BY <1>2
    <2>2. n + 1 \in Nat /\ n + 1 \in 0..(n + 1)
      BY <1>0
    <2> QED
      BY <1>1, <2>1, <2>2, UpTo
  <1>4. PICK g \in [S -> V] : \A u \in S : r[u] < n + 1 => g[u] = B[<<g, u>>]
    BY <1>3 DEF P
  <1>5. \A u \in S : r[u] < n + 1
    BY <1>0
  <1> QED
    BY <1>4, <1>5

-----------------------------------------------------------------------------
(* How many functions there are *)

\* A function on 1..m + 1 is one on 1..m and a value.
LEMMA OneMoreValue ==
    ASSUME NEW m \in Nat, NEW D
    PROVE  \E f : f \in Injection([1..(m + 1) -> D], [1..m -> D] \X D)
  <1> DEFINE S == [1..(m + 1) -> D]
             T == [1..m -> D] \X D
             f == [h \in S |-> <<[i \in 1..m |-> h[i]], h[m + 1]>>]
  <1>1. \A i : i \in 1..(m + 1) <=> i \in 1..m \/ i = m + 1
    OBVIOUS
  <1>2. f \in [S -> T]
    BY <1>1
  <1>3. ASSUME NEW g \in S, NEW h \in S, f[g] = f[h] PROVE g = h
    <2>1. [i \in 1..m |-> g[i]] = [i \in 1..m |-> h[i]] /\ g[m + 1] = h[m + 1]
      BY <1>3
    <2>2. \A i \in 1..m : g[i] = h[i]
      BY <2>1
    <2>3. \A i \in 1..(m + 1) : g[i] = h[i]
      BY <1>1, <2>1, <2>2
    <2> QED
      BY <2>3
  <1> HIDE DEF f
  <1> QED
    BY <1>2, <1>3 DEF Injection, IsInjective

\* The functions from 1..n to a finite set are finite in number.
LEMMA FunctionsFinite ==
    ASSUME NEW n \in Nat, NEW D, IsFiniteSet(D)
    PROVE  IsFiniteSet([1..n -> D])
  <1> DEFINE P == {m \in Nat : IsFiniteSet([1..m -> D])}
  <1>1. 0 \in P
    <2>1. 1..0 = {}
      OBVIOUS
    <2>2. [1..0 -> D] \subseteq {[i \in {} |-> 0]}
      BY <2>1
    <2> QED
      BY <2>2, FS_Singleton, FS_Subset
  <1>2. ASSUME NEW m \in 0..(n - 1), m \in P PROVE m + 1 \in P
    <2>1. m \in Nat
      OBVIOUS
    <2>2. PICK f : f \in Injection([1..(m + 1) -> D], [1..m -> D] \X D)
      BY <2>1, OneMoreValue
    <2>3. IsFiniteSet([1..m -> D] \X D)
      BY <1>2, FS_Product
    <2>4. IsFiniteSet([1..(m + 1) -> D])
      BY <2>2, <2>3, FS_Injection
    <2> QED
      BY <2>1, <2>4
  <1> HIDE DEF P
  <1>3. \A m \in 0..n : m \in P
    BY <1>1, <1>2, UpTo
  <1>4. n \in P
    BY <1>3
  <1> QED
    BY <1>4 DEF P

\* The functions from 1..n to a finite set, e[n] at most, are finite in number.
LEMMA FunctionsCount ==
    ASSUME NEW n \in Nat, NEW D, IsFiniteSet(D), NEW e \in [0..n -> Nat],
           e[0] = 1, \A m \in 0..(n - 1) : e[m + 1] = Cardinality(D) * e[m]
    PROVE  \A m \in 0..n : IsFiniteSet([1..m -> D]) /\ Cardinality([1..m -> D]) <= e[m]
  <1> DEFINE P == {m \in 0..n : IsFiniteSet([1..m -> D]) /\ Cardinality([1..m -> D]) <= e[m]}
  <1>1. 0 \in P
    <2>1. 1..0 = {}
      OBVIOUS
    <2>2. [1..0 -> D] \subseteq {[i \in {} |-> 0]}
      BY <2>1
    <2>3. IsFiniteSet([1..0 -> D]) /\ Cardinality([1..0 -> D]) <= 1
      <3> DEFINE z == [i \in {} |-> 0]
      <3> HIDE DEF z
      <3>1. IsFiniteSet({z}) /\ Cardinality({z}) = 1
        BY FS_Singleton
      <3>2. [1..0 -> D] \in SUBSET {z}
        BY <2>2 DEF z
      <3> QED
        BY <3>1, <3>2, FS_Subset
    <2> QED
      BY <2>3
  <1>2. ASSUME NEW m \in 0..(n - 1), m \in P PROVE m + 1 \in P
    <2> DEFINE S == [1..(m + 1) -> D]
               R == [1..m -> D]
    <2>1. m \in Nat /\ m + 1 \in 0..n
      OBVIOUS
    <2>2. PICK f : f \in Injection(S, R \X D)
      BY <2>1, OneMoreValue
    <2>3. IsFiniteSet(R) /\ Cardinality(R) <= e[m] /\ Cardinality(R) \in Nat /\ Cardinality(D) \in Nat
      BY <1>2, FS_CardinalityType
    <2>4. IsFiniteSet(R \X D) /\ Cardinality(R \X D) = Cardinality(R) * Cardinality(D)
      BY <2>3, FS_Product
    <2> HIDE DEF R, S
    <2>5. IsFiniteSet(S) /\ Cardinality(S) <= Cardinality(R) * Cardinality(D) /\ Cardinality(S) \in Nat
      BY <2>2, <2>4, FS_Injection, FS_CardinalityType
    <2>6. Cardinality(S) <= e[m + 1]
      <3> DEFINE a == Cardinality(R)
                 b == Cardinality(D)
                 c == e[m]
      <3>1. a \in Nat /\ b \in Nat /\ c \in Nat /\ a <= c
        BY <2>3
      <3> HIDE DEF a, b, c
      <3>2. a * b <= b * c
        <4>1. \A x, y, z \in Nat : x <= z => x * y <= y * z
          OBVIOUS
        <4> QED
          BY <3>1, <4>1
      <3>3. e[m + 1] = b * c /\ Cardinality(S) <= a * b /\ a * b \in Nat /\ b * c \in Nat
        BY <2>5, <3>1 DEF a, b, c
      <3> QED
        BY <2>5, <3>2, <3>3
    <2> QED
      BY <2>1, <2>5, <2>6 DEF S
  <1> HIDE DEF P
  <1>3. \A m \in 0..n : m \in P
    BY <1>1, <1>2, UpTo
  <1> QED
    BY <1>3 DEF P

=============================================================================
