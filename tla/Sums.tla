-------------------------------- MODULE Sums --------------------------------
(***************************************************************************)
(* Facts about SumFunction, the sum of the values of a function.  Finite    *)
(* sets are taken apart one element at a time: an induction over their       *)
(* subsets, as a set without a least member.                                *)
(***************************************************************************)
EXTENDS Functions, FiniteSetTheorems, TLAPS

---------------------------------------------------------------------------
(* The recursion behind SumFunctionOnSet, as far as subsets of n elements.   *)
Pick(s) == CHOOSE x \in s : TRUE
UpTo(S, n) == {s \in SUBSET S : Cardinality(s) <= n}
Sums(h, f, D) == h = [s \in D |-> IF s = {} THEN 0 ELSE f[Pick(s)] + h[s \ {Pick(s)}]]
SumsOver(h, f, S) == Sums(h, f, SUBSET S)
Summable(f, S) == {n \in Nat : \E h : Sums(h, f, UpTo(S, n))}

LEMMA SubsetInduction ==
    ASSUME NEW S, IsFiniteSet(S), NEW Good \in SUBSET (SUBSET S),
           \A T \in SUBSET S : (\A U \in SUBSET T : U # T => U \in Good) => T \in Good
    PROVE  S \in Good
<1> DEFINE Bad == (SUBSET S) \ Good
           Less == StrictSubsetOrdering(S)
<1>1. IsWellFoundedOn(Less, SUBSET S)
  <2>1. FiniteSubsetsOf(S) = SUBSET S
    BY FS_FiniteSubsetsOfFinite
  <2> QED  BY <2>1, FS_StrictSubsetOrderingWellFounded
<1>2. SUFFICES ASSUME Bad # {} PROVE FALSE
  OBVIOUS
<1>3. PICK T \in Bad : \A U \in Bad : <<U, T>> \notin Less
  <2>1. Bad \subseteq SUBSET S  OBVIOUS
  <2> HIDE DEF Bad, Less
  <2> QED  BY <1>1, <1>2, <2>1, WFMin
<1>4. \A U \in SUBSET T : U # T => U \in Good
  BY <1>3 DEF StrictSubsetOrdering
<1> QED  BY <1>3, <1>4

LEMMA LeastOf ==
    ASSUME NEW S, S \subseteq Nat, S # {}
    PROVE  \E x \in S : \A y \in S : x <= y
<1>1. IsWellFoundedOn(OpToRel(<, Nat), Nat)
  BY NatLessThanWellFounded
<1>2. PICK x \in S : \A y \in S : <<y, x>> \notin OpToRel(<, Nat)
  BY <1>1, WFMin
<1>3. \A y \in S : ~(y < x)
  BY <1>2 DEF OpToRel
<1> QED  BY <1>3

LEMMA NatInductionSet ==
    ASSUME NEW Good, Good \subseteq Nat, 0 \in Good,
           \A n \in Good : n + 1 \in Good
    PROVE  Good = Nat
<1>1. SUFFICES ASSUME Nat \ Good # {} PROVE FALSE
  OBVIOUS
<1>2. PICK n \in Nat \ Good : \A k \in Nat \ Good : n <= k
  BY <1>1, LeastOf
<1>3. n - 1 \in Nat /\ n - 1 \in Good
  BY <1>2
<1>4. (n - 1) + 1 \in Good
  BY <1>3
<1> QED  BY <1>2, <1>3, <1>4

---------------------------------------------------------------------------
LEMMA PickOne == ASSUME NEW s, s # {} PROVE Pick(s) \in s
BY DEF Pick

LEMMA UpToFacts ==
    ASSUME NEW S, IsFiniteSet(S), NEW n \in Nat
    PROVE  /\ {} \in UpTo(S, n)
           /\ UpTo(S, 0) = {{}}
           /\ UpTo(S, Cardinality(S)) = SUBSET S
           /\ \A s \in UpTo(S, n + 1) : s # {} => s \ {Pick(s)} \in UpTo(S, n)
           /\ UpTo(S, n) \subseteq UpTo(S, n + 1)
<1>1. \A s \in SUBSET S : IsFiniteSet(s) /\ Cardinality(s) \in Nat
                            /\ Cardinality(s) <= Cardinality(S)
  BY FS_Subset, FS_CardinalityType
<1>2. Cardinality({}) = 0 /\ \A s \in SUBSET S : Cardinality(s) = 0 <=> s = {}
  BY <1>1, FS_EmptySet
<1>3. \A s \in SUBSET S : s # {} => Cardinality(s \ {Pick(s)}) = Cardinality(s) - 1
  BY <1>1, PickOne, FS_RemoveElement
<1>4. {} \in UpTo(S, n)
  BY <1>2 DEF UpTo
<1>5. UpTo(S, 0) = {{}}
  BY <1>1, <1>2 DEF UpTo
<1>6. UpTo(S, Cardinality(S)) = SUBSET S
  BY <1>1 DEF UpTo
<1>7. ASSUME NEW s \in UpTo(S, n + 1), s # {} PROVE s \ {Pick(s)} \in UpTo(S, n)
  BY <1>1, <1>3, <1>7 DEF UpTo
<1>8. UpTo(S, n) \subseteq UpTo(S, n + 1)
  BY <1>1 DEF UpTo
<1> QED
  BY <1>4, <1>5, <1>6, <1>7, <1>8

LEMMA SummableNext ==
    ASSUME NEW S, IsFiniteSet(S), NEW f, NEW n \in Summable(f, S)
    PROVE  n + 1 \in Summable(f, S)
<1> DEFINE D == UpTo(S, n)
           E == UpTo(S, n + 1)
<1>1. n \in Nat
  BY DEF Summable
<1>2. PICK h : Sums(h, f, D)
  BY DEF Summable
<1>3. /\ D \subseteq E
      /\ \A s \in E : s # {} => s \ {Pick(s)} \in D
  BY <1>1, UpToFacts
<1> DEFINE k == [s \in E |-> IF s \in D THEN h[s]
                             ELSE IF s = {} THEN 0 ELSE f[Pick(s)] + h[s \ {Pick(s)}]]
<1> HIDE DEF D, E
<1>4. ASSUME NEW s \in E
      PROVE  k[s] = IF s = {} THEN 0 ELSE f[Pick(s)] + k[s \ {Pick(s)}]
  <2>1. CASE s = {}
    BY <2>1, <1>2 DEF Sums
  <2>2. CASE s # {}
    <3>1. s \ {Pick(s)} \in D /\ s \ {Pick(s)} \in E
      BY <1>3, <2>2
    <3>2. k[s \ {Pick(s)}] = h[s \ {Pick(s)}]
      BY <3>1
    <3>3. k[s] = f[Pick(s)] + h[s \ {Pick(s)}]
      BY <2>2, <1>2 DEF Sums
    <3> QED  BY <2>2, <3>2, <3>3
  <2> QED  BY <2>1, <2>2
<1>5. k = [s \in E |-> IF s = {} THEN 0 ELSE f[Pick(s)] + k[s \ {Pick(s)}]]
  <2>1. k = [s \in E |-> k[s]]  OBVIOUS
  <2> HIDE DEF k
  <2> QED  BY <1>4, <2>1
<1>6. Sums(k, f, E)
  <2> HIDE DEF k
  <2> QED  BY <1>5 DEF Sums
<1> QED
  BY <1>1, <1>6 DEF Summable, E

LEMMA AllSummable ==
    ASSUME NEW S, IsFiniteSet(S), NEW f
    PROVE  \E h : SumsOver(h, f, S)
<1>1. 0 \in Summable(f, S)
  <2> DEFINE k == [s \in {{}} |-> 0]
  <2>1. k = [s \in {{}} |-> IF s = {} THEN 0 ELSE f[Pick(s)] + k[s \ {Pick(s)}]]
    OBVIOUS
  <2>2. Sums(k, f, {{}})
    <3> HIDE DEF k
    <3> QED  BY <2>1 DEF Sums, SumsOver
  <2>3. UpTo(S, 0) = {{}}
    BY UpToFacts
  <2> HIDE DEF k
  <2> QED  BY <2>2, <2>3 DEF Summable
<1>2. Summable(f, S) = Nat
  BY <1>1, SummableNext, NatInductionSet DEF Summable
<1>3. Cardinality(S) \in Nat /\ UpTo(S, Cardinality(S)) = SUBSET S
  BY FS_CardinalityType, UpToFacts
<1>4. Cardinality(S) \in Summable(f, S)
  BY <1>2, <1>3
<1>5. \E h : Sums(h, f, UpTo(S, Cardinality(S)))
  BY <1>4 DEF Summable
<1> QED
  BY <1>3, <1>5 DEF SumsOver

(* The equation of SumFunctionOnSet.                                         *)
LEMMA SumOnSet ==
    ASSUME NEW S, IsFiniteSet(S), NEW f
    PROVE  \E h : SumsOver(h, f, S) /\ SumFunctionOnSet(f, S) = h[S]
<1> DEFINE h == CHOOSE h : h = [s \in SUBSET S |-> IF s = {} THEN 0
                                 ELSE f[Pick(s)] + h[s \ {Pick(s)}]]
<1>1. \E k : k = [s \in SUBSET S |-> IF s = {} THEN 0 ELSE f[Pick(s)] + k[s \ {Pick(s)}]]
  <2>1. PICK k : SumsOver(k, f, S)
    BY AllSummable
  <2> QED  BY <2>1 DEF Sums, SumsOver
<1>2. h = [s \in SUBSET S |-> IF s = {} THEN 0 ELSE f[Pick(s)] + h[s \ {Pick(s)}]]
  BY <1>1
<1>3. SumFunctionOnSet(f, S) = h[S]
  BY DEF SumFunctionOnSet, FoldFunctionOnSet, MapThenFoldSet, Pick
<1>4. SumsOver(h, f, S)
  <2> HIDE DEF h
  <2> QED  BY <1>2 DEF Sums, SumsOver
<1> QED
  <2> HIDE DEF h
  <2> QED  BY <1>3, <1>4

---------------------------------------------------------------------------
(* Any element may be taken first.                                           *)
LEMMA SumsInt ==
    ASSUME NEW S, IsFiniteSet(S), NEW f, \A x \in S : f[x] \in Int,
           NEW h, SumsOver(h, f, S)
    PROVE  \A s \in SUBSET S : h[s] \in Int
<1> DEFINE Good == {T \in SUBSET S : \A U \in SUBSET T : h[U] \in Int}
<1>1. ASSUME NEW T \in SUBSET S, \A U \in SUBSET T : U # T => U \in Good
      PROVE  T \in Good
  <2>1. CASE T = {}
    BY <2>1 DEF Sums, SumsOver
  <2>2. CASE T # {}
    <3>1. Pick(T) \in T
      BY <2>2, PickOne
    <3>2. h[T \ {Pick(T)}] \in Int
      BY <1>1, <3>1
    <3>3. h[T] = f[Pick(T)] + h[T \ {Pick(T)}]
      BY <2>2 DEF Sums, SumsOver
    <3> QED  BY <1>1, <3>1, <3>2, <3>3
  <2> QED  BY <2>1, <2>2
<1>2. S \in Good
  <2> HIDE DEF Good
  <2>1. Good \in SUBSET (SUBSET S)  BY DEF Good
  <2> QED  BY <1>1, <2>1, SubsetInduction
<1> QED
  BY <1>2

LEMMA SumsTake ==
    ASSUME NEW S, IsFiniteSet(S), NEW f, \A x \in S : f[x] \in Int,
           NEW h, SumsOver(h, f, S)
    PROVE  \A x \in S : h[S] = f[x] + h[S \ {x}]
<1> DEFINE Good == {T \in SUBSET S : \A x \in T : h[T] = f[x] + h[T \ {x}]}
<1>1. \A T \in SUBSET S : T # {} => /\ Pick(T) \in T
                                    /\ h[T] = f[Pick(T)] + h[T \ {Pick(T)}]
  BY PickOne DEF Sums, SumsOver
<1>2. \A T \in SUBSET S : h[T] \in Int
  BY SumsInt
<1>3. ASSUME NEW T \in SUBSET S, \A U \in SUBSET T : U # T => U \in Good
      PROVE  T \in Good
  <2>1. SUFFICES ASSUME NEW x \in T PROVE h[T] = f[x] + h[T \ {x}]
    OBVIOUS
  <2>2. CASE x = Pick(T)
    BY <1>1, <2>2
  <2>3. CASE x # Pick(T)
    <3> DEFINE c == Pick(T)
    <3>1. c \in T /\ h[T] = f[c] + h[T \ {c}]
      BY <1>1
    <3>2. h[T \ {c}] = f[x] + h[(T \ {c}) \ {x}]
      <4>1. T \ {c} \in SUBSET T /\ T \ {c} # T /\ x \in T \ {c}
        BY <2>3, <3>1
      <4> QED  BY <1>3, <4>1
    <3>3. h[T \ {x}] = f[c] + h[(T \ {x}) \ {c}]
      <4>1. T \ {x} \in SUBSET T /\ T \ {x} # T /\ c \in T \ {x}
        BY <2>3, <3>1
      <4> QED  BY <1>3, <4>1
    <3>4. (T \ {c}) \ {x} = (T \ {x}) \ {c} /\ (T \ {c}) \ {x} \in SUBSET S
      OBVIOUS
    <3>5. h[(T \ {c}) \ {x}] \in Int /\ f[c] \in Int /\ f[x] \in Int
      BY <1>2, <3>1, <3>4
    <3>6. (T \ {x}) \in SUBSET S /\ h[T \ {x}] \in Int
      BY <1>2
    <3> HIDE DEF c
    <3> DEFINE rest == h[(T \ {x}) \ {c}]
    <3>7. rest \in Int /\ h[T] = f[c] + (f[x] + rest) /\ h[T \ {x}] = f[c] + rest
      BY <3>1, <3>2, <3>3, <3>4, <3>5
    <3> HIDE DEF rest
    <3> QED  BY <3>5, <3>7
  <2> QED  BY <2>2, <2>3
<1>4. S \in Good
  <2> HIDE DEF Good
  <2>1. Good \in SUBSET (SUBSET S)  BY DEF Good
  <2> QED  BY <1>3, <2>1, SubsetInduction
<1> QED
  BY <1>4

(* Two functions that agree on the set have the same sum.                    *)
LEMMA SumsAgree ==
    ASSUME NEW S, IsFiniteSet(S), NEW R, S \subseteq R, NEW f, NEW g, \A x \in S : f[x] = g[x],
           NEW h, SumsOver(h, f, S), NEW k, SumsOver(k, g, R)
    PROVE  h[S] = k[S]
<1> DEFINE Good == {T \in SUBSET S : h[T] = k[T]}
<1>1. ASSUME NEW T \in SUBSET S, \A U \in SUBSET T : U # T => U \in Good
      PROVE  T \in Good
  <2>1. CASE T = {}
    BY <2>1 DEF Sums, SumsOver
  <2>2. CASE T # {}
    <3>1. Pick(T) \in T /\ T \in SUBSET R
      BY <2>2, PickOne
    <3>2. h[T \ {Pick(T)}] = k[T \ {Pick(T)}]
      BY <1>1, <3>1
    <3>3. h[T] = f[Pick(T)] + h[T \ {Pick(T)}]
      BY <2>2 DEF Sums, SumsOver
    <3>4. k[T] = g[Pick(T)] + k[T \ {Pick(T)}]
      BY <2>2, <3>1 DEF Sums, SumsOver
    <3> QED  BY <3>1, <3>2, <3>3, <3>4
  <2> QED  BY <2>1, <2>2
<1>2. S \in Good
  <2> HIDE DEF Good
  <2>1. Good \in SUBSET (SUBSET S)  BY DEF Good
  <2> QED  BY <1>1, <2>1, SubsetInduction
<1> QED
  BY <1>2

---------------------------------------------------------------------------
(* What the proofs cite.                                                     *)
LEMMA SumOfNone == ASSUME NEW f PROVE SumFunctionOnSet(f, {}) = 0
<1>1. PICK h : SumsOver(h, f, {}) /\ SumFunctionOnSet(f, {}) = h[{}]
  BY SumOnSet, FS_EmptySet
<1> QED
  BY <1>1 DEF Sums, SumsOver

LEMMA SumInt ==
    ASSUME NEW S, IsFiniteSet(S), NEW f, \A x \in S : f[x] \in Int
    PROVE  SumFunctionOnSet(f, S) \in Int
<1>1. PICK h : SumsOver(h, f, S) /\ SumFunctionOnSet(f, S) = h[S]
  BY SumOnSet
<1> QED
  BY <1>1, SumsInt

LEMMA SumSame ==
    ASSUME NEW S, IsFiniteSet(S), NEW f, NEW g, \A x \in S : f[x] = g[x]
    PROVE  SumFunctionOnSet(f, S) = SumFunctionOnSet(g, S)
<1>1. PICK h : SumsOver(h, f, S) /\ SumFunctionOnSet(f, S) = h[S]
  BY SumOnSet
<1>2. PICK k : SumsOver(k, g, S) /\ SumFunctionOnSet(g, S) = k[S]
  BY SumOnSet
<1> QED
  BY <1>1, <1>2, SumsAgree

LEMMA SumTake ==
    ASSUME NEW S, IsFiniteSet(S), NEW f, \A x \in S : f[x] \in Int, NEW x \in S
    PROVE  SumFunctionOnSet(f, S) = f[x] + SumFunctionOnSet(f, S \ {x})
<1> DEFINE T == S \ {x}
<1>1. IsFiniteSet(T) /\ T \subseteq S
  BY FS_Subset
<1>2. PICK h : SumsOver(h, f, T) /\ SumFunctionOnSet(f, T) = h[T]
  BY <1>1, SumOnSet
<1>3. PICK k : SumsOver(k, f, S) /\ SumFunctionOnSet(f, S) = k[S]
  BY SumOnSet
<1>4. h[T] = k[T]
  BY <1>1, <1>2, <1>3, SumsAgree
<1>5. k[S] = f[x] + k[T]
  BY <1>3, SumsTake
<1> QED
  BY <1>2, <1>3, <1>4, <1>5

(* One value changes.                                                        *)
LEMMA SumChange ==
    ASSUME NEW S, IsFiniteSet(S), NEW f, \A y \in S : f[y] \in Int,
           NEW g, \A y \in S : g[y] \in Int,
           NEW x \in S, \A y \in S : y # x => g[y] = f[y]
    PROVE  SumFunctionOnSet(g, S) = SumFunctionOnSet(f, S) + g[x] - f[x]
<1> DEFINE T == S \ {x}
<1>1. IsFiniteSet(T)
  BY FS_Subset
<1>2. SumFunctionOnSet(g, T) = SumFunctionOnSet(f, T)
  BY <1>1, SumSame
<1>3. SumFunctionOnSet(f, T) \in Int
  BY <1>1, SumInt
<1>4. SumFunctionOnSet(f, S) = f[x] + SumFunctionOnSet(f, T)
  BY SumTake
<1>5. SumFunctionOnSet(g, S) = g[x] + SumFunctionOnSet(g, T)
  BY SumTake
<1> QED
  BY <1>2, <1>3, <1>4, <1>5

LEMMA SumsNat ==
    ASSUME NEW S, IsFiniteSet(S), NEW f, \A x \in S : f[x] \in Nat,
           NEW h, SumsOver(h, f, S)
    PROVE  \A s \in SUBSET S : h[s] \in Nat
<1> DEFINE Good == {T \in SUBSET S : \A U \in SUBSET T : h[U] \in Nat}
<1>1. ASSUME NEW T \in SUBSET S, \A U \in SUBSET T : U # T => U \in Good
      PROVE  T \in Good
  <2>1. \A U \in SUBSET T : U # T => h[U] \in Nat
    BY <1>1
  <2>2. h[T] \in Nat
    <3>1. CASE T = {}
      BY <3>1 DEF Sums, SumsOver
    <3>2. CASE T # {}
      <4>1. Pick(T) \in T
        BY <3>2, PickOne
      <4>2. h[T] = f[Pick(T)] + h[T \ {Pick(T)}]
        BY <3>2 DEF Sums, SumsOver
      <4>3. h[T \ {Pick(T)}] \in Nat
        BY <2>1, <4>1
      <4> QED
        BY <4>1, <4>2, <4>3
    <3> QED
      BY <3>1, <3>2
  <2> QED
    BY <2>1, <2>2
<1> HIDE DEF Good
<1>2. S \in Good
  <2>1. Good \in SUBSET (SUBSET S)
    BY DEF Good
  <2> QED
    BY <1>1, <2>1, SubsetInduction
<1> QED
  BY <1>2 DEF Good

LEMMA SumNat ==
    ASSUME NEW S, IsFiniteSet(S), NEW f, \A x \in S : f[x] \in Nat
    PROVE  SumFunctionOnSet(f, S) \in Nat
<1>1. PICK h : SumsOver(h, f, S) /\ SumFunctionOnSet(f, S) = h[S]
  BY SumOnSet
<1> QED
  BY <1>1, SumsNat

(* A total of nothing is nothing.                                           *)
LEMMA SumZeros ==
    ASSUME NEW S, IsFiniteSet(S), NEW f, \A x \in S : f[x] = 0
    PROVE  SumFunctionOnSet(f, S) = 0
<1> DEFINE Good == {T \in SUBSET S : SumFunctionOnSet(f, T) = 0}
<1>1. ASSUME NEW T \in SUBSET S, \A U \in SUBSET T : U # T => U \in Good
      PROVE  T \in Good
  <2>1. CASE T = {}
    BY <2>1, SumOfNone
  <2>2. CASE T # {}
    <3>1. PICK x : x \in T
      BY <2>2
    <3>2. IsFiniteSet(T) /\ \A y \in T : f[y] \in Int
      BY FS_Subset
    <3>3. SumFunctionOnSet(f, T) = f[x] + SumFunctionOnSet(f, T \ {x})
      BY <3>1, <3>2, SumTake
    <3>4. T \ {x} \in Good
      BY <1>1, <3>1
    <3> QED
      BY <3>1, <3>3, <3>4
  <2> QED
    BY <2>1, <2>2
<1>2. Good \in SUBSET (SUBSET S)
  OBVIOUS
<1> HIDE DEF Good
<1>3. S \in Good
  BY <1>1, <1>2, SubsetInduction
<1> QED
  BY <1>3 DEF Good

(* The larger the values, the larger the sum.                               *)
LEMMA SumLeq ==
    ASSUME NEW S, IsFiniteSet(S), NEW f, \A x \in S : f[x] \in Int,
           NEW g, \A x \in S : g[x] \in Int, \A x \in S : f[x] <= g[x]
    PROVE  SumFunctionOnSet(f, S) <= SumFunctionOnSet(g, S)
<1> DEFINE Good == {T \in SUBSET S : SumFunctionOnSet(f, T) <= SumFunctionOnSet(g, T)}
<1>1. ASSUME NEW T \in SUBSET S, \A U \in SUBSET T : U # T => U \in Good
      PROVE  T \in Good
  <2>1. CASE T = {}
    BY <2>1, SumOfNone
  <2>2. CASE T # {}
    <3>1. PICK x : x \in T
      BY <2>2
    <3>2. /\ IsFiniteSet(T) /\ IsFiniteSet(T \ {x})
          /\ \A y \in T : f[y] \in Int /\ g[y] \in Int
      BY FS_Subset
    <3> DEFINE F == SumFunctionOnSet(f, T \ {x})
               G == SumFunctionOnSet(g, T \ {x})
    <3>3. SumFunctionOnSet(f, T) = f[x] + F
      BY <3>1, <3>2, SumTake
    <3>4. SumFunctionOnSet(g, T) = g[x] + G
      BY <3>1, <3>2, SumTake
    <3>5. F \in Int
      BY <3>2, SumInt
    <3>6. G \in Int
      BY <3>2, SumInt
    <3>7. F <= G
      BY <1>1, <3>1
    <3> HIDE DEF F, G
    <3>8. f[x] \in Int /\ g[x] \in Int /\ f[x] <= g[x]
      BY <3>1
    <3>9. f[x] + F <= g[x] + G
      BY <3>5, <3>6, <3>7, <3>8
    <3> QED
      BY <3>3, <3>4, <3>9
  <2> QED
    BY <2>1, <2>2
<1>2. Good \in SUBSET (SUBSET S)
  OBVIOUS
<1> HIDE DEF Good
<1>3. S \in Good
  BY <1>1, <1>2, SubsetInduction
<1> QED
  BY <1>3 DEF Good

(* Values no larger, and yet the same sum: the values are the same.         *)
LEMMA SumEqual ==
    ASSUME NEW S, IsFiniteSet(S), NEW f, \A x \in S : f[x] \in Int,
           NEW g, \A x \in S : g[x] \in Int, \A x \in S : f[x] <= g[x],
           SumFunctionOnSet(g, S) <= SumFunctionOnSet(f, S), NEW x \in S
    PROVE  f[x] = g[x]
<1> DEFINE T == S \ {x}
           F == SumFunctionOnSet(f, T)
           G == SumFunctionOnSet(g, T)
<1>1. IsFiniteSet(T)
  BY FS_Subset
<1>2. SumFunctionOnSet(f, S) = f[x] + F
  BY SumTake
<1>3. SumFunctionOnSet(g, S) = g[x] + G
  BY SumTake
<1>4. F \in Int
  BY <1>1, SumInt
<1>5. G \in Int
  BY <1>1, SumInt
<1>6. F <= G
  BY <1>1, SumLeq
<1>7. f[x] \in Int /\ g[x] \in Int /\ f[x] <= g[x]
  OBVIOUS
<1> HIDE DEF F, G
<1> QED
  BY <1>2, <1>3, <1>4, <1>5, <1>6, <1>7
=============================================================================
