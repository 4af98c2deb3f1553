----------------------------- MODULE DataLemmas -----------------------------
(***************************************************************************)
(* Lemmas about the operators that the models are built from: sums over    *)
(* finite sets (SumFunctionOnSet and SumFunction of the community module   *)
(* Functions), the parts and orders of Lists, and the fractions, averages, *)
(* groups, keys and champions of RunRows.  Each of the inductions that     *)
(* they rest on is stated over a set, that of the good values, and follows *)
(* from the least bad one.                                                 *)
(***************************************************************************)
EXTENDS RunRows, FiniteSetTheorems, TLAPS

LEMMA SubsetInduction ==
  ASSUME NEW S, IsFiniteSet(S), NEW Good,
         \A T \in SUBSET S : (\A x \in T : T \ {x} \in Good) => T \in Good
  PROVE  SUBSET S \subseteq Good
<1>1. IsWellFoundedOn(StrictSubsetOrdering(S), SUBSET S)
  <2>1. FiniteSubsetsOf(S) = SUBSET S
    BY FS_FiniteSubsetsOfFinite
  <2> QED BY <2>1, FS_StrictSubsetOrderingWellFounded
<1> SUFFICES ASSUME (SUBSET S) \ Good # {} PROVE FALSE
  OBVIOUS
<1> DEFINE Bad == (SUBSET S) \ Good
<1>2. PICK T \in Bad : \A U \in Bad : <<U, T>> \notin StrictSubsetOrdering(S)
  <2> HIDE DEF Bad
  <2>1. Bad \subseteq SUBSET S /\ Bad # {}
    BY DEF Bad
  <2> QED BY <1>1, <2>1, WFMin
<1>3. \A x \in T : <<T \ {x}, T>> \in StrictSubsetOrdering(S)
  BY <1>2 DEF StrictSubsetOrdering
<1> QED BY <1>2, <1>3

LEMMA NumberInduction ==
  ASSUME NEW Good, 0 \in Good, \A n \in Nat : n \in Good => n + 1 \in Good
  PROVE  Nat \subseteq Good
<1> SUFFICES ASSUME Nat \ Good # {} PROVE FALSE
  OBVIOUS
<1> DEFINE Bad == Nat \ Good
<1>1. PICK n \in Bad : \A m \in Bad : <<m, n>> \notin OpToRel(<, Nat)
  <2> HIDE DEF Bad
  <2>1. Bad \subseteq Nat /\ Bad # {}
    BY DEF Bad
  <2> QED BY <2>1, NatLessThanWellFounded, WFMin
<1>2. n \in Nat /\ n # 0
  BY <1>1
<1>3. n - 1 \in Nat /\ n - 1 < n /\ n = (n - 1) + 1
  BY <1>2
<1>4. <<n - 1, n>> \in OpToRel(<, Nat)
  BY <1>2, <1>3 DEF OpToRel
<1>5. n - 1 \in Good
  BY <1>1, <1>3, <1>4
<1> QED BY <1>1, <1>3, <1>5

-----------------------------------------------------------------------------
(* A sum is a value of the function that its definition defines.           *)
Pick(s) == CHOOSE x \in s : TRUE
Sums(g, f, S) ==
  g = [s \in SUBSET S |-> IF s = {} THEN 0 ELSE f[Pick(s)] + g[s \ {Pick(s)}]]

LEMMA PickIn == ASSUME NEW s, s # {} PROVE Pick(s) \in s
BY DEF Pick

LEMMA SumDef ==
  ASSUME NEW f, NEW S
  PROVE  SumFunctionOnSet(f, S) = (CHOOSE g : Sums(g, f, S))[S]
BY DEF SumFunctionOnSet, FoldFunctionOnSet, MapThenFoldSet, Sums, Pick

(* Two such functions agree where both are defined.                        *)
LEMMA SumsAgree ==
  ASSUME NEW f, NEW S, NEW T, IsFiniteSet(T), T \subseteq S,
         NEW g, Sums(g, f, S), NEW h, Sums(h, f, T)
  PROVE  g[T] = h[T]
<1> DEFINE Good == {s \in SUBSET T : g[s] = h[s]}
<1>1. {} \in Good
  BY DEF Sums
<1>2. ASSUME NEW s \in SUBSET T, \A x \in s : s \ {x} \in Good PROVE s \in Good
  <2>1. CASE s = {} BY <1>1, <2>1
  <2>2. CASE s # {}
    <3>1. Pick(s) \in s
      BY <2>2, PickIn
    <3>2. g[s \ {Pick(s)}] = h[s \ {Pick(s)}]
      BY <1>2, <3>1
    <3>3. g[s] = f[Pick(s)] + g[s \ {Pick(s)}] /\ h[s] = f[Pick(s)] + h[s \ {Pick(s)}]
      BY <2>2 DEF Sums
    <3> QED BY <3>2, <3>3
  <2> QED BY <2>1, <2>2
<1> HIDE DEF Good
<1>3. SUBSET T \subseteq Good
  BY <1>2, SubsetInduction
<1> QED BY <1>3 DEF Good

(* There is one: for the subsets of at most n elements, then of one more.  *)
LEMMA SumsExist ==
  ASSUME NEW f, NEW S, IsFiniteSet(S)
  PROVE  \E g : Sums(g, f, S)
<1> DEFINE Term(g, s) == IF s = {} THEN 0 ELSE f[Pick(s)] + g[s \ {Pick(s)}]
           UpTo(n) == {s \in SUBSET S : Cardinality(s) <= n}
           Good == {n \in Nat : \E g : \A s \in UpTo(n) : g[s] = Term(g, s)}
<1>1. \A s \in SUBSET S : IsFiniteSet(s) /\ Cardinality(s) \in Nat
  BY FS_Subset, FS_CardinalityType
<1>2. 0 \in Good
  <2> DEFINE zero == [s \in SUBSET S |-> 0]
  <2>1. \A s \in UpTo(0) : s = {}
    BY <1>1, FS_EmptySet
  <2>2. \A s \in UpTo(0) : zero[s] = Term(zero, s)
    BY <2>1
  <2> QED BY <2>2
<1>3. ASSUME NEW n \in Nat, n \in Good PROVE n + 1 \in Good
  <2>1. PICK g : \A s \in UpTo(n) : g[s] = Term(g, s)
    BY <1>3
  <2> DEFINE h == [s \in SUBSET S |-> IF s \in UpTo(n) THEN g[s] ELSE Term(g, s)]
  <2>2. ASSUME NEW s \in UpTo(n + 1), s # {}
        PROVE  s \ {Pick(s)} \in UpTo(n)
    <3>1. Pick(s) \in s
      BY <2>2, PickIn
    <3>2. Cardinality(s \ {Pick(s)}) = Cardinality(s) - 1
      BY <1>1, <3>1, FS_RemoveElement
    <3> QED BY <1>1, <3>2
  <2>3. ASSUME NEW s \in UpTo(n + 1) PROVE h[s] = Term(h, s)
    <3>1. CASE s = {}
      BY <2>1, <3>1
    <3>2. CASE s # {}
      <4>1. h[s \ {Pick(s)}] = g[s \ {Pick(s)}]
        BY <2>2, <3>2
      <4>2. h[s] = Term(g, s)
        BY <2>1
      <4> QED BY <3>2, <4>1, <4>2
    <3> QED BY <3>1, <3>2
  <2> HIDE DEF h
  <2> QED BY <2>3
<1>4. Nat \subseteq Good
  <2> HIDE DEF Good
  <2> QED BY <1>2, <1>3, NumberInduction
<1>5. PICK g : \A s \in UpTo(Cardinality(S)) : g[s] = Term(g, s)
  BY <1>1, <1>4
<1>6. ASSUME NEW s \in SUBSET S PROVE g[s] = Term(g, s)
  BY <1>1, <1>5, FS_Subset
<1> DEFINE h == [s \in SUBSET S |-> g[s]]
<1>7. ASSUME NEW s \in SUBSET S PROVE h[s] = Term(h, s)
  <2>1. s \ {Pick(s)} \in SUBSET S
    OBVIOUS
  <2> QED BY <1>6, <2>1
<1>8. h = [s \in SUBSET S |-> Term(h, s)]
  <2> HIDE DEF Term
  <2> QED BY <1>7
<1> HIDE DEF h
<1> QED BY <1>8 DEF Sums

-----------------------------------------------------------------------------
(* Sums, one member at a time.                                             *)
LEMMA SumEmpty == ASSUME NEW f PROVE SumFunctionOnSet(f, {}) = 0
<1> DEFINE g == CHOOSE g : Sums(g, f, {})
<1>1. Sums(g, f, {})
  BY SumsExist, FS_EmptySet
<1> HIDE DEF g
<1>2. g[{}] = 0
  BY <1>1 DEF Sums
<1> QED BY <1>2, SumDef DEF g

LEMMA SumPick ==
  ASSUME NEW f, NEW S, IsFiniteSet(S), S # {}
  PROVE  SumFunctionOnSet(f, S) = f[Pick(S)] + SumFunctionOnSet(f, S \ {Pick(S)})
<1> DEFINE T == S \ {Pick(S)}
           g == CHOOSE g : Sums(g, f, S)
           h == CHOOSE h : Sums(h, f, T)
<1>1. IsFiniteSet(T) /\ T \subseteq S
  BY FS_RemoveElement
<1>2. Sums(g, f, S) /\ Sums(h, f, T)
  BY <1>1, SumsExist
<1>3. SumFunctionOnSet(f, S) = g[S] /\ SumFunctionOnSet(f, T) = h[T]
  BY SumDef
<1> HIDE DEF g, h
<1>4. g[S] = f[Pick(S)] + g[T]
  BY <1>2 DEF Sums
<1>5. g[T] = h[T]
  BY <1>1, <1>2, SumsAgree
<1> QED BY <1>3, <1>4, <1>5
LEMMA SumInt ==
  ASSUME NEW f, NEW S, IsFiniteSet(S), \A x \in S : f[x] \in Int
  PROVE  SumFunctionOnSet(f, S) \in Int
<1> DEFINE Good == {s \in SUBSET S : SumFunctionOnSet(f, s) \in Int}
<1>1. ASSUME NEW s \in SUBSET S, \A x \in s : s \ {x} \in Good PROVE s \in Good
  <2>1. CASE s = {}
    BY <2>1, SumEmpty
  <2>2. CASE s # {}
    <3>1. Pick(s) \in s
      BY <2>2, PickIn
    <3>2. SumFunctionOnSet(f, s) = f[Pick(s)] + SumFunctionOnSet(f, s \ {Pick(s)})
      BY <2>2, FS_Subset, SumPick
    <3> QED BY <1>1, <3>1, <3>2
  <2> QED BY <2>1, <2>2
<1>2. SUBSET S \subseteq Good
  <2> HIDE DEF Good
  <2> QED BY <1>1, SubsetInduction
<1> QED BY <1>2

(* Any element may be taken first.                                         *)
LEMMA SumRemove ==
  ASSUME NEW f, NEW S, IsFiniteSet(S), \A x \in S : f[x] \in Int, NEW x \in S
  PROVE  SumFunctionOnSet(f, S) = f[x] + SumFunctionOnSet(f, S \ {x})
<1> DEFINE Sum(s) == SumFunctionOnSet(f, s)
           Good == {s \in SUBSET S : \A z \in s : Sum(s) = f[z] + Sum(s \ {z})}
<1>1. ASSUME NEW s \in SUBSET S PROVE Sum(s) \in Int
  BY FS_Subset, SumInt
<1>2. ASSUME NEW s \in SUBSET S, \A z \in s : s \ {z} \in Good,
             NEW z \in s
      PROVE  Sum(s) = f[z] + Sum(s \ {z})
  <2> DEFINE y == Pick(s)
  <2>1. y \in s /\ Sum(s) = f[y] + Sum(s \ {y})
    BY FS_Subset, PickIn, SumPick
  <2> HIDE DEF y, Sum
  <2>2. CASE z = y
    BY <2>1, <2>2
  <2>3. CASE z # y
    <3>1. (s \ {y}) \ {z} = (s \ {z}) \ {y}
      OBVIOUS
    <3>2. Sum(s \ {y}) = f[z] + Sum((s \ {z}) \ {y})
      BY <1>2, <2>1, <2>3, <3>1
    <3>3. Sum(s \ {z}) = f[y] + Sum((s \ {z}) \ {y})
      BY <1>2, <2>1, <2>3
    <3>4. f[z] \in Int /\ f[y] \in Int /\ Sum((s \ {z}) \ {y}) \in Int
      BY <1>1, <2>1
    <3> QED BY <2>1, <3>2, <3>3, <3>4
  <2> QED BY <2>2, <2>3
<1>3. SUBSET S \subseteq Good
  <2>1. ASSUME NEW s \in SUBSET S, \A z \in s : s \ {z} \in Good PROVE s \in Good
    BY <1>2, <2>1
  <2> HIDE DEF Good
  <2> QED BY <2>1, SubsetInduction
<1> QED BY <1>3

-----------------------------------------------------------------------------
(* The sum of a combination is the combination of the sums.                *)
LEMMA SumLinear ==
  ASSUME NEW S, IsFiniteSet(S), NEW f, NEW g, NEW h, NEW a \in Int, NEW b \in Int,
         \A x \in S : f[x] \in Int /\ g[x] \in Int /\ h[x] = a * f[x] + b * g[x]
  PROVE  SumFunctionOnSet(h, S) = a * SumFunctionOnSet(f, S) + b * SumFunctionOnSet(g, S)
<1> DEFINE F(s) == SumFunctionOnSet(f, s)
           G(s) == SumFunctionOnSet(g, s)
           H(s) == SumFunctionOnSet(h, s)
           Good == {s \in SUBSET S : H(s) = a * F(s) + b * G(s)}
<1>1. ASSUME NEW s \in SUBSET S, \A x \in s : s \ {x} \in Good PROVE s \in Good
  <2>1. CASE s = {}
    BY <2>1, SumEmpty
  <2>2. CASE s # {}
    <3>1. PICK x : x \in s
      BY <2>2
    <3>2. IsFiniteSet(s) /\ \A z \in s : h[z] \in Int
      BY FS_Subset
    <3>3. /\ F(s) = f[x] + F(s \ {x})
          /\ G(s) = g[x] + G(s \ {x})
          /\ H(s) = h[x] + H(s \ {x})
      BY <3>1, <3>2, SumRemove
    <3>4. F(s \ {x}) \in Int /\ G(s \ {x}) \in Int
      BY <3>2, SumInt, FS_RemoveElement
    <3>5. H(s \ {x}) = a * F(s \ {x}) + b * G(s \ {x})
      BY <1>1, <3>1
    <3>6. f[x] \in Int /\ g[x] \in Int /\ h[x] = a * f[x] + b * g[x]
      BY <3>1
    <3>7. ASSUME NEW m \in Int, NEW n \in Int
          PROVE  (a * f[x] + b * g[x]) + (a * m + b * n) = a * (f[x] + m) + b * (g[x] + n)
      BY <3>6
    <3>8. H(s) = (a * f[x] + b * g[x]) + (a * F(s \ {x}) + b * G(s \ {x}))
      BY <3>3, <3>5, <3>6
    <3>9. H(s) = a * (f[x] + F(s \ {x})) + b * (g[x] + G(s \ {x}))
      <4> HIDE DEF F, G, H
      <4> QED BY <3>4, <3>7, <3>8
    <3>10. H(s) = a * F(s) + b * G(s)
      BY <3>3, <3>9
    <3> QED BY <3>10
  <2> QED BY <2>1, <2>2
<1>2. SUBSET S \subseteq Good
  <2> HIDE DEF Good
  <2> QED BY <1>1, SubsetInduction
<1> QED BY <1>2

LEMMA SumMonotone ==
  ASSUME NEW S, IsFiniteSet(S), NEW f, NEW g,
         \A x \in S : f[x] \in Int /\ g[x] \in Int /\ f[x] <= g[x]
  PROVE  SumFunctionOnSet(f, S) <= SumFunctionOnSet(g, S)
<1> DEFINE F(s) == SumFunctionOnSet(f, s)
           G(s) == SumFunctionOnSet(g, s)
           Good == {s \in SUBSET S : F(s) <= G(s)}
<1>1. ASSUME NEW s \in SUBSET S, \A x \in s : s \ {x} \in Good PROVE s \in Good
  <2>1. CASE s = {}
    BY <2>1, SumEmpty
  <2>2. CASE s # {}
    <3>1. PICK x : x \in s
      BY <2>2
    <3>2. IsFiniteSet(s)
      BY FS_Subset
    <3>3. F(s) = f[x] + F(s \ {x}) /\ G(s) = g[x] + G(s \ {x})
      BY <3>1, <3>2, SumRemove
    <3>4. F(s \ {x}) \in Int /\ G(s \ {x}) \in Int
      BY <3>2, SumInt, FS_RemoveElement
    <3>5. F(s \ {x}) <= G(s \ {x})
      BY <1>1, <3>1
    <3>6. f[x] \in Int /\ g[x] \in Int /\ f[x] <= g[x]
      BY <3>1
    <3>7. F(s) <= G(s)
      <4> HIDE DEF F, G
      <4> QED BY <3>3, <3>4, <3>5, <3>6
    <3> QED BY <3>7
  <2> QED BY <2>1, <2>2
<1>2. SUBSET S \subseteq Good
  <2> HIDE DEF Good
  <2> QED BY <1>1, SubsetInduction
<1> QED BY <1>2

(* The cases that are cited.                                               *)
LEMMA SumEqual ==
  ASSUME NEW S, IsFiniteSet(S), NEW f, NEW g, \A x \in S : f[x] \in Int /\ g[x] = f[x]
  PROVE  SumFunctionOnSet(g, S) = SumFunctionOnSet(f, S)
<1>1. \A x \in S : f[x] \in Int /\ f[x] \in Int /\ g[x] = 1 * f[x] + 0 * f[x]
  OBVIOUS
<1>2. SumFunctionOnSet(g, S) = 1 * SumFunctionOnSet(f, S) + 0 * SumFunctionOnSet(f, S)
  BY <1>1, SumLinear
<1> QED BY <1>2, SumInt

LEMMA SumTimes ==
  ASSUME NEW S, IsFiniteSet(S), NEW f, NEW g, NEW a \in Int,
         \A x \in S : f[x] \in Int /\ g[x] = a * f[x]
  PROVE  SumFunctionOnSet(g, S) = a * SumFunctionOnSet(f, S)
<1>1. \A x \in S : f[x] \in Int /\ f[x] \in Int /\ g[x] = a * f[x] + 0 * f[x]
  <2> SUFFICES ASSUME NEW x \in S PROVE f[x] \in Int /\ g[x] = a * f[x] + 0 * f[x]
    OBVIOUS
  <2>1. f[x] \in Int /\ g[x] = a * f[x]
    OBVIOUS
  <2>2. a * f[x] \in Int /\ 0 * f[x] = 0
    BY <2>1
  <2> QED BY <2>1, <2>2
<1>2. 0 \in Int
  OBVIOUS
<1>3. SumFunctionOnSet(g, S) = a * SumFunctionOnSet(f, S) + 0 * SumFunctionOnSet(f, S)
  BY <1>1, <1>2, SumLinear
<1>4. SumFunctionOnSet(f, S) \in Int
  BY SumInt
<1>5. a * SumFunctionOnSet(f, S) \in Int /\ 0 * SumFunctionOnSet(f, S) = 0
  BY <1>4
<1> QED BY <1>3, <1>5

LEMMA SumZero ==
  ASSUME NEW S, IsFiniteSet(S), NEW f, \A x \in S : f[x] = 0
  PROVE  SumFunctionOnSet(f, S) = 0
<1>1. \A x \in S : f[x] \in Int /\ f[x] \in Int /\ f[x] = 1 * f[x] + 1 * f[x]
  OBVIOUS
<1>2. SumFunctionOnSet(f, S) = 1 * SumFunctionOnSet(f, S) + 1 * SumFunctionOnSet(f, S)
  BY <1>1, SumLinear
<1> QED BY <1>2, SumInt, SMTT(30)

LEMMA SumPositive ==
  ASSUME NEW S, IsFiniteSet(S), S # {}, NEW f, \A x \in S : f[x] \in Nat \ {0}
  PROVE  SumFunctionOnSet(f, S) \in Nat \ {0}
<1>1. PICK x : x \in S
  OBVIOUS
<1>2. IsFiniteSet(S \ {x})
  BY FS_RemoveElement
<1> DEFINE zero == [y \in S |-> 0]
<1>3. SumFunctionOnSet(zero, S \ {x}) = 0
  BY <1>2, SumZero
<1>4. \A y \in S \ {x} : zero[y] \in Int /\ f[y] \in Int /\ zero[y] <= f[y]
  OBVIOUS
<1> HIDE DEF zero
<1>5. 0 <= SumFunctionOnSet(f, S \ {x}) /\ SumFunctionOnSet(f, S \ {x}) \in Int
  BY <1>2, <1>3, <1>4, SumMonotone, SumInt
<1>6. SumFunctionOnSet(f, S) = f[x] + SumFunctionOnSet(f, S \ {x})
  BY <1>1, SumRemove
<1> QED BY <1>1, <1>5, <1>6

(* A sum over the places of a sequence ends with its last term.            *)
LEMMA SumLast ==
  ASSUME NEW f, NEW n \in Nat, \A k \in 1..n+1 : f[k] \in Int
  PROVE  SumFunctionOnSet(f, 1..n+1) = SumFunctionOnSet(f, 1..n) + f[n + 1]
<1>1. IsFiniteSet(1..n+1) /\ IsFiniteSet(1..n)
  BY FS_Interval
<1>2. (1..n+1) \ {n + 1} = 1..n /\ n + 1 \in 1..n+1
  OBVIOUS
<1>3. SumFunctionOnSet(f, 1..n+1) = f[n + 1] + SumFunctionOnSet(f, (1..n+1) \ {n + 1})
  BY <1>1, <1>2, SumRemove
<1>4. SumFunctionOnSet(f, 1..n) \in Int /\ f[n + 1] \in Int
  BY <1>1, SumInt
<1>5. SumFunctionOnSet(f, 1..n+1) = f[n + 1] + SumFunctionOnSet(f, 1..n)
  BY <1>2, <1>3
<1> QED BY <1>4, <1>5

LEMMA SumBound ==
  ASSUME NEW f, NEW n \in Nat, NEW c \in Int, \A k \in 1..n : f[k] \in Int /\ f[k] <= c
  PROVE  SumFunctionOnSet(f, 1..n) <= n * c
<1> DEFINE F(m) == SumFunctionOnSet(f, 1..m)
           Good == {m \in Nat : m <= n => F(m) <= m * c}
<1>1. 0 \in Good
  <2>1. 1..0 = {}
    OBVIOUS
  <2>2. F(0) = 0
    BY <2>1, SumEmpty
  <2> HIDE DEF F
  <2> QED BY <2>2
<1>2. ASSUME NEW m \in Nat, m \in Good PROVE m + 1 \in Good
  <2> SUFFICES ASSUME m + 1 <= n PROVE F(m + 1) <= (m + 1) * c
    OBVIOUS
  <2>1. \A k \in 1..m+1 : f[k] \in Int
    OBVIOUS
  <2>2. F(m + 1) = F(m) + f[m + 1]
    BY <2>1, SumLast
  <2>3. f[m + 1] \in Int /\ f[m + 1] <= c
    OBVIOUS
  <2>4. F(m) \in Int
    <3>1. IsFiniteSet(1..m)
      BY FS_Interval
    <3>2. \A k \in 1..m : f[k] \in Int
      OBVIOUS
    <3> QED BY <3>1, <3>2, SumInt
  <2>5. F(m) <= m * c
    BY <1>2
  <2> HIDE DEF F
  <2>6. m * c \in Int /\ (m + 1) * c = m * c + c
    OBVIOUS
  <2> QED BY <2>2, <2>3, <2>4, <2>5, <2>6
<1>3. Nat \subseteq Good
  <2> HIDE DEF Good
  <2> QED BY <1>1, <1>2, NumberInduction
<1>4. n \in Good
  BY <1>3
<1> QED BY <1>4

(* A table summed by rows or by columns.                                   *)
LEMMA SumSwap ==
  ASSUME NEW S, IsFiniteSet(S), NEW n \in Nat, NEW f,
         \A k \in 1..n : \A x \in S : f[k][x] \in Int
  PROVE  SumFunctionOnSet([k \in 1..n |-> SumFunctionOnSet(f[k], S)], 1..n) =
         SumFunctionOnSet([x \in S |-> SumFunctionOnSet([k \in 1..n |-> f[k][x]], 1..n)], S)
<1> DEFINE Sum(g, T) == SumFunctionOnSet(g, T)
           row == [k \in 1..n |-> Sum(f[k], S)]
           col(x) == [k \in 1..n |-> f[k][x]]
           part(m) == [x \in S |-> Sum(col(x), 1..m)]
           Good == {m \in Nat : m <= n => Sum(row, 1..m) = Sum(part(m), S)}
<1>1. \A k \in 1..n : Sum(f[k], S) \in Int
  BY SumInt
<1>2. \A k \in 1..n : row[k] \in Int
  BY <1>1
<1>3. 0 \in Good
  <2>1. 1..0 = {}
    OBVIOUS
  <2>2. \A x \in S : part(0)[x] = 0
    BY <2>1, SumEmpty
  <2> HIDE DEF part
  <2>3. Sum(part(0), S) = 0
    BY <2>2, SumZero
  <2> QED BY <2>1, <2>3, SumEmpty
<1>4. ASSUME NEW m \in Nat, m \in Good PROVE m + 1 \in Good
  <2> SUFFICES ASSUME m + 1 <= n PROVE Sum(row, 1..m+1) = Sum(part(m + 1), S)
    OBVIOUS
  <2>1. Sum(row, 1..m) = Sum(part(m), S)
    BY <1>4
  <2>2. Sum(row, 1..m+1) = Sum(row, 1..m) + row[m + 1]
    <3> HIDE DEF row
    <3>1. \A k \in 1..m+1 : row[k] \in Int
      BY <1>2
    <3> QED BY <3>1, SumLast
  <2>3. row[m + 1] = Sum(f[m + 1], S)
    OBVIOUS
  <2>4. \A x \in S : f[m + 1][x] \in Int
    OBVIOUS
  <2>5. ASSUME NEW x \in S
        PROVE  part(m)[x] \in Int /\ part(m + 1)[x] = 1 * part(m)[x] + 1 * f[m + 1][x]
    <3>1. \A k \in 1..m+1 : col(x)[k] \in Int
      OBVIOUS
    <3>2. col(x)[m + 1] = f[m + 1][x]
      OBVIOUS
    <3>3. IsFiniteSet(1..m)
      BY FS_Interval
    <3> DEFINE c == col(x)
    <3> HIDE DEF c
    <3>4. Sum(c, 1..m+1) = Sum(c, 1..m) + c[m + 1] /\ Sum(c, 1..m) \in Int
      BY <3>1, <3>3, SumLast, SumInt DEF c
    <3>5. part(m)[x] = Sum(c, 1..m) /\ part(m + 1)[x] = Sum(c, 1..m+1)
      BY DEF c
    <3>6. c[m + 1] = f[m + 1][x] /\ f[m + 1][x] \in Int
      BY <3>2, <2>4 DEF c
    <3> HIDE DEF part, Sum
    <3> QED BY <3>4, <3>5, <3>6
  <2> DEFINE old == part(m)
             new == part(m + 1)
  <2> HIDE DEF part
  <2>6. \A x \in S : old[x] \in Int /\ f[m + 1][x] \in Int /\ new[x] = 1 * old[x] + 1 * f[m + 1][x]
    BY <2>4, <2>5
  <2> HIDE DEF old, new
  <2>7. Sum(new, S) = 1 * Sum(old, S) + 1 * Sum(f[m + 1], S)
    BY <2>6, SumLinear
  <2>8. Sum(old, S) \in Int /\ Sum(f[m + 1], S) \in Int
    BY <2>6, SumInt
  <2> HIDE DEF Sum
  <2> QED BY <2>1, <2>2, <2>3, <2>7, <2>8 DEF old, new
<1>5. Nat \subseteq Good
  <2> HIDE DEF Good
  <2> QED BY <1>3, <1>4, NumberInduction
<1>6. Sum(row, 1..n) = Sum(part(n), S)
  BY <1>5
<1> QED BY <1>6

-----------------------------------------------------------------------------
(* As many ranks as there are members are all taken.                       *)
LEMMA RanksAreTaken ==
  ASSUME NEW I, IsFiniteSet(I), NEW rank \in [I -> 1..Cardinality(I)],
         \A i, j \in I : rank[i] = rank[j] => i = j
  PROVE  \A n \in 1..Cardinality(I) : \E i \in I : rank[i] = n
<1> DEFINE c == Cardinality(I)
<1>1. c \in Nat
  BY FS_CardinalityType
<1>2. IsFiniteSet(1..c) /\ Cardinality(1..c) = c
  <2> HIDE DEF c
  <2>1. IsFiniteSet(1..c) /\ Cardinality(1..c) = IF 1 > c THEN 0 ELSE c - 1 + 1
    BY <1>1, FS_Interval
  <2> QED BY <1>1, <2>1
<1>3. rank \in Injection(I, 1..c)
  BY DEF Injection, IsInjective
<1> HIDE DEF c
<1>4. rank \in Surjection(I, 1..c)
  BY <1>2, <1>3, FS_Injection DEF c
<1> QED BY <1>4 DEF Surjection, c

LEMMA NthOfEach ==
  ASSUME NEW I, IsFiniteSet(I), I \subseteq Int
  PROVE  /\ Cardinality(I) \in Nat
         /\ \A n \in 1..Cardinality(I) : Nth(I, n) \in I
         /\ \A n, m \in 1..Cardinality(I) : Nth(I, n) = Nth(I, m) => n = m
         /\ \A i \in I : \E n \in 1..Cardinality(I) : Nth(I, n) = i
         /\ \A n \in 1..Cardinality(I) : Cardinality({j \in I : j <= Nth(I, n)}) = n
<1> DEFINE c == Cardinality(I)
           upTo(i) == {j \in I : j <= i}
           rank == [i \in I |-> Cardinality(upTo(i))]
<1>1. c \in Nat
  BY FS_CardinalityType
<1>2. ASSUME NEW i \in I
      PROVE  IsFiniteSet(upTo(i)) /\ rank[i] = Cardinality(upTo(i)) /\ rank[i] \in 1..c
  <2>1. upTo(i) \in SUBSET I /\ i \in upTo(i)
    OBVIOUS
  <2>2. IsFiniteSet(upTo(i)) /\ Cardinality(upTo(i)) <= c /\ Cardinality(upTo(i)) \in Nat
    BY <2>1, FS_Subset, FS_CardinalityType
  <2>3. Cardinality(upTo(i)) # 0
    BY <2>1, <2>2, FS_EmptySet
  <2> HIDE DEF upTo
  <2>4. rank[i] = Cardinality(upTo(i))
    OBVIOUS
  <2> HIDE DEF rank, c
  <2> QED BY <1>1, <2>2, <2>3, <2>4
<1>3. ASSUME NEW i \in I, NEW j \in I, i < j PROVE rank[i] < rank[j]
  <2>1. upTo(i) \in SUBSET upTo(j) /\ j \in upTo(j) /\ j \notin upTo(i)
    <3>1. i \in Int /\ j \in Int /\ \A k \in I : k \in Int /\ (k <= i => k <= j)
      BY <1>3
    <3>2. \A k \in upTo(i) : k \in upTo(j)
      BY <3>1
    <3>3. j \in upTo(j) /\ j \notin upTo(i)
      BY <1>3, <3>1
    <3> HIDE DEF upTo
    <3> QED BY <3>2, <3>3
  <2>2. upTo(i) # upTo(j)
    BY <2>1
  <2> HIDE DEF upTo
  <2>3. /\ Cardinality(upTo(i)) <= Cardinality(upTo(j))
        /\ Cardinality(upTo(i)) # Cardinality(upTo(j))
    BY <1>2, <2>1, <2>2, FS_Subset
  <2>4. rank[i] = Cardinality(upTo(i)) /\ rank[j] = Cardinality(upTo(j))
    BY <1>2
  <2>5. rank[i] \in Int /\ rank[j] \in Int
    BY <1>2
  <2> HIDE DEF rank
  <2> QED BY <2>3, <2>4, <2>5
<1>4. \A i, j \in I : rank[i] = rank[j] => i = j
  <2> SUFFICES ASSUME NEW i \in I, NEW j \in I, i # j PROVE rank[i] # rank[j]
    OBVIOUS
  <2>1. rank[i] \in Int /\ rank[j] \in Int
    BY <1>2
  <2>2. rank[i] < rank[j] \/ rank[j] < rank[i]
    <3>1. i < j \/ j < i
      OBVIOUS
    <3> HIDE DEF rank
    <3> QED BY <1>3, <3>1
  <2> HIDE DEF rank
  <2> QED BY <2>1, <2>2
<1>5. rank \in [I -> 1..c]
  BY <1>2
<1>6. \A n \in 1..c : \E i \in I : rank[i] = n
  <2> HIDE DEF rank
  <2> QED BY <1>4, <1>5, RanksAreTaken
<1>7. ASSUME NEW n \in 1..c
      PROVE  Nth(I, n) \in I /\ rank[Nth(I, n)] = n /\ Cardinality(upTo(Nth(I, n))) = n
  <2>1. \E i \in I : Cardinality(upTo(i)) = n
    BY <1>6, <1>2
  <2>2. Nth(I, n) \in I /\ Cardinality(upTo(Nth(I, n))) = n
    BY <2>1 DEF Nth
  <2> HIDE DEF upTo
  <2> QED BY <2>2
<1>9. \A n \in 1..c : Cardinality({j \in I : j <= Nth(I, n)}) = n
  BY <1>7
<1> HIDE DEF rank
<1>8. ASSUME NEW i \in I PROVE \E n \in 1..c : Nth(I, n) = i
  <2>1. rank[i] \in 1..c
    BY <1>2
  <2>2. Nth(I, rank[i]) \in I /\ rank[Nth(I, rank[i])] = rank[i]
    BY <1>7, <2>1
  <2> QED BY <1>4, <2>1, <2>2
<1> QED BY <1>1, <1>7, <1>8, <1>9

LEMMA NthIs ==
  ASSUME NEW I, IsFiniteSet(I), I \subseteq Int, NEW i \in I,
         NEW n, n = Cardinality({j \in I : j <= i})
  PROVE  n \in 1..Cardinality(I) /\ Nth(I, n) = i
<1>1. PICK m \in 1..Cardinality(I) : Nth(I, m) = i
  BY NthOfEach
<1>2. Cardinality({j \in I : j <= Nth(I, m)}) = m
  BY NthOfEach
<1>3. m = n
  BY <1>1, <1>2
<1> QED BY <1>1, <1>3

(* A part of a list has the members at its positions, each once.           *)
IsPart(t, s, I) ==
  /\ DOMAIN t = 1..Cardinality(I)
  /\ \A n \in DOMAIN t : Nth(I, n) \in I /\ t[n] = s[Nth(I, n)]
  /\ \A n, m \in DOMAIN t : Nth(I, n) = Nth(I, m) => n = m
  /\ \A i \in I : \E n \in DOMAIN t : Nth(I, n) = i /\ t[n] = s[i]

LEMMA PartMembers ==
  ASSUME NEW s, NEW I, IsFiniteSet(I), I \subseteq Int
  PROVE  IsPart(Part(s, I), s, I)
<1> DEFINE t == Part(s, I)
           c == Cardinality(I)
<1>1. /\ c \in Nat
      /\ \A n \in 1..c : Nth(I, n) \in I
      /\ \A n, m \in 1..c : Nth(I, n) = Nth(I, m) => n = m
      /\ \A i \in I : \E n \in 1..c : Nth(I, n) = i
  BY NthOfEach
<1>2. t = [n \in 1..c |-> s[Nth(I, n)]]
  BY DEF Part
<1> HIDE DEF t, c
<1>3. DOMAIN t = 1..c /\ \A n \in 1..c : t[n] = s[Nth(I, n)]
  BY <1>2
<1>4. \A i \in I : \E n \in DOMAIN t : Nth(I, n) = i /\ t[n] = s[i]
  BY <1>1, <1>3
<1> QED BY <1>1, <1>3, <1>4 DEF t, c, IsPart

LEMMA PartIsList ==
  ASSUME NEW s, NEW I, IsFiniteSet(I), I \subseteq Int, NEW S, \A i \in I : s[i] \in S
  PROVE  Part(s, I) \in Seq(S) /\ Len(Part(s, I)) = Cardinality(I)
<1> DEFINE c == Cardinality(I)
<1>1. c \in Nat /\ \A n \in 1..c : Nth(I, n) \in I
  BY NthOfEach
<1>2. Part(s, I) = [n \in 1..c |-> s[Nth(I, n)]]
  BY DEF Part
<1> HIDE DEF c
<1>3. Part(s, I) \in [1..c -> S]
  BY <1>1, <1>2
<1> QED BY <1>1, <1>3 DEF c

(* Counting in a part is counting in the list.                             *)
HowOftenAt(s, I, C) == Cardinality({i \in I : s[i] \in C})
HowOften(s, C) == HowOftenAt(s, DOMAIN s, C)

LEMMA PartCounts ==
  ASSUME NEW s, NEW I, IsFiniteSet(I), I \subseteq Int, NEW C
  PROVE  HowOften(Part(s, I), C) = HowOftenAt(s, I, C)
<1> DEFINE t == Part(s, I)
           J == {n \in DOMAIN t : t[n] \in C}
           K == {i \in I : s[i] \in C}
           f == [n \in J |-> Nth(I, n)]
<1>0. IsPart(t, s, I)
  BY PartMembers
<1> HIDE DEF t
<1>1. /\ \A n \in DOMAIN t : Nth(I, n) \in I /\ t[n] = s[Nth(I, n)]
      /\ \A i \in I : \E n \in DOMAIN t : Nth(I, n) = i /\ t[n] = s[i]
      /\ \A n, m \in DOMAIN t : Nth(I, n) = Nth(I, m) => n = m
  BY <1>0 DEF IsPart
<1>3. f \in [J -> K] /\ \A n \in J : f[n] = Nth(I, n)
  BY <1>1
<1>4. \A i \in K : \E n \in J : f[n] = i
  BY <1>1
<1>5. \A n, m \in J : f[n] = f[m] => n = m
  BY <1>1
<1>6. IsFiniteSet(K)
  BY FS_Subset
<1>7. HowOften(t, C) = Cardinality(J) /\ HowOftenAt(s, I, C) = Cardinality(K)
  BY DEF HowOften, HowOftenAt
<1> HIDE DEF f, J, K
<1>8. f \in Injection(J, K) /\ f \in Surjection(J, K)
  BY <1>3, <1>4, <1>5 DEF Injection, IsInjective, Surjection
<1>9. Cardinality(J) = Cardinality(K)
  BY <1>6, <1>8, FS_Injection
<1> QED BY <1>7, <1>9 DEF t

(* A list in the order of its ranks has each member at its rank.           *)
RankOrdered(t, s, rank) ==
  /\ \A i \in DOMAIN s : t[rank[i]] = s[i]
  /\ \A n \in DOMAIN s : \E i \in DOMAIN s : rank[i] = n

LEMMA RankOrderMembers ==
  ASSUME NEW S, NEW s \in Seq(S), NEW rank \in [DOMAIN s -> 1..Len(s)],
         \A i, j \in DOMAIN s : rank[i] = rank[j] => i = j
  PROVE  RankOrdered(RankOrder(s, rank), s, rank)
<1> DEFINE t == RankOrder(s, rank)
           at(n) == CHOOSE i \in DOMAIN s : rank[i] = n
<1>1. DOMAIN s = 1..Len(s) /\ Len(s) \in Nat
  OBVIOUS
<1>2. IsFiniteSet(DOMAIN s) /\ Cardinality(DOMAIN s) = Len(s)
  <2>1. IsFiniteSet(1..Len(s)) /\ Cardinality(1..Len(s)) = IF 1 > Len(s) THEN 0 ELSE Len(s) - 1 + 1
    BY <1>1, FS_Interval
  <2> QED BY <1>1, <2>1
<1>3. \A n \in DOMAIN s : \E i \in DOMAIN s : rank[i] = n
  <2>1. rank \in [DOMAIN s -> 1..Cardinality(DOMAIN s)]
    BY <1>2
  <2>2. \A n \in 1..Cardinality(DOMAIN s) : \E i \in DOMAIN s : rank[i] = n
    BY <1>2, <2>1, RanksAreTaken
  <2> QED BY <1>1, <1>2, <2>2
<1>4. \A n \in DOMAIN s : at(n) \in DOMAIN s /\ rank[at(n)] = n
  BY <1>3
<1>5. t = [n \in 1..Len(s) |-> s[at(n)]]
  BY <1>1 DEF RankOrder
<1>6. \A i \in DOMAIN s : rank[i] \in DOMAIN s /\ at(rank[i]) = i
  BY <1>1, <1>4
<1> HIDE DEF t, at
<1>7. \A i \in DOMAIN s : t[rank[i]] = s[i]
  BY <1>1, <1>5, <1>6
<1> QED BY <1>3, <1>7 DEF t, RankOrdered

LEMMA RankOrderIsList ==
  ASSUME NEW S, NEW s \in Seq(S), NEW rank \in [DOMAIN s -> 1..Len(s)],
         \A i, j \in DOMAIN s : rank[i] = rank[j] => i = j
  PROVE  RankOrder(s, rank) \in Seq(S) /\ Len(RankOrder(s, rank)) = Len(s)
<1> DEFINE t == RankOrder(s, rank)
           at(n) == CHOOSE i \in DOMAIN s : rank[i] = n
<1>1. DOMAIN s = 1..Len(s) /\ Len(s) \in Nat
  OBVIOUS
<1>2. \A n \in DOMAIN s : \E i \in DOMAIN s : rank[i] = n
  BY RankOrderMembers DEF RankOrdered
<1>3. \A n \in DOMAIN s : at(n) \in DOMAIN s
  BY <1>2
<1>4. t = [n \in 1..Len(s) |-> s[at(n)]]
  BY <1>1 DEF RankOrder
<1> HIDE DEF t, at
<1>5. t \in [1..Len(s) -> S]
  BY <1>1, <1>3, <1>4
<1>6. t \in Seq(S) /\ Len(t) = Len(s)
  BY <1>1, <1>5
<1> QED BY <1>6 DEF t

(* What a selection by value keeps: a list of such values, those of the    *)
(* list, as often as the list has them.                                    *)
Having(s, C) == Part(s, {i \in DOMAIN s : s[i] \in C})
Distinct(s) == \A i, j \in DOMAIN s : s[i] = s[j] => i = j

LEMMA Positions ==
  ASSUME NEW S, NEW s \in Seq(S)
  PROVE  /\ Len(s) \in Nat /\ DOMAIN s = 1..Len(s)
         /\ IsFiniteSet(DOMAIN s) /\ Cardinality(DOMAIN s) = Len(s)
<1>1. Len(s) \in Nat /\ DOMAIN s = 1..Len(s)
  OBVIOUS
<1>2. IsFiniteSet(1..Len(s)) /\ Cardinality(1..Len(s)) = IF 1 > Len(s) THEN 0 ELSE Len(s) - 1 + 1
  BY <1>1, FS_Interval
<1> QED BY <1>1, <1>2

LEMMA PositionsHaving ==
  ASSUME NEW S, NEW s \in Seq(S), NEW C, NEW I, I = {i \in DOMAIN s : s[i] \in C}
  PROVE  IsFiniteSet(I) /\ I \subseteq Int /\ I \subseteq DOMAIN s
<1>1. DOMAIN s = 1..Len(s) /\ IsFiniteSet(DOMAIN s) /\ Len(s) \in Nat
  BY Positions
<1>2. I \in SUBSET DOMAIN s
  OBVIOUS
<1>3. IsFiniteSet(I)
  BY <1>1, <1>2, FS_Subset
<1> QED BY <1>1, <1>2, <1>3

LEMMA HavingIsPart ==
  ASSUME NEW S, NEW s \in Seq(S), NEW C, NEW I, I = {i \in DOMAIN s : s[i] \in C}
  PROVE  Having(s, C) = Part(s, I) /\ IsPart(Having(s, C), s, I)
<1>1. IsFiniteSet(I) /\ I \subseteq Int
  BY PositionsHaving
<1>2. IsPart(Part(s, I), s, I)
  BY <1>1, PartMembers
<1>3. Having(s, C) = Part(s, I)
  BY DEF Having
<1> QED BY <1>2, <1>3

LEMMA HavingIsList ==
  ASSUME NEW S, NEW s \in Seq(S), NEW C
  PROVE  /\ Having(s, C) \in Seq(S \cap C)
         /\ Len(Having(s, C)) = HowOften(s, C)
<1>1. PICK I : I = {i \in DOMAIN s : s[i] \in C}
  OBVIOUS
<1>2. IsFiniteSet(I) /\ I \subseteq Int /\ Having(s, C) = Part(s, I)
  BY <1>1, PositionsHaving, HavingIsPart
<1>3. \A i \in I : s[i] \in S \cap C
  BY <1>1
<1>4. Part(s, I) \in Seq(S \cap C) /\ Len(Part(s, I)) = Cardinality(I)
  BY <1>2, <1>3, PartIsList
<1>5. HowOften(s, C) = Cardinality(I)
  BY <1>1 DEF HowOften, HowOftenAt
<1> QED BY <1>2, <1>4, <1>5

LEMMA HavingMembers ==
  ASSUME NEW S, NEW s \in Seq(S), NEW C
  PROVE  ToSet(Having(s, C)) = ToSet(s) \cap C
<1>1. PICK I : I = {i \in DOMAIN s : s[i] \in C}
  OBVIOUS
<1> DEFINE t == Having(s, C)
<1>2. IsPart(t, s, I)
  BY <1>1, HavingIsPart
<1> HIDE DEF t
<1>3. /\ \A n \in DOMAIN t : Nth(I, n) \in I /\ t[n] = s[Nth(I, n)]
      /\ \A i \in I : \E n \in DOMAIN t : t[n] = s[i]
  BY <1>2 DEF IsPart
<1>4. ASSUME NEW x \in ToSet(t) PROVE x \in ToSet(s) /\ x \in C
  <2>1. PICK n \in DOMAIN t : x = t[n]
    BY DEF ToSet
  <2>2. Nth(I, n) \in DOMAIN s /\ x = s[Nth(I, n)] /\ s[Nth(I, n)] \in C
    BY <1>1, <1>3, <2>1
  <2> QED BY <2>2 DEF ToSet
<1>5. ASSUME NEW x \in ToSet(s), x \in C PROVE x \in ToSet(t)
  <2>1. PICK i \in DOMAIN s : x = s[i]
    BY DEF ToSet
  <2>2. i \in I
    BY <1>1, <1>5, <2>1
  <2>3. PICK n \in DOMAIN t : t[n] = s[i]
    BY <1>3, <2>2
  <2> QED BY <2>1, <2>3 DEF ToSet
<1> QED BY <1>4, <1>5 DEF t

LEMMA HavingDistinct ==
  ASSUME NEW S, NEW s \in Seq(S), NEW C, Distinct(s) PROVE Distinct(Having(s, C))
<1>1. PICK I : I = {i \in DOMAIN s : s[i] \in C}
  OBVIOUS
<1> DEFINE t == Having(s, C)
<1>2. IsPart(t, s, I)
  BY <1>1, HavingIsPart
<1> HIDE DEF t
<1> SUFFICES ASSUME NEW n \in DOMAIN t, NEW m \in DOMAIN t, t[n] = t[m] PROVE n = m
  BY DEF Distinct, t
<1>3. s[Nth(I, n)] = s[Nth(I, m)] /\ Nth(I, n) \in I /\ Nth(I, m) \in I
  BY <1>2 DEF IsPart
<1>4. Nth(I, n) = Nth(I, m)
  BY <1>1, <1>3 DEF Distinct
<1> QED BY <1>2, <1>4 DEF IsPart

LEMMA HavingTimes ==
  ASSUME NEW S, NEW s \in Seq(S), NEW C, NEW B
  PROVE  HowOften(Having(s, C), B) = HowOften(s, C \cap B)
<1>1. PICK I : I = {i \in DOMAIN s : s[i] \in C}
  OBVIOUS
<1>2. IsFiniteSet(I) /\ I \subseteq Int /\ Having(s, C) = Part(s, I)
  BY <1>1, PositionsHaving, HavingIsPart
<1>3. HowOften(Part(s, I), B) = HowOftenAt(s, I, B)
  BY <1>2, PartCounts
<1>4. {i \in I : s[i] \in B} = {i \in DOMAIN s : s[i] \in C \cap B}
  BY <1>1
<1>5. HowOftenAt(s, I, B) = HowOften(s, C \cap B)
  BY <1>4 DEF HowOften, HowOftenAt
<1> QED BY <1>2, <1>3, <1>5

LEMMA TimesOne ==
  ASSUME NEW s, NEW C, NEW k \in DOMAIN s, \A i \in DOMAIN s : s[i] \in C <=> i = k
  PROVE  HowOften(s, C) = 1
<1>1. {i \in DOMAIN s : s[i] \in C} = {k}
  OBVIOUS
<1> QED BY <1>1, FS_Singleton DEF HowOften, HowOftenAt

LEMMA TimesNone ==
  ASSUME NEW s, NEW C, \A i \in DOMAIN s : s[i] \notin C PROVE HowOften(s, C) = 0
<1>1. {i \in DOMAIN s : s[i] \in C} = {}
  OBVIOUS
<1> QED BY <1>1, FS_EmptySet DEF HowOften, HowOftenAt

-----------------------------------------------------------------------------
(* Of the members of a list, those that are met first are all of them,     *)
(* once.                                                                   *)
FirstOnes(k) == {i \in DOMAIN k : \A j \in 1..i-1 : k[j] # k[i]}

LEMMA FirstsAreAll ==
  ASSUME NEW S, NEW k \in Seq(S)
  PROVE  /\ Part(k, FirstOnes(k)) \in Seq(S)
         /\ ToSet(Part(k, FirstOnes(k))) = ToSet(k)
         /\ Distinct(Part(k, FirstOnes(k)))
<1>1. PICK I : I = FirstOnes(k)
  OBVIOUS
<1>2. DOMAIN k = 1..Len(k) /\ IsFiniteSet(DOMAIN k) /\ Len(k) \in Nat
  BY Positions
<1>3. I \in SUBSET DOMAIN k
  BY <1>1 DEF FirstOnes
<1>4. IsFiniteSet(I) /\ I \subseteq Int
  <2>1. IsFiniteSet(I)
    BY <1>2, <1>3, FS_Subset
  <2> QED BY <1>2, <1>3, <2>1
<1> DEFINE t == Part(k, I)
<1>5. IsPart(t, k, I)
  BY <1>4, PartMembers
<1>6. t \in Seq(S)
  <2>1. \A i \in I : k[i] \in S
    BY <1>2, <1>3
  <2> QED BY <1>4, <2>1, PartIsList
<1> HIDE DEF t
<1>7. /\ \A n \in DOMAIN t : Nth(I, n) \in I /\ t[n] = k[Nth(I, n)]
      /\ \A i \in I : \E n \in DOMAIN t : t[n] = k[i]
      /\ \A n, m \in DOMAIN t : Nth(I, n) = Nth(I, m) => n = m
  BY <1>5 DEF IsPart
<1>8. \A i \in DOMAIN k : \E f \in I : k[f] = k[i]
  <2> DEFINE Good == {m \in Nat : \A i \in DOMAIN k : i <= m => \E f \in I : k[f] = k[i]}
  <2>1. 0 \in Good
    BY <1>2
  <2>2. ASSUME NEW m \in Nat, m \in Good PROVE m + 1 \in Good
    <3> SUFFICES ASSUME NEW i \in DOMAIN k, i <= m + 1 PROVE \E f \in I : k[f] = k[i]
      OBVIOUS
    <3>1. CASE i \in I
      BY <3>1
    <3>2. CASE i \notin I
      <4>1. PICK j \in 1..i-1 : k[j] = k[i]
        BY <1>1, <3>2 DEF FirstOnes
      <4>2. j \in DOMAIN k /\ j <= m
        BY <1>2, <4>1
      <4> QED BY <2>2, <4>1, <4>2
    <3> QED BY <3>1, <3>2
  <2> HIDE DEF Good
  <2>3. Nat \subseteq Good
    BY <2>1, <2>2, NumberInduction
  <2>4. Len(k) \in Good
    BY <1>2, <2>3
  <2> QED BY <1>2, <2>4 DEF Good
<1>9. ToSet(t) = ToSet(k)
  <2>1. ASSUME NEW x \in ToSet(t) PROVE x \in ToSet(k)
    <3>1. PICK n \in DOMAIN t : x = t[n]
      BY DEF ToSet
    <3>2. Nth(I, n) \in DOMAIN k /\ x = k[Nth(I, n)]
      BY <1>3, <1>7, <3>1
    <3> QED BY <3>2 DEF ToSet
  <2>2. ASSUME NEW x \in ToSet(k) PROVE x \in ToSet(t)
    <3>1. PICK i \in DOMAIN k : x = k[i]
      BY DEF ToSet
    <3>2. PICK f \in I : k[f] = x
      BY <1>8, <3>1
    <3>3. PICK n \in DOMAIN t : t[n] = k[f]
      BY <1>7
    <3> QED BY <3>2, <3>3 DEF ToSet
  <2> QED BY <2>1, <2>2
<1>10. Distinct(t)
  <2> SUFFICES ASSUME NEW n \in DOMAIN t, NEW m \in DOMAIN t, t[n] = t[m] PROVE n = m
    BY DEF Distinct
  <2>1. PICK i \in I : i = Nth(I, n) /\ t[n] = k[i]
    BY <1>7
  <2>2. PICK j \in I : j = Nth(I, m) /\ t[m] = k[j]
    BY <1>7
  <2>3. i \in 1..Len(k) /\ j \in 1..Len(k) /\ k[i] = k[j]
    BY <1>2, <1>3, <2>1, <2>2
  <2>4. ~(i < j) /\ ~(j < i)
    <3>1. \A a \in 1..i-1 : k[a] # k[i]
      BY <1>1 DEF FirstOnes
    <3>2. \A a \in 1..j-1 : k[a] # k[j]
      BY <1>1 DEF FirstOnes
    <3> QED BY <2>3, <3>1, <3>2
  <2>5. i = j
    BY <2>3, <2>4
  <2> QED BY <1>7, <2>1, <2>2, <2>5
<1> QED BY <1>1, <1>6, <1>9, <1>10 DEF t

-----------------------------------------------------------------------------
(* Ranks in a total order of the positions 1..n, a set of pairs, and the   *)
(* list they make: a rearrangement in that order.                          *)
IsOrder(R, n) ==
  /\ \A i \in 1..n : <<i, i>> \in R
  /\ \A i, j \in 1..n : <<i, j>> \in R \/ <<j, i>> \in R
  /\ \A i, j \in 1..n : <<i, j>> \in R /\ <<j, i>> \in R => i = j
  /\ \A i, j, k \in 1..n : <<i, j>> \in R /\ <<j, k>> \in R => <<i, k>> \in R

UpTo(R, n, i) == {j \in 1..n : <<j, i>> \in R}
RanksOf(R, n) == [i \in 1..n |-> Cardinality(UpTo(R, n, i))]

AreRanks(rank, R, n) ==
  /\ rank \in [1..n -> 1..n]
  /\ \A i, j \in 1..n : rank[i] = rank[j] => i = j
  /\ \A i, j \in 1..n : rank[i] < rank[j] => <<i, j>> \in R

LEMMA OrderRanks ==
  ASSUME NEW n \in Nat, NEW R, IsOrder(R, n), NEW rank, rank = RanksOf(R, n)
  PROVE  AreRanks(rank, R, n)
<1>1. IsFiniteSet(1..n) /\ Cardinality(1..n) = n
  <2>1. IsFiniteSet(1..n) /\ Cardinality(1..n) = IF 1 > n THEN 0 ELSE n - 1 + 1
    BY FS_Interval
  <2> QED BY <2>1
<1>2. ASSUME NEW i \in 1..n
      PROVE  /\ UpTo(R, n, i) \in SUBSET (1..n) /\ i \in UpTo(R, n, i)
             /\ IsFiniteSet(UpTo(R, n, i)) /\ rank[i] = Cardinality(UpTo(R, n, i))
             /\ rank[i] \in 1..n
  <2>1. UpTo(R, n, i) \in SUBSET (1..n) /\ i \in UpTo(R, n, i)
    BY DEF UpTo, IsOrder
  <2>2. /\ IsFiniteSet(UpTo(R, n, i)) /\ Cardinality(UpTo(R, n, i)) <= n
        /\ Cardinality(UpTo(R, n, i)) \in Nat
    BY <1>1, <2>1, FS_Subset, FS_CardinalityType
  <2>3. Cardinality(UpTo(R, n, i)) # 0
    BY <2>1, <2>2, FS_EmptySet
  <2>4. rank[i] = Cardinality(UpTo(R, n, i))
    BY DEF RanksOf
  <2> QED BY <2>1, <2>2, <2>3, <2>4
<1>3. ASSUME NEW i \in 1..n, NEW j \in 1..n, i # j, <<i, j>> \in R PROVE rank[i] < rank[j]
  <2>1. j \notin UpTo(R, n, i)
    BY <1>3 DEF UpTo, IsOrder
  <2>2. \A k \in 1..n : k \in UpTo(R, n, i) => k \in UpTo(R, n, j)
    BY <1>3 DEF UpTo, IsOrder
  <2>3. UpTo(R, n, i) \in SUBSET UpTo(R, n, j) /\ UpTo(R, n, i) # UpTo(R, n, j)
    BY <1>2, <2>1, <2>2
  <2>4. /\ Cardinality(UpTo(R, n, i)) <= Cardinality(UpTo(R, n, j))
        /\ Cardinality(UpTo(R, n, i)) # Cardinality(UpTo(R, n, j))
    BY <1>2, <2>3, FS_Subset
  <2>5. /\ rank[i] = Cardinality(UpTo(R, n, i)) /\ rank[j] = Cardinality(UpTo(R, n, j))
        /\ rank[i] \in Int /\ rank[j] \in Int
    BY <1>2
  <2> QED BY <2>4, <2>5
<1>4. ASSUME NEW i \in 1..n, NEW j \in 1..n
      PROVE  i = j \/ (<<i, j>> \in R /\ rank[i] < rank[j]) \/ rank[j] < rank[i]
  BY <1>3 DEF IsOrder
<1>5. \A i \in 1..n : rank[i] \in Int
  BY <1>2
<1>6. \A i, j \in 1..n : rank[i] = rank[j] => i = j
  <2> SUFFICES ASSUME NEW i \in 1..n, NEW j \in 1..n, i # j PROVE rank[i] # rank[j]
    OBVIOUS
  <2>1. rank[i] < rank[j] \/ rank[j] < rank[i]
    BY <1>4
  <2> QED BY <1>5, <2>1
<1>7. \A i, j \in 1..n : rank[i] < rank[j] => <<i, j>> \in R
  BY <1>4, <1>5
<1>8. rank \in [1..n -> 1..n]
  <2>1. rank = [i \in 1..n |-> rank[i]]
    BY DEF RanksOf
  <2> QED BY <1>2, <2>1
<1> QED BY <1>6, <1>7, <1>8 DEF AreRanks

Arranges(at, r, s, R) ==
  /\ at \in [DOMAIN s -> DOMAIN s]
  /\ \A n \in DOMAIN s : r[n] = s[at[n]]
  /\ \A n, m \in DOMAIN s : at[n] = at[m] => n = m
  /\ \A i \in DOMAIN s : \E n \in DOMAIN s : at[n] = i
  /\ \A n, m \in DOMAIN s : n < m => <<at[n], at[m]>> \in R

LEMMA RanksArrange ==
  ASSUME NEW S, NEW s \in Seq(S), NEW R, IsOrder(R, Len(s)),
         NEW r, r = RankOrder(s, RanksOf(R, Len(s)))
  PROVE  r \in Seq(S) /\ Len(r) = Len(s) /\ \E at : Arranges(at, r, s, R)
<1>1. PICK n : n = Len(s)
  OBVIOUS
<1>2. n \in Nat /\ DOMAIN s = 1..n
  BY <1>1
<1>3. PICK rank : rank = RanksOf(R, n)
  OBVIOUS
<1>4. AreRanks(rank, R, n)
  BY <1>1, <1>2, <1>3, OrderRanks
<1>5. /\ rank \in [1..n -> 1..n]
      /\ \A i, j \in 1..n : rank[i] = rank[j] => i = j
      /\ \A i, j \in 1..n : rank[i] < rank[j] => <<i, j>> \in R
  BY <1>4 DEF AreRanks
<1>6. rank \in [DOMAIN s -> 1..Len(s)] /\ \A i, j \in DOMAIN s : rank[i] = rank[j] => i = j
  BY <1>1, <1>2, <1>5
<1>7. RankOrdered(RankOrder(s, rank), s, rank)
  BY <1>6, RankOrderMembers
<1>8. /\ \A i \in DOMAIN s : r[rank[i]] = s[i]
      /\ \A m \in DOMAIN s : \E i \in DOMAIN s : rank[i] = m
  BY <1>1, <1>3, <1>7 DEF RankOrdered
<1> DEFINE place(m) == CHOOSE i \in DOMAIN s : rank[i] = m
           at == [m \in DOMAIN s |-> place(m)]
<1>9. \A m \in DOMAIN s : place(m) \in DOMAIN s /\ rank[place(m)] = m
  BY <1>8
<1>10. at \in [DOMAIN s -> DOMAIN s] /\ \A m \in DOMAIN s : at[m] \in DOMAIN s /\ rank[at[m]] = m
  BY <1>9
<1> HIDE DEF at, place
<1>11. \A m \in DOMAIN s : r[m] = s[at[m]]
  BY <1>8, <1>10
<1>12. \A i \in DOMAIN s : rank[i] \in DOMAIN s /\ at[rank[i]] = i
  BY <1>1, <1>2, <1>5, <1>10
<1>13. \A m, k \in DOMAIN s : m < k => <<at[m], at[k]>> \in R
  BY <1>2, <1>5, <1>10
<1>14. Arranges(at, r, s, R)
  BY <1>10, <1>11, <1>12, <1>13 DEF Arranges
<1>15. r \in Seq(S) /\ Len(r) = Len(s)
  BY <1>1, <1>3, <1>6, RankOrderIsList
<1> QED BY <1>14, <1>15

-----------------------------------------------------------------------------
(* A concatenation has the members of its parts, as often as they do.      *)
LEMMA TimesIsNat == ASSUME NEW S, NEW s \in Seq(S), NEW C PROVE HowOften(s, C) \in Nat
<1>1. PICK I : I = {i \in DOMAIN s : s[i] \in C}
  OBVIOUS
<1>2. IsFiniteSet(I)
  BY <1>1, PositionsHaving
<1> QED BY <1>1, <1>2, FS_CardinalityType DEF HowOften, HowOftenAt

Shifted(n, B) == {n + i : i \in B}

LEMMA ShiftedCount ==
  ASSUME NEW B, IsFiniteSet(B), B \subseteq Int, NEW n \in Int
  PROVE  IsFiniteSet(Shifted(n, B)) /\ Cardinality(Shifted(n, B)) = Cardinality(B)
<1> DEFINE D == Shifted(n, B)
           f == [i \in B |-> n + i]
<1>1. f \in Bijection(B, D)
  <2>1. f \in [B -> D] /\ \A d \in D : \E i \in B : f[i] = d
    BY DEF Shifted
  <2>2. \A i, k \in B : f[i] = f[k] => i = k
    OBVIOUS
  <2> HIDE DEF f, D
  <2> QED BY <2>1, <2>2 DEF Bijection, Injection, Surjection, IsInjective
<1> HIDE DEF f
<1>2. ExistsBijection(B, D)
  BY <1>1 DEF ExistsBijection
<1> QED BY <1>2, FS_Bijection

(* All of a list, or nothing of it.                                        *)
LEMMA HavingAll ==
  ASSUME NEW S, NEW s \in Seq(S), NEW C, \A i \in DOMAIN s : s[i] \in C
  PROVE  Having(s, C) = s
<1>1. PICK n \in Nat : n = Len(s) /\ DOMAIN s = 1..n
  OBVIOUS
<1>2. PICK I : I = 1..n
  OBVIOUS
<1>3. IsFiniteSet(I) /\ I \subseteq Int /\ Cardinality(I) = n
  <2>1. IsFiniteSet(1..n) /\ Cardinality(1..n) = IF 1 > n THEN 0 ELSE n - 1 + 1
    BY FS_Interval
  <2> QED BY <1>2, <2>1
<1>4. ASSUME NEW m \in 1..n PROVE Nth(I, m) = m
  <2>1. {j \in I : j <= m} = 1..m
    BY <1>2
  <2>2. Cardinality(1..m) = m
    <3>1. Cardinality(1..m) = IF 1 > m THEN 0 ELSE m - 1 + 1
      BY FS_Interval
    <3> QED BY <3>1
  <2>3. m \in I /\ m = Cardinality({j \in I : j <= m})
    BY <1>2, <2>1, <2>2
  <2> QED BY <1>3, <2>3, NthIs
<1>5. {i \in DOMAIN s : s[i] \in C} = I
  BY <1>1, <1>2
<1>6. Having(s, C) = [m \in 1..n |-> s[Nth(I, m)]]
  BY <1>3, <1>5 DEF Having, Part
<1>7. Having(s, C) = [m \in 1..n |-> s[m]]
  BY <1>4, <1>6
<1>8. s = [m \in 1..n |-> s[m]]
  BY <1>1
<1> QED BY <1>7, <1>8

LEMMA HavingNone ==
  ASSUME NEW S, NEW s \in Seq(S), NEW C
  PROVE  Having(s, C) = <<>> <=> \A i \in DOMAIN s : s[i] \notin C
<1>1. PICK t \in Seq(S \cap C) : t = Having(s, C)
  BY HavingIsList
<1>2. ToSet(t) = ToSet(s) \cap C
  BY <1>1, HavingMembers
<1>3. t = <<>> <=> ToSet(t) = {}
  <2>1. t = <<>> <=> DOMAIN t = {}
    OBVIOUS
  <2> QED BY <2>1 DEF ToSet
<1>4. ToSet(s) \cap C = {} <=> \A i \in DOMAIN s : s[i] \notin C
  BY DEF ToSet
<1> QED BY <1>1, <1>2, <1>3, <1>4

(* Where the members of C are in a concatenation.                          *)
At(s, C) == {i \in DOMAIN s : s[i] \in C}

LEMMA PositionsJoined ==
  ASSUME NEW S, NEW a \in Seq(S), NEW b \in Seq(S), NEW C
  PROVE  /\ IsFiniteSet(At(a, C)) /\ At(a, C) \subseteq 1..Len(a)
         /\ IsFiniteSet(At(b, C)) /\ At(b, C) \subseteq 1..Len(b)
         /\ At(a \o b, C) = At(a, C) \cup Shifted(Len(a), At(b, C))
         /\ \A i \in Shifted(Len(a), At(b, C)) : i \in Int /\ Len(a) < i
<1>1. PICK A : A = At(a, C)
  OBVIOUS
<1>2. PICK B : B = At(b, C)
  OBVIOUS
<1>3. PICK n \in Nat : n = Len(a)
  OBVIOUS
<1>4. PICK D : D = Shifted(n, B)
  OBVIOUS
<1>5. PICK ab : ab = a \o b
  OBVIOUS
<1>6. IsFiniteSet(A) /\ IsFiniteSet(B) /\ A \subseteq 1..n /\ B \subseteq 1..Len(b)
  <2>1. IsFiniteSet(A) /\ A \subseteq DOMAIN a
    BY <1>1, PositionsHaving DEF At
  <2>2. IsFiniteSet(B) /\ B \subseteq DOMAIN b
    BY <1>2, PositionsHaving DEF At
  <2> QED BY <1>3, <2>1, <2>2
<1>7. Len(b) \in Nat /\ DOMAIN ab = 1..n+Len(b)
      /\ \A i \in DOMAIN ab : ab[i] = IF i <= n THEN a[i] ELSE b[i - n]
  BY <1>3, <1>5
<1>8. \A k \in B : k \in Int /\ 1 <= k
  BY <1>6
<1>9. \A i \in Int : i \in D <=> i - n \in B
  <2> SUFFICES ASSUME NEW i \in Int PROVE i \in D <=> i - n \in B
    OBVIOUS
  <2>1. i = n + (i - n)
    BY <1>3
  <2>2. \A k \in B : i = n + k => k = i - n
    BY <1>8
  <2> QED BY <1>4, <2>1, <2>2 DEF Shifted
<1>10. \A i \in D : i \in Int /\ n < i
  BY <1>4, <1>8 DEF Shifted
<1>11. ASSUME NEW i \in Int
       PROVE  i \in DOMAIN ab /\ ab[i] \in C <=> i \in A \/ i \in D
  <2>1. CASE i <= n
    <3>1. i \notin D
      BY <1>10, <2>1
    <3>2. i \in DOMAIN a <=> i \in DOMAIN ab
      BY <1>3, <1>7, <2>1
    <3> QED BY <1>1, <1>7, <2>1, <3>1, <3>2 DEF At
  <2>2. CASE i > n
    <3>1. i \notin A
      BY <1>6, <2>2
    <3>2. i - n \in DOMAIN b <=> i \in DOMAIN ab
      BY <1>7, <2>2
    <3> QED BY <1>2, <1>7, <1>9, <2>2, <3>1, <3>2 DEF At
  <2> QED BY <2>1, <2>2
<1>12. At(ab, C) = A \cup D
  <2>1. A \subseteq Int /\ D \subseteq Int /\ DOMAIN ab \subseteq Int
    BY <1>6, <1>7, <1>10
  <2> QED BY <1>11, <2>1 DEF At
<1> QED BY <1>1, <1>2, <1>3, <1>4, <1>5, <1>6, <1>10, <1>12

LEMMA TimesJoined ==
  ASSUME NEW S, NEW a \in Seq(S), NEW b \in Seq(S), NEW C
  PROVE  HowOften(a \o b, C) = HowOften(a, C) + HowOften(b, C)
<1>1. PICK A : A = At(a, C)
  OBVIOUS
<1>2. PICK B : B = At(b, C)
  OBVIOUS
<1>3. PICK n \in Nat : n = Len(a)
  OBVIOUS
<1>4. PICK D : D = Shifted(n, B)
  OBVIOUS
<1>5. PICK ab : ab = a \o b
  OBVIOUS
<1>6. /\ IsFiniteSet(A) /\ IsFiniteSet(B) /\ A \subseteq 1..n /\ B \subseteq 1..Len(b)
      /\ At(ab, C) = A \cup D
      /\ \A i \in D : i \in Int /\ n < i
  BY <1>1, <1>2, <1>3, <1>4, <1>5, PositionsJoined
<1>7. IsFiniteSet(D) /\ Cardinality(D) = Cardinality(B)
  <2>1. B \subseteq Int /\ n \in Int
    BY <1>6
  <2> QED BY <1>4, <1>6, <2>1, ShiftedCount
<1>8. A \cap D = {}
  BY <1>6
<1>9. Cardinality(A \cup D) = Cardinality(A) + Cardinality(D) - Cardinality({})
  <2>1. Cardinality(A \cup D) = Cardinality(A) + Cardinality(D) - Cardinality(A \cap D)
    BY <1>6, <1>7, FS_Union
  <2> QED BY <1>8, <2>1
<1>10. Cardinality({}) = 0 /\ Cardinality(A) \in Nat /\ Cardinality(B) \in Nat
  BY <1>6, FS_EmptySet, FS_CardinalityType
<1>11. Cardinality(A \cup D) = Cardinality(A) + Cardinality(B)
  BY <1>7, <1>9, <1>10
<1>12. HowOften(ab, C) = Cardinality(A \cup D)
  BY <1>6 DEF HowOften, HowOftenAt, At
<1>13. HowOften(a, C) = Cardinality(A) /\ HowOften(b, C) = Cardinality(B)
  BY <1>1, <1>2 DEF HowOften, HowOftenAt, At
<1> QED BY <1>5, <1>11, <1>12, <1>13

LEMMA SameLists ==
  ASSUME NEW S, NEW u \in Seq(S), NEW w \in Seq(S), Len(u) = Len(w),
         \A m \in 1..Len(u) : u[m] = w[m]
  PROVE  u = w
<1>1. /\ u = [m \in 1..Len(u) |-> u[m]]
      /\ w = [m \in 1..Len(w) |-> w[m]]
  OBVIOUS
<1> QED BY <1>1

LEMMA JoinedMembers ==
  ASSUME NEW S, NEW a \in Seq(S), NEW b \in Seq(S)
  PROVE  ToSet(a \o b) = ToSet(a) \cup ToSet(b)
<1>1. PICK n \in Nat, m \in Nat : n = Len(a) /\ m = Len(b)
  OBVIOUS
<1>2. PICK ab : ab = a \o b
  OBVIOUS
<1>3. /\ DOMAIN a = 1..n /\ DOMAIN b = 1..m /\ DOMAIN ab = 1..n+m
      /\ \A i \in 1..n+m : ab[i] = IF i <= n THEN a[i] ELSE b[i - n]
  BY <1>1, <1>2
<1>4. \A i \in 1..n : i \in 1..n+m /\ ab[i] = a[i]
  BY <1>3
<1>5. \A i \in 1..m : n + i \in 1..n+m /\ ab[n + i] = b[i]
  BY <1>3
<1>6. \A i \in 1..n+m : i \in 1..n \/ (i - n \in 1..m /\ ab[i] = b[i - n])
  BY <1>3
<1>7. ASSUME NEW x PROVE x \in ToSet(ab) <=> x \in ToSet(a) \/ x \in ToSet(b)
  <2>1. x \in ToSet(ab) <=> \E i \in 1..n+m : x = ab[i]
    BY <1>3 DEF ToSet
  <2>2. x \in ToSet(a) <=> \E i \in 1..n : x = a[i]
    BY <1>3 DEF ToSet
  <2>3. x \in ToSet(b) <=> \E i \in 1..m : x = b[i]
    BY <1>3 DEF ToSet
  <2>4. ASSUME NEW i \in 1..n+m PROVE ab[i] \in ToSet(a) \/ ab[i] \in ToSet(b)
    BY <1>3, <1>4, <1>6 DEF ToSet
  <2> QED BY <1>4, <1>5, <2>1, <2>2, <2>3, <2>4
<1> QED BY <1>2, <1>7

(* A selection from a concatenation.                                       *)
JoinedHaving(a, b, C) == Having(a \o b, C) = Having(a, C) \o Having(b, C)

LEMMA HavingJoined ==
  ASSUME NEW S, NEW a \in Seq(S), NEW b \in Seq(S), NEW C
  PROVE  JoinedHaving(a, b, C)
<1>1. PICK A : A = At(a, C)
  OBVIOUS
<1>2. PICK B : B = At(b, C)
  OBVIOUS
<1>3. PICK n \in Nat : n = Len(a)
  OBVIOUS
<1>4. PICK D : D = Shifted(n, B)
  OBVIOUS
<1>5. PICK ab : ab = a \o b
  OBVIOUS
<1>6. /\ IsFiniteSet(A) /\ IsFiniteSet(B) /\ A \subseteq 1..n /\ B \subseteq 1..Len(b)
      /\ At(ab, C) = A \cup D
      /\ \A i \in D : i \in Int /\ n < i
  BY <1>1, <1>2, <1>3, <1>4, <1>5, PositionsJoined
<1>7. IsFiniteSet(D) /\ Cardinality(D) = Cardinality(B)
  <2>1. B \subseteq Int /\ n \in Int
    BY <1>6
  <2> QED BY <1>4, <1>6, <2>1, ShiftedCount
<1>8. PICK p \in Nat : p = Cardinality(A)
  BY <1>6, FS_CardinalityType
<1>9. PICK q \in Nat : q = Cardinality(B)
  BY <1>6, FS_CardinalityType
<1>10. PICK I : I = A \cup D
  OBVIOUS
<1>11. IsFiniteSet(I) /\ I \subseteq Int /\ A \subseteq Int /\ B \subseteq Int
  <2>1. IsFiniteSet(A \cup D)
    BY <1>6, <1>7, FS_Union
  <2>2. A \subseteq Int /\ B \subseteq Int /\ D \subseteq Int
    BY <1>6
  <2> QED BY <1>10, <2>1, <2>2
<1>12. ASSUME NEW m \in 1..p PROVE m \in 1..Cardinality(I) /\ Nth(I, m) = Nth(A, m) /\ Nth(A, m) \in A
  <2>1. PICK x : x = Nth(A, m)
    OBVIOUS
  <2>2. x \in A /\ Cardinality({j \in A : j <= x}) = m
    BY <1>6, <1>8, <1>11, <2>1, NthOfEach, ZenonT(40)
  <2>3. {j \in I : j <= x} = {j \in A : j <= x}
    <3>1. \A j \in D : ~(j <= x)
      BY <1>6, <2>2
    <3> QED BY <1>10, <3>1
  <2>4. x \in I /\ m = Cardinality({j \in I : j <= x})
    BY <1>10, <2>2, <2>3
  <2>5. m \in 1..Cardinality(I) /\ Nth(I, m) = x
    BY <1>11, <2>4, NthIs
  <2> QED BY <2>1, <2>2, <2>5
<1>13. ASSUME NEW k \in 1..q
       PROVE  p + k \in 1..Cardinality(I) /\ Nth(I, p + k) = n + Nth(B, k) /\ Nth(B, k) \in B
  <2>1. PICK y : y = Nth(B, k)
    OBVIOUS
  <2>2. y \in B /\ Cardinality({j \in B : j <= y}) = k /\ y \in Int
    BY <1>6, <1>9, <1>11, <2>1, NthOfEach, ZenonT(40)
  <2>3. PICK V : V = {j \in B : j <= y}
    OBVIOUS
  <2>4. IsFiniteSet(V) /\ V \subseteq Int
    BY <1>6, <1>11, <2>3, FS_Subset
  <2>5. IsFiniteSet(Shifted(n, V)) /\ Cardinality(Shifted(n, V)) = k
    BY <2>2, <2>3, <2>4, ShiftedCount
  <2>6. {j \in I : j <= n + y} = A \cup Shifted(n, V)
    <3>1. \A j \in A : j <= n + y
      BY <1>6, <2>2
    <3>2. \A j \in D : j <= n + y <=> j \in Shifted(n, V)
      <4> SUFFICES ASSUME NEW j \in D PROVE j <= n + y <=> j \in Shifted(n, V)
        OBVIOUS
      <4>1. PICK i \in B : j = n + i
        BY <1>4 DEF Shifted
      <4>2. i \in Int /\ (j <= n + y <=> i <= y)
        BY <1>11, <2>2, <4>1
      <4>3. \A e \in V : e \in Int /\ (n + e = n + i => e = i)
        BY <2>4, <4>2
      <4>4. j \in Shifted(n, V) <=> i \in V
        BY <4>1, <4>3 DEF Shifted
      <4> QED BY <2>3, <4>2, <4>4
    <3>3. Shifted(n, V) \subseteq D
      BY <1>4, <2>3 DEF Shifted
    <3> QED BY <1>10, <3>1, <3>2, <3>3
  <2>7. A \cap Shifted(n, V) = {}
    <3>1. Shifted(n, V) \subseteq D
      BY <1>4, <2>3 DEF Shifted
    <3> QED BY <1>6, <3>1
  <2>8. Cardinality(A \cup Shifted(n, V)) = p + k
    <3>1. Cardinality(A \cup Shifted(n, V))
            = Cardinality(A) + Cardinality(Shifted(n, V)) - Cardinality(A \cap Shifted(n, V))
      BY <1>6, <2>5, FS_Union
    <3>2. Cardinality(A \cap Shifted(n, V)) = 0
      BY <2>7, FS_EmptySet
    <3> QED BY <1>8, <2>5, <3>1, <3>2
  <2>9. n + y \in I /\ p + k = Cardinality({j \in I : j <= n + y})
    BY <1>4, <1>10, <2>2, <2>6, <2>8 DEF Shifted
  <2>10. p + k \in 1..Cardinality(I) /\ Nth(I, p + k) = n + y
    BY <1>11, <2>9, NthIs
  <2> QED BY <2>1, <2>2, <2>10
<1>14. Cardinality(I) = p + q
  <2>1. Cardinality(A \cup D) = Cardinality(A) + Cardinality(D) - Cardinality(A \cap D)
    BY <1>6, <1>7, FS_Union
  <2>2. Cardinality(A \cap D) = 0
    <3>1. A \cap D = {}
      BY <1>6
    <3> QED BY <3>1, FS_EmptySet
  <2> QED BY <1>7, <1>8, <1>9, <1>10, <2>1, <2>2
<1>15. /\ Having(ab, C) = [m \in 1..p+q |-> ab[Nth(I, m)]]
       /\ Having(a, C) = [m \in 1..p |-> a[Nth(A, m)]]
       /\ Having(b, C) = [k \in 1..q |-> b[Nth(B, k)]]
  BY <1>1, <1>2, <1>6, <1>8, <1>9, <1>10, <1>14 DEF Having, Part, At
<1>16. PICK u, v, w : u = Having(ab, C) /\ v = Having(a, C) /\ w = Having(b, C)
  OBVIOUS
<1>17. /\ u \in Seq(S) /\ v \in Seq(S) /\ w \in Seq(S)
       /\ Len(u) = p + q /\ Len(v) = p /\ Len(w) = q
  <2>1. ab \in Seq(S)
    BY <1>5
  <2>2. u \in Seq(S \cap C) /\ v \in Seq(S \cap C) /\ w \in Seq(S \cap C)
    BY <1>16, <2>1, HavingIsList
  <2>3. DOMAIN u = 1..p+q /\ DOMAIN v = 1..p /\ DOMAIN w = 1..q
    BY <1>15, <1>16
  <2> QED BY <2>2, <2>3
<1>18. /\ \A i \in DOMAIN ab : ab[i] = IF i <= n THEN a[i] ELSE b[i - n]
       /\ A \subseteq DOMAIN ab /\ D \subseteq DOMAIN ab
  <2>1. \A i \in DOMAIN ab : ab[i] = IF i <= n THEN a[i] ELSE b[i - n]
    BY <1>3, <1>5
  <2>2. At(ab, C) \subseteq DOMAIN ab
    BY DEF At
  <2> QED BY <1>6, <2>1, <2>2
<1>19. ASSUME NEW m \in 1..p PROVE u[m] = v[m]
  <2>1. u[m] = ab[Nth(A, m)] /\ v[m] = a[Nth(A, m)] /\ Nth(A, m) \in A
    BY <1>12, <1>15, <1>16
  <2>2. Nth(A, m) \in DOMAIN ab /\ Nth(A, m) <= n
    <3>1. PICK x : x = Nth(A, m)
      OBVIOUS
    <3>2. x \in A
      BY <2>1, <3>1
    <3>3. x \in DOMAIN ab /\ x \in 1..n
      BY <1>6, <1>18, <3>2
    <3> QED BY <3>1, <3>3
  <2> QED BY <1>18, <2>1, <2>2
<1>20. ASSUME NEW k \in 1..q PROVE u[p + k] = w[k]
  <2>1. p + k \in 1..p+q
    OBVIOUS
  <2>2. Nth(I, p + k) = n + Nth(B, k) /\ Nth(B, k) \in B
    BY <1>13
  <2>3. u[p + k] = ab[n + Nth(B, k)] /\ w[k] = b[Nth(B, k)]
    BY <1>15, <1>16, <2>1, <2>2
  <2>4. n + Nth(B, k) \in DOMAIN ab
    BY <1>4, <1>18, <2>2 DEF Shifted
  <2>5. PICK e \in 1..Len(b) : e = Nth(B, k)
    BY <1>6, <2>2
  <2>6. ~(n + e <= n) /\ n + e - n = e
    BY <1>3, <2>5
  <2>7. ab[n + e] = b[e]
    BY <1>18, <2>4, <2>5, <2>6
  <2> QED BY <2>3, <2>5, <2>7
<1>21. u = v \o w
  <2>1. \A m \in 1..p+q : u[m] = (v \o w)[m]
    <3> SUFFICES ASSUME NEW m \in 1..p+q PROVE u[m] = (v \o w)[m]
      OBVIOUS
    <3>1. CASE m <= p
      BY <1>17, <1>19, <3>1
    <3>2. CASE ~(m <= p)
      <4>1. m - p \in 1..q /\ p + (m - p) = m
        BY <3>2
      <4>2. u[m] = w[m - p]
        BY <1>20, <4>1
      <4> QED BY <1>17, <3>2, <4>1, <4>2
    <3> QED BY <3>1, <3>2
  <2>2. v \o w \in Seq(S) /\ Len(v \o w) = p + q
    <3>1. \A x, y \in Seq(S) : x \o y \in Seq(S) /\ Len(x \o y) = Len(x) + Len(y)
      OBVIOUS
    <3> QED BY <1>17, <3>1
  <2> QED BY <1>17, <2>1, <2>2, SameLists
<1> QED BY <1>5, <1>16, <1>21 DEF JoinedHaving

Joins(g, q) == g = [i \in 1..Len(q) |-> IF i = 1 THEN q[i] ELSE g[i-1] \o q[i]]

LEMMA JoinsExist == ASSUME NEW S, NEW q \in Seq(S) PROVE \E g : Joins(g, q)
<1> DEFINE Step(g, i) == g[i] = IF i = 1 THEN q[i] ELSE g[i-1] \o q[i]
           Good == {m \in Nat : \E g : DOMAIN g = 1..m /\ \A i \in 1..m : Step(g, i)}
<1>1. 0 \in Good
  <2>1. DOMAIN [i \in 1..0 |-> 0] = 1..0 /\ 1..0 = {}
    OBVIOUS
  <2> QED BY <2>1
<1>2. ASSUME NEW m \in Nat, m \in Good PROVE m + 1 \in Good
  <2>1. PICK g : DOMAIN g = 1..m /\ \A i \in 1..m : Step(g, i)
    BY <1>2
  <2> DEFINE new == IF m + 1 = 1 THEN q[m + 1] ELSE g[m] \o q[m + 1]
             h == [i \in 1..m+1 |-> IF i <= m THEN g[i] ELSE new]
  <2>2. DOMAIN h = 1..m+1 /\ h[m + 1] = new /\ \A i \in 1..m : h[i] = g[i]
    <3> HIDE DEF new, Good
    <3>1. m + 1 \in 1..m+1 /\ ~(m + 1 <= m)
      OBVIOUS
    <3>2. \A i \in 1..m : i \in 1..m+1 /\ i <= m
      OBVIOUS
    <3> QED BY <3>1, <3>2
  <2> HIDE DEF h
  <2>3. \A i \in 1..m+1 : Step(h, i)
    <3> SUFFICES ASSUME NEW i \in 1..m+1 PROVE Step(h, i)
      OBVIOUS
    <3>1. CASE i = m + 1
      <4>1. m + 1 # 1 => m \in 1..m /\ m + 1 - 1 = m
        OBVIOUS
      <4>2. m + 1 # 1 => h[m] = g[m]
        BY <2>2, <4>1
      <4> QED BY <2>2, <3>1, <4>1, <4>2
    <3>2. CASE i # m + 1
      <4>1. i \in 1..m /\ (i # 1 => i - 1 \in 1..m)
        BY <3>2
      <4>2. h[i] = g[i] /\ (i # 1 => h[i - 1] = g[i - 1]) /\ Step(g, i)
        BY <2>1, <2>2, <4>1
      <4> QED BY <4>2
    <3> QED BY <3>1, <3>2
  <2> HIDE DEF Step
  <2> QED BY <2>2, <2>3
<1> HIDE DEF Good
<1>3. Nat \subseteq Good
  BY <1>1, <1>2, NumberInduction
<1>4. Len(q) \in Good
  BY <1>3
<1>5. PICK g : DOMAIN g = 1..Len(q) /\ \A i \in 1..Len(q) : Step(g, i)
  BY <1>4 DEF Good
<1> DEFINE h == [i \in 1..Len(q) |-> g[i]]
<1>6. Joins(h, q)
  <2>1. \A i \in 1..Len(q) : i # 1 => i - 1 \in 1..Len(q)
    OBVIOUS
  <2>2. \A i \in 1..Len(q) : h[i] = IF i = 1 THEN q[i] ELSE h[i-1] \o q[i]
    BY <1>5, <2>1
  <2>3. h = [i \in 1..Len(q) |-> h[i]]
    OBVIOUS
  <2> HIDE DEF h
  <2>4. [i \in 1..Len(q) |-> h[i]]
          = [i \in 1..Len(q) |-> IF i = 1 THEN q[i] ELSE h[i-1] \o q[i]]
    BY <2>2
  <2> QED BY <2>3, <2>4 DEF Joins
<1> QED BY <1>6

LEMMA FlattenIsJoin ==
  ASSUME NEW q, Len(q) # 0 PROVE FlattenSeq(q) = (CHOOSE g : Joins(g, q))[Len(q)]
BY DEF FlattenSeq, Joins

(* What holds of nothing, and is kept as parts are appended, holds of all. *)
LEMMA FlattenInduction ==
  ASSUME NEW S, NEW q \in Seq(Seq(S)), NEW Good, <<>> \in Good[0],
         \A i \in 1..Len(q) : \A t \in Seq(S) : t \in Good[i-1] => t \o q[i] \in Good[i]
  PROVE  FlattenSeq(q) \in Seq(S) /\ FlattenSeq(q) \in Good[Len(q)]
<1>1. PICK n \in Nat : n = Len(q)
  OBVIOUS
<1>2. \A i \in 1..n : q[i] \in Seq(S)
  BY <1>1
<1>3. CASE n = 0
  <2>1. q = <<>>
    <3>1. \A T : \A t \in Seq(T) : Len(t) = 0 => t = <<>>
      OBVIOUS
    <3> QED BY <1>1, <1>3, <3>1
  <2>2. FlattenSeq(q) = q
    BY <2>1, Zenon DEF FlattenSeq
  <2>3. FlattenSeq(q) = <<>> /\ Len(q) = 0 /\ <<>> \in Seq(S)
    BY <1>1, <1>3, <2>1, <2>2
  <2> QED BY <2>3
<1>4. CASE n # 0
  <2>1. PICK g : Joins(g, q) /\ FlattenSeq(q) = g[n]
    <3>1. \E g : Joins(g, q)
      BY JoinsExist
    <3>2. Joins(CHOOSE g : Joins(g, q), q)
      BY <3>1
    <3>3. FlattenSeq(q) = (CHOOSE g : Joins(g, q))[n]
      BY <1>1, <1>4, FlattenIsJoin
    <3> QED BY <3>2, <3>3
  <2>2. \A i \in 1..n : g[i] = IF i = 1 THEN q[i] ELSE g[i-1] \o q[i]
    BY <1>1, <2>1 DEF Joins
  <2> DEFINE Done == {m \in Nat : m \in 1..n => g[m] \in Seq(S) /\ g[m] \in Good[m]}
  <2>3. 0 \in Done
    OBVIOUS
  <2>4. ASSUME NEW m \in Nat, m \in Done PROVE m + 1 \in Done
    <3> SUFFICES ASSUME m + 1 \in 1..n PROVE g[m+1] \in Seq(S) /\ g[m+1] \in Good[m+1]
      OBVIOUS
    <3>1. PICK k \in 1..n : k = m + 1 /\ k - 1 = m
      OBVIOUS
    <3>2. q[k] \in Seq(S) /\ k \in 1..Len(q)
      BY <1>1, <1>2
    <3>3. CASE m = 0
      <4>1. g[k] = q[k] /\ <<>> \o q[k] = q[k] /\ <<>> \in Seq(S)
        BY <2>2, <3>1, <3>2, <3>3
      <4>2. <<>> \in Good[k-1]
        BY <3>1, <3>3
      <4>3. <<>> \o q[k] \in Good[k]
        BY <3>2, <4>1, <4>2
      <4> QED BY <3>1, <3>2, <4>1, <4>3
    <3>4. CASE m # 0
      <4>1. m \in 1..n /\ k # 1
        BY <3>1, <3>4
      <4>2. g[m] \in Seq(S) /\ g[m] \in Good[m]
        BY <2>4, <4>1
      <4>3. g[k] = g[m] \o q[k]
        BY <2>2, <3>1, <4>1
      <4>4. g[m] \o q[k] \in Good[k]
        BY <3>1, <3>2, <4>2
      <4>5. g[m] \o q[k] \in Seq(S)
        BY <3>2, <4>2
      <4> QED BY <3>1, <4>3, <4>4, <4>5
    <3> QED BY <3>3, <3>4
  <2> HIDE DEF Done
  <2>5. Nat \subseteq Done
    BY <2>3, <2>4, NumberInduction
  <2>6. n \in Done /\ n \in 1..n
    BY <1>4, <2>5
  <2>7. g[n] \in Seq(S) /\ g[n] \in Good[n]
    BY <2>6 DEF Done
  <2> QED BY <1>1, <2>1, <2>7
<1> QED BY <1>3, <1>4

LEMMA FlattenCounts ==
  ASSUME NEW S, NEW q \in Seq(Seq(S))
  PROVE  /\ FlattenSeq(q) \in Seq(S)
         /\ \A C : HowOften(FlattenSeq(q), C) =
              SumFunctionOnSet([i \in 1..Len(q) |-> HowOften(q[i], C)], 1..Len(q))
<1>1. PICK n \in Nat : n = Len(q)
  OBVIOUS
<1> DEFINE Sum(C, m) == SumFunctionOnSet([i \in 1..n |-> HowOften(q[i], C)], 1..m)
<1>2. ASSUME NEW C PROVE FlattenSeq(q) \in Seq(S) /\ HowOften(FlattenSeq(q), C) = Sum(C, n)
  <2> DEFINE Good == [m \in 0..n |-> {t \in Seq(S) : HowOften(t, C) = Sum(C, m)}]
  <2>1. <<>> \in Good[0]
    <3>1. HowOften(<<>>, C) = 0
      BY TimesNone
    <3>2. 1..0 = {}
      OBVIOUS
    <3>3. Sum(C, 0) = 0
      BY <3>2, SumEmpty
    <3> HIDE DEF Sum
    <3> QED BY <3>1, <3>3
  <2>2. ASSUME NEW i \in 1..n, NEW t \in Seq(S), t \in Good[i-1] PROVE t \o q[i] \in Good[i]
    <3>1. q[i] \in Seq(S)
      BY <1>1
    <3>2. HowOften(t \o q[i], C) = HowOften(t, C) + HowOften(q[i], C)
      BY <3>1, TimesJoined
    <3>3. HowOften(t, C) = Sum(C, i - 1)
      BY <2>2
    <3>4. PICK m \in Nat : m = i - 1 /\ m + 1 = i
      OBVIOUS
    <3>5. Sum(C, m + 1) = Sum(C, m) + HowOften(q[i], C)
      <4> DEFINE f == [k \in 1..n |-> HowOften(q[k], C)]
      <4>1. \A k \in 1..m+1 : f[k] \in Int
        BY <1>1, <3>4, TimesIsNat
      <4>2. f[m + 1] = HowOften(q[i], C)
        BY <3>4
      <4> HIDE DEF f
      <4>3. SumFunctionOnSet(f, 1..m+1) = SumFunctionOnSet(f, 1..m) + f[m + 1]
        BY <4>1, SumLast
      <4> QED BY <4>2, <4>3 DEF f
    <3>6. t \o q[i] \in Seq(S)
      BY <3>1
    <3>7. HowOften(t \o q[i], C) = Sum(C, i)
      BY <3>2, <3>3, <3>4, <3>5
    <3>8. Good[i] = {u \in Seq(S) : HowOften(u, C) = Sum(C, i)}
      <4>1. i \in 0..n
        OBVIOUS
      <4> QED BY <4>1
    <3> HIDE DEF Sum, Good
    <3> QED BY <3>6, <3>7, <3>8
  <2> HIDE DEF Good
  <2>3. FlattenSeq(q) \in Seq(S) /\ FlattenSeq(q) \in Good[n]
    BY <1>1, <2>1, <2>2, FlattenInduction
  <2> HIDE DEF Sum
  <2> QED BY <2>3 DEF Good
<1> HIDE DEF Sum
<1>3. FlattenSeq(q) \in Seq(S) /\ \A C : HowOften(FlattenSeq(q), C) = Sum(C, n)
  BY <1>2
<1> QED BY <1>1, <1>3 DEF Sum

LEMMA FlattenMembers ==
  ASSUME NEW S, NEW q \in Seq(Seq(S))
  PROVE  ToSet(FlattenSeq(q)) = UNION {ToSet(q[i]) : i \in 1..Len(q)}
<1>1. PICK n \in Nat : n = Len(q)
  OBVIOUS
<1> DEFINE Among(m) == UNION {ToSet(q[i]) : i \in 1..m}
           Good == [m \in 0..n |-> {t \in Seq(S) : ToSet(t) = Among(m)}]
<1>2. <<>> \in Good[0]
  BY DEF ToSet
<1>3. ASSUME NEW i \in 1..n, NEW t \in Seq(S), t \in Good[i-1] PROVE t \o q[i] \in Good[i]
  <2>1. q[i] \in Seq(S) /\ t \o q[i] \in Seq(S)
    BY <1>1
  <2>2. ToSet(t \o q[i]) = ToSet(t) \cup ToSet(q[i])
    BY <2>1, JoinedMembers
  <2>3. Among(i) = Among(i - 1) \cup ToSet(q[i])
    <3>1. \A k \in 1..i : k \in 1..i-1 \/ k = i
      OBVIOUS
    <3>2. \A k \in 1..i-1 : k \in 1..i
      OBVIOUS
    <3>3. i \in 1..i
      OBVIOUS
    <3> QED BY <3>1, <3>2, <3>3
  <2>4. ToSet(t) = Among(i - 1)
    BY <1>3
  <2>5. ToSet(t \o q[i]) = Among(i)
    BY <2>2, <2>3, <2>4
  <2>6. Good[i] = {u \in Seq(S) : ToSet(u) = Among(i)}
    <3>1. i \in 0..n
      OBVIOUS
    <3> QED BY <3>1
  <2> HIDE DEF Among, Good
  <2> QED BY <2>1, <2>5, <2>6
<1> HIDE DEF Good
<1>4. FlattenSeq(q) \in Good[n]
  BY <1>1, <1>2, <1>3, FlattenInduction
<1> HIDE DEF Among
<1>5. ToSet(FlattenSeq(q)) = Among(n)
  BY <1>4 DEF Good
<1> QED BY <1>1, <1>5 DEF Among

(* What only one part has, the whole has as that part has it.              *)
LEMMA FlattenHasOne ==
  ASSUME NEW S, NEW q \in Seq(Seq(S)), NEW C, NEW k \in 1..Len(q),
         \A i \in 1..Len(q) : i # k => Having(q[i], C) = <<>>
  PROVE  Having(FlattenSeq(q), C) = Having(q[k], C)
<1>1. PICK n \in Nat : n = Len(q)
  OBVIOUS
<1> DEFINE Upto(m) == IF m < k THEN <<>> ELSE Having(q[k], C)
           Good == [m \in 0..n |-> {t \in Seq(S) : Having(t, C) = Upto(m)}]
<1>2. Having(<<>>, C) = <<>>
  <2>1. Having(<<>>, C) \in Seq({} \cap C)
    <3>1. <<>> \in Seq({})
      OBVIOUS
    <3> QED BY <3>1, HavingIsList
  <2> QED BY <2>1
<1>3. <<>> \in Good[0]
  BY <1>1, <1>2
<1>4. ASSUME NEW i \in 1..n, NEW t \in Seq(S), t \in Good[i-1] PROVE t \o q[i] \in Good[i]
  <2>1. q[i] \in Seq(S) /\ t \o q[i] \in Seq(S)
    BY <1>1
  <2>2. Having(t \o q[i], C) = Having(t, C) \o Having(q[i], C)
    <3> HIDE DEF Good, Upto
    <3>1. PICK w \in Seq(S) : w = q[i]
      BY <2>1
    <3>2. JoinedHaving(t, w, C)
      BY HavingJoined
    <3> QED BY <3>1, <3>2 DEF JoinedHaving
  <2>3. Having(t, C) = Upto(i - 1)
    BY <1>4
  <2>4. Having(q[i], C) \in Seq(S \cap C)
    BY <2>1, HavingIsList
  <2>5. PICK w \in Seq(S \cap C) : w = Having(q[i], C)
    BY <2>4
  <2>6. Upto(i - 1) \o w = Upto(i)
    <3>1. CASE i = k
      <4>1. Upto(i - 1) = <<>> /\ Upto(i) = w
        BY <2>5, <3>1
      <4> QED BY <4>1
    <3>2. CASE i # k
      <4>1. w = <<>>
        BY <1>1, <2>5, <3>2
      <4>2. Upto(i - 1) = Upto(i)
        BY <1>1, <3>2
      <4>3. Upto(i) \in Seq(S \cap C)
        <5>1. q[k] \in Seq(S)
          BY <1>1
        <5>2. Having(q[k], C) \in Seq(S \cap C)
          BY <5>1, HavingIsList
        <5> QED BY <5>2
      <4> HIDE DEF Upto
      <4> QED BY <4>1, <4>2, <4>3
    <3> QED BY <3>1, <3>2
  <2>7. Having(t \o q[i], C) = Upto(i)
    BY <2>2, <2>3, <2>5, <2>6
  <2>8. Good[i] = {u \in Seq(S) : Having(u, C) = Upto(i)}
    <3>1. i \in 0..n
      OBVIOUS
    <3> HIDE DEF Upto
    <3> QED BY <3>1
  <2> HIDE DEF Upto, Good
  <2> QED BY <2>1, <2>7, <2>8
<1> HIDE DEF Good
<1>5. FlattenSeq(q) \in Good[n]
  BY <1>1, <1>3, <1>4, FlattenInduction
<1>6. Having(FlattenSeq(q), C) = Upto(n)
  <2> HIDE DEF Upto
  <2> QED BY <1>5 DEF Good
<1>7. ~(n < k)
  BY <1>1
<1> QED BY <1>6, <1>7

-----------------------------------------------------------------------------
(* Fractions.                                                              *)
Fraction == [num : Int, den : Nat \ {0}]

(* Two ways around a product of three.                                     *)
LEMMA Crosswise ==
  ASSUME NEW a \in Int, NEW b \in Int, NEW c \in Int, NEW p \in Nat \ {0}, NEW q \in Nat \ {0},
         NEW r \in Nat \ {0}, a * q <= b * p, b * r <= c * q
  PROVE  a * r <= c * p
<1>1. (a * q) * r <= (b * p) * r
  OBVIOUS
<1>2. (b * r) * p <= (c * q) * p
  OBVIOUS
<1>3. (b * p) * r = (b * r) * p
  OBVIOUS
<1>4. (a * r) * q <= (c * p) * q
  <2>1. (a * q) * r = (a * r) * q /\ (c * q) * p = (c * p) * q
    OBVIOUS
  <2> QED BY <1>1, <1>2, <1>3, <2>1
<1>5. PICK x \in Int, y \in Int : x = a * r /\ y = c * p
  OBVIOUS
<1>6. x * q <= y * q
  BY <1>4, <1>5
<1>7. x <= y
  BY <1>6
<1> QED BY <1>5, <1>7

LEMMA LeTransitive ==
  ASSUME NEW a \in Fraction, NEW b \in Fraction, NEW c \in Fraction, Le(a, b), Le(b, c)
  PROVE  Le(a, c)
BY Crosswise DEF Fraction, Le

LEMMA LeTotal ==
  ASSUME NEW a \in Fraction, NEW b \in Fraction
  PROVE  /\ Lt(a, b) <=> ~Le(b, a)
         /\ Same(a, b) <=> Le(a, b) /\ Le(b, a)
         /\ Le(a, a) /\ (Le(a, b) \/ Le(b, a))
<1>1. PICK x \in Int, y \in Int : x = a.num * b.den /\ y = b.num * a.den
  BY DEF Fraction
<1> QED BY <1>1 DEF Fraction, Lt, Le, Same

LEMMA MinusFraction ==
  ASSUME NEW a \in Fraction, NEW b \in Fraction
  PROVE  Minus(a, b) \in Fraction /\ Times(a, b) \in Fraction
BY DEF Fraction, Minus, Times

(* Descending sorts by values: the greatest first, equal ones as they were.*)
Falling(v) ==
  {p \in (DOMAIN v) \X (DOMAIN v) :
     Lt(v[p[2]], v[p[1]]) \/ (p[1] <= p[2] /\ Same(v[p[2]], v[p[1]]))}

LEMMA FallingIsOrder ==
  ASSUME NEW n \in Nat, NEW v \in [1..n -> Fraction] PROVE IsOrder(Falling(v), n)
<1>1. ASSUME NEW i \in 1..n, NEW j \in 1..n
      PROVE  /\ <<i, j>> \in Falling(v) <=> Lt(v[j], v[i]) \/ (i <= j /\ Same(v[j], v[i]))
             /\ v[i] \in Fraction /\ v[j] \in Fraction /\ i \in Int /\ j \in Int
  BY DEF Falling
<1>2. ASSUME NEW i \in 1..n, NEW j \in 1..n
      PROVE  /\ <<i, j>> \in Falling(v) <=> Le(v[j], v[i]) /\ (Le(v[i], v[j]) => i <= j)
             /\ Le(v[i], v[j]) \/ Le(v[j], v[i])
  <2>1. /\ Lt(v[j], v[i]) <=> ~Le(v[i], v[j])
        /\ Same(v[j], v[i]) <=> Le(v[i], v[j]) /\ Le(v[j], v[i])
        /\ Le(v[i], v[j]) \/ Le(v[j], v[i])
    BY <1>1, LeTotal
  <2> QED BY <1>1, <2>1
<1>3. \A i \in 1..n : <<i, i>> \in Falling(v)
  BY <1>1, LeTotal
<1>4. \A i, j \in 1..n : <<i, j>> \in Falling(v) \/ <<j, i>> \in Falling(v)
  <2> SUFFICES ASSUME NEW i \in 1..n, NEW j \in 1..n
               PROVE  <<i, j>> \in Falling(v) \/ <<j, i>> \in Falling(v)
    OBVIOUS
  <2>1. i <= j \/ j <= i
    BY <1>1
  <2> QED BY <1>2, <2>1
<1>5. \A i, j \in 1..n : <<i, j>> \in Falling(v) /\ <<j, i>> \in Falling(v) => i = j
  BY <1>1, <1>2
<1>6. ASSUME NEW i \in 1..n, NEW j \in 1..n, NEW k \in 1..n,
             <<i, j>> \in Falling(v), <<j, k>> \in Falling(v)
      PROVE  <<i, k>> \in Falling(v)
  <2>1. Le(v[j], v[i]) /\ (Le(v[i], v[j]) => i <= j) /\ Le(v[k], v[j]) /\ (Le(v[j], v[k]) => j <= k)
    BY <1>2, <1>6
  <2>2. Le(v[k], v[i])
    BY <1>1, <2>1, LeTransitive
  <2>3. ASSUME Le(v[i], v[k]) PROVE i <= k
    <3>1. Le(v[i], v[j]) /\ Le(v[j], v[k])
      BY <1>1, <2>1, <2>3, LeTransitive
    <3> QED BY <1>1, <2>1, <3>1
  <2> QED BY <1>2, <2>2, <2>3
<1> QED BY <1>3, <1>4, <1>5, <1>6 DEF IsOrder

(* The ranks as Descending counts them, for the values v.                  *)
Standing(v) ==
  [i \in DOMAIN v |-> Cardinality({j \in DOMAIN v :
     Lt(v[i], v[j]) \/ (j <= i /\ Same(v[i], v[j]))})]

LEMMA StandingArranges ==
  ASSUME NEW S, NEW s \in Seq(S), NEW v \in [DOMAIN s -> Fraction],
         NEW r, r = RankOrder(s, Standing(v))
  PROVE  r \in Seq(S) /\ Len(r) = Len(s) /\ \E at : Arranges(at, r, s, Falling(v))
<1>1. PICK n : n = Len(s)
  OBVIOUS
<1>2. n \in Nat /\ DOMAIN s = 1..n /\ DOMAIN v = 1..n
  BY <1>1
<1>3. IsOrder(Falling(v), n)
  BY <1>2, FallingIsOrder
<1>4. ASSUME NEW i \in 1..n
      PROVE  {j \in DOMAIN v : Lt(v[i], v[j]) \/ (j <= i /\ Same(v[i], v[j]))} = UpTo(Falling(v), n, i)
  BY <1>2 DEF UpTo, Falling
<1>5. Standing(v) = RanksOf(Falling(v), n)
  BY <1>2, <1>4 DEF Standing, RanksOf
<1> QED BY <1>1, <1>3, <1>5, RanksArrange

(* So ordered, the values fall, and the first is the first of the greatest.*)
LEMMA ArrangesFall ==
  ASSUME NEW S, NEW s \in Seq(S), NEW v \in [DOMAIN s -> Fraction], NEW r, NEW at,
         Arranges(at, r, s, Falling(v))
  PROVE  /\ \A i, j \in DOMAIN s : i <= j => Le(v[at[j]], v[at[i]])
         /\ \A l \in DOMAIN s : l < at[1] => Lt(v[l], v[at[1]])
<1>1. DOMAIN s = 1..Len(s) /\ Len(s) \in Nat
  OBVIOUS
<1>2. \A i \in DOMAIN s : at[i] \in DOMAIN s /\ v[at[i]] \in Fraction
  BY DEF Arranges
<1>3. ASSUME NEW i \in DOMAIN s, NEW j \in DOMAIN s, i < j
      PROVE  Lt(v[at[j]], v[at[i]]) \/ (at[i] <= at[j] /\ Same(v[at[j]], v[at[i]]))
  <2>1. <<at[i], at[j]>> \in Falling(v)
    BY <1>3 DEF Arranges
  <2> QED BY <2>1 DEF Falling
<1>4. ASSUME NEW i \in DOMAIN s, NEW j \in DOMAIN s, i <= j PROVE Le(v[at[j]], v[at[i]])
  <2>1. CASE i = j
    BY <1>2, <2>1, LeTotal
  <2>2. CASE i # j
    <3>1. i < j
      BY <1>1, <1>4, <2>2
    <3> QED BY <1>2, <1>3, <3>1, LeTotal
  <2> QED BY <2>1, <2>2
<1>5. ASSUME NEW l \in DOMAIN s, l < at[1] PROVE Lt(v[l], v[at[1]])
  <2>1. PICK n \in DOMAIN s : at[n] = l
    BY DEF Arranges
  <2>2. 1 \in DOMAIN s
    BY <1>1
  <2>3. at[1] \in DOMAIN s /\ n # 1
    BY <1>1, <1>2, <1>5, <2>1, <2>2
  <2>4. 1 < n
    BY <1>1, <2>3
  <2>5. Lt(v[at[n]], v[at[1]]) \/ at[1] <= at[n]
    BY <1>3, <2>2, <2>4
  <2> QED BY <1>1, <1>5, <2>1, <2>3, <2>5
<1> QED BY <1>4, <1>5

-----------------------------------------------------------------------------
(* Averages of rows, and the selections they are taken of.                 *)
GoodRows(S) == \A r \in S : r.score \in Nat \cup {None} /\ r.tps \in Nat /\ r.wall \in Nat
Average(a) == a \in Fraction /\ Le(Zero, a)

LEMMA ZeroIs == Average(Zero)
BY DEF Average, Fraction, Zero, Le

LEMMA AvgIs == ASSUME NEW s \in Seq(Nat) PROVE Average(Avg(s))
<1>1. CASE s = <<>>
  BY <1>1, ZeroIs DEF Avg
<1>2. CASE s # <<>>
  <2>1. Len(s) \in Nat \ {0} /\ IsFiniteSet(DOMAIN s) /\ \A i \in DOMAIN s : s[i] \in Nat
    BY <1>2, Positions
  <2>2. PICK t : t = Total(s)
    OBVIOUS
  <2>3. t = SumFunctionOnSet(s, DOMAIN s)
    BY <2>2 DEF Total, SumFunction
  <2>4. t \in Int
    <3>1. \A i \in DOMAIN s : s[i] \in Int
      BY <2>1
    <3> QED BY <2>1, <2>3, <3>1, SumInt
  <2>5. 0 <= t
    <3>1. PICK z : z = [i \in DOMAIN s |-> 0]
      OBVIOUS
    <3>2. \A i \in DOMAIN s : z[i] = 0
      BY <3>1
    <3>3. SumFunctionOnSet(z, DOMAIN s) = 0
      BY <2>1, <3>2, SumZero
    <3>4. \A i \in DOMAIN s : z[i] \in Int /\ s[i] \in Int /\ z[i] <= s[i]
      BY <2>1, <3>2
    <3>5. SumFunctionOnSet(z, DOMAIN s) <= SumFunctionOnSet(s, DOMAIN s)
      BY <2>1, <3>4, SumMonotone
    <3> QED BY <2>3, <3>3, <3>5
  <2>6. Avg(s) = [num |-> t, den |-> Len(s)]
    BY <1>2, <2>2 DEF Avg
  <2> QED BY <2>1, <2>4, <2>5, <2>6 DEF Average, Fraction, Le, Zero
<1> QED BY <1>1, <1>2

HasScore(S) == {r \in S : r.score # None}
HasSpeed(S) == {r \in S : r.tps > 0}

LEMMA ScoredAre ==
  ASSUME NEW S, NEW rs \in Seq(S)
  PROVE  /\ Scored(rs) = Having(rs, HasScore(S)) /\ Scored(rs) \in Seq(HasScore(S))
         /\ ToSet(Scored(rs)) = {r \in ToSet(rs) : r.score # None}
<1>1. \A i \in DOMAIN rs : rs[i] \in S
  OBVIOUS
<1>2. {i \in DOMAIN rs : rs[i].score # None} = {i \in DOMAIN rs : rs[i] \in HasScore(S)}
  BY <1>1 DEF HasScore
<1>3. Scored(rs) = Having(rs, HasScore(S))
  BY <1>2 DEF Scored, Kept, Having
<1>4. S \cap HasScore(S) = HasScore(S)
  BY DEF HasScore
<1>5. Scored(rs) \in Seq(HasScore(S))
  BY <1>3, <1>4, HavingIsList
<1>6. ToSet(Scored(rs)) = ToSet(rs) \cap HasScore(S)
  BY <1>3, HavingMembers
<1>7. ToSet(rs) \subseteq S
  BY <1>1 DEF ToSet
<1> QED BY <1>3, <1>5, <1>6, <1>7 DEF HasScore

LEMMA AvgScoreIs ==
  ASSUME NEW S, GoodRows(S), NEW rs \in Seq(S) PROVE Average(AvgScore(rs))
<1>1. PICK s \in Seq(HasScore(S)) : s = Scored(rs)
  BY ScoredAre
<1>2. \A i \in DOMAIN s : s[i].score \in Nat
  BY DEF GoodRows, HasScore
<1>3. Scores(rs) = [i \in DOMAIN s |-> s[i].score]
  BY <1>1 DEF Scores
<1>4. Scores(rs) \in Seq(Nat)
  <2>1. [i \in DOMAIN s |-> s[i].score] \in [1..Len(s) -> Nat]
    BY <1>2
  <2> QED BY <1>3, <2>1
<1> QED BY <1>4, AvgIs DEF AvgScore

LEMMA AvgSpeedIs ==
  ASSUME NEW S, GoodRows(S), NEW rs \in Seq(S) PROVE Average(AvgSpeed(rs))
<1>1. \A i \in DOMAIN rs : rs[i] \in S
  OBVIOUS
<1>2. {i \in DOMAIN rs : rs[i].tps > 0} = {i \in DOMAIN rs : rs[i] \in HasSpeed(S)}
  BY <1>1 DEF HasSpeed
<1>3. PICK s : s = Having(rs, HasSpeed(S))
  OBVIOUS
<1>4. s \in Seq(S \cap HasSpeed(S))
  BY <1>3, HavingIsList
<1>5. AvgSpeed(rs) = Avg([i \in DOMAIN s |-> s[i].tps])
  BY <1>2, <1>3 DEF AvgSpeed, Kept, Having
<1>6. \A i \in DOMAIN s : s[i].tps \in Nat
  BY <1>4 DEF GoodRows, HasSpeed
<1>7. [i \in DOMAIN s |-> s[i].tps] \in Seq(Nat)
  <2>1. [i \in DOMAIN s |-> s[i].tps] \in [1..Len(s) -> Nat]
    BY <1>4, <1>6
  <2> QED BY <1>4, <2>1
<1> QED BY <1>5, <1>7, AvgIs

-----------------------------------------------------------------------------
(* A list in another order has the same members.                           *)
LEMMA ArrangesMembers ==
  ASSUME NEW S, NEW s \in Seq(S), NEW r \in Seq(S), Len(r) = Len(s), NEW at, NEW R,
         Arranges(at, r, s, R)
  PROVE  ToSet(r) = ToSet(s)
<1>1. DOMAIN r = DOMAIN s
  OBVIOUS
<1>2. \A n \in DOMAIN s : at[n] \in DOMAIN s /\ r[n] = s[at[n]]
  BY DEF Arranges
<1>3. \A i \in DOMAIN s : \E n \in DOMAIN s : r[n] = s[i]
  BY DEF Arranges
<1>4. \A x \in ToSet(r) : x \in ToSet(s)
  BY <1>1, <1>2 DEF ToSet
<1>5. ASSUME NEW x \in ToSet(s) PROVE x \in ToSet(r)
  <2>1. PICK i \in DOMAIN s : x = s[i]
    BY DEF ToSet
  <2> QED BY <1>1, <1>3, <2>1 DEF ToSet
<1> QED BY <1>4, <1>5

(* The members of a list with their values.                                *)
AreMapped(t, s, f) ==
  ToSet(t) = {f[x] : x \in ToSet(s)} /\ t \in Seq({f[x] : x \in ToSet(s)}) /\ Len(t) = Len(s)

LEMMA MappedMembers ==
  ASSUME NEW S, NEW s \in Seq(S), NEW f, NEW t, t = [i \in DOMAIN s |-> f[s[i]]]
  PROVE  AreMapped(t, s, f)
<1>1. DOMAIN t = 1..Len(s) /\ DOMAIN s = 1..Len(s) /\ Len(s) \in Nat
  OBVIOUS
<1>2. \A i \in 1..Len(s) : s[i] \in ToSet(s) /\ t[i] = f[s[i]]
  BY <1>1 DEF ToSet
<1>3. t \in [1..Len(s) -> {f[x] : x \in ToSet(s)}]
  BY <1>1, <1>2
<1>4. t \in Seq({f[x] : x \in ToSet(s)}) /\ Len(t) = Len(s)
  BY <1>1, <1>3
<1>5. \A x \in ToSet(s) : \E i \in 1..Len(s) : x = s[i]
  BY <1>1 DEF ToSet
<1>6. ToSet(t) = {f[x] : x \in ToSet(s)}
  BY <1>1, <1>2, <1>5 DEF ToSet
<1> QED BY <1>4, <1>6 DEF AreMapped

LEMMA MembersAreFinite == ASSUME NEW S, NEW s \in Seq(S) PROVE IsFiniteSet(ToSet(s))
<1>1. DOMAIN s = 1..Len(s) /\ Len(s) \in Nat
  OBVIOUS
<1>2. IsFiniteSet(1..Len(s))
  BY <1>1, FS_Interval
<1>3. \A i \in 1..Len(s) : s[i] \in ToSet(s)
  BY <1>1 DEF ToSet
<1>4. \A x \in ToSet(s) : \E i \in 1..Len(s) : s[i] = x
  BY <1>1 DEF ToSet
<1>5. s \in [1..Len(s) -> ToSet(s)]
  BY <1>1, <1>3
<1>6. \E g : g \in Surjection(1..Len(s), ToSet(s))
  BY <1>4, <1>5 DEF Surjection
<1> QED BY <1>2, <1>6, FS_Surjection

-----------------------------------------------------------------------------
(* A row put before the others of its table keeps them numbered.           *)
LEMMA PutFirst ==
  ASSUME NEW S, NEW t \in Seq(S), NEW x \in S
  PROVE  LET u == <<x>> \o t
         IN /\ u \in Seq(S) /\ Len(u) = Len(t) + 1 /\ u[1] = x /\ DOMAIN u = 1..Len(t)+1
            /\ \A i \in DOMAIN u \ {1} : i - 1 \in DOMAIN t /\ u[i] = t[i - 1]
            /\ ToSet(u) = ToSet(t) \cup {x}
<1> DEFINE u == <<x>> \o t
<1>1. u \in Seq(S) /\ Len(u) = Len(t) + 1 /\ u[1] = x /\ DOMAIN u = 1..Len(t)+1
  OBVIOUS
<1>2. \A i \in DOMAIN u \ {1} : i - 1 \in DOMAIN t /\ u[i] = t[i - 1]
  OBVIOUS
<1>3. \A j \in DOMAIN t : j + 1 \in DOMAIN u \ {1} /\ u[j + 1] = t[j]
  OBVIOUS
<1>4. 1 \in DOMAIN u
  BY <1>1
<1> HIDE DEF u
<1>5. ToSet(u) = ToSet(t) \cup {x}
  <2>1. ASSUME NEW y, y \in ToSet(u) PROVE y \in ToSet(t) \cup {x}
    <3>1. PICK i \in DOMAIN u : y = u[i]
      BY <2>1 DEF ToSet
    <3> QED BY <1>1, <1>2, <3>1 DEF ToSet
  <2>2. ASSUME NEW y, y \in ToSet(t) PROVE y \in ToSet(u)
    <3>1. PICK j \in DOMAIN t : y = t[j]
      BY <2>2 DEF ToSet
    <3> QED BY <1>3, <3>1 DEF ToSet
  <2>3. x \in ToSet(u)
    BY <1>1, <1>4 DEF ToSet
  <2> QED BY <2>1, <2>2, <2>3
<1> QED BY <1>1, <1>2, <1>5 DEF u

-----------------------------------------------------------------------------
(* A query with a condition on the members of S.                           *)
Filtered(t, s, C) ==
  /\ t = Having(s, C) /\ ToSet(t) = ToSet(s) \cap C
  /\ Distinct(s) => Distinct(t)

LEMMA HavingFilters ==
  ASSUME NEW S, NEW s \in Seq(S), NEW C
  PROVE  Filtered(Having(s, C), s, C) /\ Having(s, C) \in Seq(S)
<1>1. Having(s, C) \in Seq(S \cap C)
  BY HavingIsList
<1> QED BY <1>1, HavingMembers, HavingDistinct DEF Filtered

-----------------------------------------------------------------------------
(* How often the judge's records are exported.                             *)
LEMMA OccursHowOften ==
  ASSUME NEW S, NEW q \in Seq(S), NEW e
  PROVE  Len(Part(q, {i \in DOMAIN q : q[i] = e})) = HowOften(q, {e})
<1>1. {i \in DOMAIN q : q[i] = e} = {i \in DOMAIN q : q[i] \in {e}}
  OBVIOUS
<1>2. Part(q, {i \in DOMAIN q : q[i] = e}) = Having(q, {e})
  BY <1>1 DEF Having
<1> QED BY <1>2, HavingIsList

-----------------------------------------------------------------------------
(* Rows by model, and model by model.                                      *)
OfModel(S, m) == {r \in S : r.model = m}

LEMMA ModelGroups ==
  ASSUME NEW S, NEW rs \in Seq(S), NEW m
  PROVE  /\ Group(rs, Model, m) = Having(rs, OfModel(S, m)) /\ Group(rs, Model, m) \in Seq(S)
         /\ \A i \in DOMAIN Group(rs, Model, m) : Group(rs, Model, m)[i] \in OfModel(S, m)
         /\ ToSet(Group(rs, Model, m)) = {r \in ToSet(rs) : r.model = m}
<1>1. \A i \in DOMAIN rs : rs[i] \in S
  OBVIOUS
<1>2. {i \in DOMAIN rs : rs[i].model = m} = {i \in DOMAIN rs : rs[i] \in OfModel(S, m)}
  BY <1>1 DEF OfModel
<1>3. Group(rs, Model, m) = Having(rs, OfModel(S, m))
  BY <1>2 DEF Group, Kept, Having, Model
<1>4. Having(rs, OfModel(S, m)) \in Seq(S \cap OfModel(S, m))
  BY HavingIsList
<1>5. ToSet(Having(rs, OfModel(S, m))) = ToSet(rs) \cap OfModel(S, m)
  BY HavingMembers
<1>6. ToSet(rs) \subseteq S
  BY <1>1 DEF ToSet
<1>7. ToSet(rs) \cap OfModel(S, m) = {r \in ToSet(rs) : r.model = m}
  BY <1>6 DEF OfModel
<1>8. PICK g : g = Having(rs, OfModel(S, m))
  OBVIOUS
<1>9. g \in Seq(S) /\ \A i \in DOMAIN g : g[i] \in OfModel(S, m)
  BY <1>4, <1>8
<1> QED BY <1>3, <1>5, <1>7, <1>8, <1>9

LEMMA ModelKeys ==
  ASSUME NEW S, NEW rs \in Seq(S)
  PROVE  /\ Keys(rs, Model) \in Seq({r.model : r \in S}) /\ Distinct(Keys(rs, Model))
         /\ ToSet(Keys(rs, Model)) = {r.model : r \in ToSet(rs)}
<1> DEFINE k == [i \in DOMAIN rs |-> rs[i].model]
<1>1. k \in Seq({r.model : r \in S}) /\ DOMAIN k = DOMAIN rs
  OBVIOUS
<1>2. {i \in DOMAIN rs : \A j \in 1..i-1 : k[j] # k[i]} = FirstOnes(k)
  BY <1>1 DEF FirstOnes
<1>3. Keys(rs, Model) = Part(k, FirstOnes(k))
  BY <1>2 DEF Keys, Model
<1>4. \A i \in DOMAIN rs : k[i] = rs[i].model
  OBVIOUS
<1> HIDE DEF k
<1>5. ToSet(k) = {r.model : r \in ToSet(rs)}
  BY <1>1, <1>4 DEF ToSet
<1> QED BY <1>1, <1>3, <1>5, FirstsAreAll

-----------------------------------------------------------------------------
(* Rows by task and model.                                                 *)
OfKey(S, k) == {r \in S : InTask(r) = k}
RowsOfKey(rs, k) == {r \in ToSet(rs) : InTask(r) = k}
KeysOf(S) == {InTask(r) : r \in S}
ScoredKeys(rs) == {InTask(r) : r \in {r \in ToSet(rs) : r.score # None}}
Mean(rs, k) == AvgScore(Group(rs, InTask, k))

LEMMA KeyGroups ==
  ASSUME NEW S, NEW rs \in Seq(S), NEW k
  PROVE  /\ Group(rs, InTask, k) = Having(rs, OfKey(S, k)) /\ Group(rs, InTask, k) \in Seq(S)
         /\ ToSet(Group(rs, InTask, k)) = RowsOfKey(rs, k)
         /\ Group(Group(rs, InTask, k), InTask, k) = Group(rs, InTask, k)
<1>1. ASSUME NEW s \in Seq(S) PROVE Group(s, InTask, k) = Having(s, OfKey(S, k))
  <2>1. \A i \in DOMAIN s : s[i] \in S
    OBVIOUS
  <2>2. {i \in DOMAIN s : InTask(s[i]) = k} = {i \in DOMAIN s : s[i] \in OfKey(S, k)}
    BY <2>1 DEF OfKey
  <2> QED BY <2>2 DEF Group, Kept, Having
<1>2. PICK g : g = Having(rs, OfKey(S, k))
  OBVIOUS
<1>3. g \in Seq(S \cap OfKey(S, k)) /\ ToSet(g) = ToSet(rs) \cap OfKey(S, k)
  BY <1>2, HavingIsList, HavingMembers
<1>4. g \in Seq(S) /\ \A i \in DOMAIN g : g[i] \in OfKey(S, k)
  BY <1>3
<1>5. Having(g, OfKey(S, k)) = g
  BY <1>4, HavingAll
<1>6. \A r \in ToSet(rs) : r \in S
  BY DEF ToSet
<1>7. ToSet(g) = RowsOfKey(rs, k)
  BY <1>3, <1>6 DEF OfKey, RowsOfKey
<1>8. Group(rs, InTask, k) = g /\ Group(g, InTask, k) = g
  BY <1>1, <1>2, <1>4, <1>5
<1> QED BY <1>2, <1>4, <1>7, <1>8

LEMMA KeysAreTasks ==
  ASSUME NEW S, NEW rs \in Seq(S)
  PROVE  /\ Keys(rs, InTask) \in Seq(KeysOf(S)) /\ Distinct(Keys(rs, InTask))
         /\ ToSet(Keys(rs, InTask)) = {InTask(r) : r \in ToSet(rs)}
<1> DEFINE k == [i \in DOMAIN rs |-> InTask(rs[i])]
<1>1. k \in Seq(KeysOf(S)) /\ DOMAIN k = DOMAIN rs
  BY DEF KeysOf
<1>2. {i \in DOMAIN rs : \A j \in 1..i-1 : k[j] # k[i]} = FirstOnes(k)
  BY <1>1 DEF FirstOnes
<1>3. Keys(rs, InTask) = Part(k, FirstOnes(k))
  BY <1>2 DEF Keys
<1>4. \A i \in DOMAIN rs : k[i] = InTask(rs[i])
  OBVIOUS
<1> HIDE DEF k
<1>5. ToSet(k) = {InTask(r) : r \in ToSet(rs)}
  BY <1>1, <1>4 DEF ToSet
<1> QED BY <1>1, <1>3, <1>5, FirstsAreAll

(* A key is scored when its rows are, and one key's rows are all of it.    *)
LEMMA ScoredKeysAre ==
  ASSUME NEW S, NEW rs \in Seq(S), NEW k
  PROVE  /\ ToSet(Keys(Scored(rs), InTask)) = ScoredKeys(rs)
         /\ Scored(Group(rs, InTask, k)) # <<>> <=> k \in ScoredKeys(rs)
         /\ ScoredKeys(Group(rs, InTask, k)) = ScoredKeys(rs) \cap {k}
         /\ ScoredKeys(rs) \subseteq ToSet(Keys(rs, InTask))
<1>1. Scored(rs) \in Seq(HasScore(S)) /\ ToSet(Scored(rs)) = {r \in ToSet(rs) : r.score # None}
  BY ScoredAre
<1>2. ToSet(Keys(Scored(rs), InTask)) = ScoredKeys(rs)
  BY <1>1, KeysAreTasks DEF ScoredKeys
<1>3. PICK g \in Seq(S) : g = Group(rs, InTask, k) /\ ToSet(g) = {r \in ToSet(rs) : InTask(r) = k}
  <2>1. Group(rs, InTask, k) \in Seq(S) /\ ToSet(Group(rs, InTask, k)) = RowsOfKey(rs, k)
    BY KeyGroups
  <2>2. PICK g : g = Group(rs, InTask, k)
    OBVIOUS
  <2> QED BY <2>1, <2>2 DEF RowsOfKey
<1>4. PICK s \in Seq(HasScore(S)) : s = Scored(g) /\ ToSet(s) = {r \in ToSet(g) : r.score # None}
  BY ScoredAre
<1>5. s # <<>> <=> \E r \in ToSet(s) : TRUE
  <2>1. DOMAIN s = 1..Len(s) /\ Len(s) \in Nat /\ (s = <<>> <=> Len(s) = 0)
    OBVIOUS
  <2> QED BY <2>1 DEF ToSet
<1>6. s # <<>> <=> k \in ScoredKeys(rs)
  BY <1>3, <1>4, <1>5 DEF ScoredKeys
<1>7. ScoredKeys(g) = ScoredKeys(rs) \cap {k}
  BY <1>3 DEF ScoredKeys
<1>8. ScoredKeys(rs) \subseteq ToSet(Keys(rs, InTask))
  BY KeysAreTasks DEF ScoredKeys
<1> QED BY <1>2, <1>3, <1>4, <1>6, <1>7, <1>8

LEMMA MeanIs ==
  ASSUME NEW S, GoodRows(S), NEW rs \in Seq(S), NEW k
  PROVE  Average(Mean(rs, k)) /\ Mean(rs, k) \in Fraction
BY KeyGroups, AvgScoreIs DEF Mean, Average

-----------------------------------------------------------------------------
(* What detect_regressions finds.                                          *)
Delta(new, old, k) == Minus(Mean(new, k), Mean(old, k))
ChangeOf(new, old, k) ==
  [key |-> k, old |-> Mean(old, k), new |-> Mean(new, k), delta |-> Delta(new, old, k)]
Changes(S) == [key : KeysOf(S), old : Fraction, new : Fraction, delta : Fraction]

LEMMA ChangeIs ==
  ASSUME NEW S, GoodRows(S), NEW new \in Seq(S), NEW old \in Seq(S), NEW k \in KeysOf(S)
  PROVE  ChangeOf(new, old, k) \in Changes(S) /\ Delta(new, old, k) \in Fraction
<1>1. Mean(new, k) \in Fraction /\ Mean(old, k) \in Fraction
  BY MeanIs
<1>2. Delta(new, old, k) \in Fraction
  BY <1>1, MinusFraction DEF Delta
<1> QED BY <1>1, <1>2 DEF ChangeOf, Changes

(* The least drop last: sorting by how far the average fell.               *)
LEMMA FallenIs ==
  ASSUME NEW a \in Fraction, NEW b \in Fraction
  PROVE  /\ Minus(Zero, a) \in Fraction
         /\ Lt(Minus(Zero, b), Minus(Zero, a)) \/ Same(Minus(Zero, b), Minus(Zero, a)) => Le(a, b)
<1>1. Minus(Zero, a).num = 0 - a.num /\ Minus(Zero, a).den = a.den
  BY DEF Fraction, Minus, Zero
<1>2. Minus(Zero, b).num = 0 - b.num /\ Minus(Zero, b).den = b.den
  BY DEF Fraction, Minus, Zero
<1>3. Minus(Zero, a) \in Fraction
  BY MinusFraction, ZeroIs DEF Average
<1>4. PICK x \in Int, y \in Int : x = a.num * b.den /\ y = b.num * a.den
  BY DEF Fraction
<1>5. (0 - a.num) * b.den = 0 - x /\ (0 - b.num) * a.den = 0 - y
  BY <1>4 DEF Fraction
<1> QED BY <1>1, <1>2, <1>3, <1>4, <1>5 DEF Lt, Same, Le

-----------------------------------------------------------------------------
(* A relative change, of whatever size, is a change.                       *)
LEMMA RelativeChange ==
  ASSUME NEW x, Average(x), NEW y, Average(y), NEW t \in Fraction, Le(Zero, t),
         Lt(Times(x, t), Minus(y, x))
  PROVE  Lt(x, y)
<1>1. x \in Fraction /\ y \in Fraction /\ 0 <= x.num /\ 0 <= t.num
  BY DEF Average, Fraction, Le, Zero
<1>2. PICK a \in Int : a = y.num * x.den - x.num * y.den
  BY <1>1 DEF Fraction
<1>3. PICK p \in Nat \ {0}, q \in Nat \ {0} : p = y.den * x.den /\ q = x.den * t.den
  BY <1>1 DEF Fraction
<1>4. PICK b \in Nat : b = x.num * t.num
  BY <1>1 DEF Fraction
<1>5. b * p < a * q
  BY <1>2, <1>3, <1>4 DEF Lt, Times, Minus
<1>6. 0 <= b * p
  OBVIOUS
<1>7. 0 < a * q
  <2>1. b * p \in Int /\ a * q \in Int
    OBVIOUS
  <2> QED BY <1>5, <1>6, <2>1
<1>8. 0 < a
  BY <1>7
<1> QED BY <1>1, <1>2, <1>8 DEF Lt, Fraction

-----------------------------------------------------------------------------
(* Groups and keys by a function of the rows.                              *)
With(f, k) == {r \in DOMAIN f : f[r] = k}
GroupBy(rs, f, k) == Having(rs, With(f, k))
KeyList(rs, f) == [i \in DOMAIN rs |-> f[rs[i]]]
KeysBy(rs, f) == Part(KeyList(rs, f), FirstOnes(KeyList(rs, f)))
RowsWith(rs, f, k) == {r \in ToSet(rs) : f[r] = k}
KeysMet(rs, f) == {f[r] : r \in ToSet(rs)}

LEMMA GroupByIs ==
  ASSUME NEW S, NEW rs \in Seq(S), NEW f, DOMAIN f = S, NEW k
  PROVE  /\ GroupBy(rs, f, k) \in Seq(S)
         /\ ToSet(GroupBy(rs, f, k)) = RowsWith(rs, f, k)
         /\ GroupBy(GroupBy(rs, f, k), f, k) = GroupBy(rs, f, k)
<1>1. PICK g : g = GroupBy(rs, f, k)
  OBVIOUS
<1>2. g \in Seq(S \cap With(f, k)) /\ ToSet(g) = ToSet(rs) \cap With(f, k)
  BY <1>1, HavingIsList, HavingMembers DEF GroupBy
<1>3. g \in Seq(S) /\ \A i \in DOMAIN g : g[i] \in With(f, k)
  BY <1>2
<1>4. Having(g, With(f, k)) = g
  BY <1>3, HavingAll
<1>5. \A r \in ToSet(rs) : r \in S
  BY DEF ToSet
<1>6. ToSet(g) = RowsWith(rs, f, k)
  BY <1>2, <1>5 DEF With, RowsWith
<1> QED BY <1>1, <1>3, <1>4, <1>6 DEF GroupBy

LEMMA KeysByIs ==
  ASSUME NEW S, NEW rs \in Seq(S), NEW T, NEW f \in [S -> T]
  PROVE  KeysBy(rs, f) \in Seq(T) /\ Distinct(KeysBy(rs, f)) /\ ToSet(KeysBy(rs, f)) = KeysMet(rs, f)
<1>1. PICK k : k = KeyList(rs, f)
  OBVIOUS
<1>2. k \in Seq(T) /\ DOMAIN k = DOMAIN rs /\ \A i \in DOMAIN rs : k[i] = f[rs[i]]
  <2>1. [i \in DOMAIN rs |-> f[rs[i]]] \in [1..Len(rs) -> T]
    OBVIOUS
  <2> QED BY <1>1, <2>1 DEF KeyList
<1>3. ToSet(k) = KeysMet(rs, f)
  BY <1>2 DEF ToSet, KeysMet
<1> QED BY <1>1, <1>2, <1>3, FirstsAreAll DEF KeysBy

TaskOf(S) == [r \in S |-> r.task]

LEMMA TaskBy ==
  ASSUME NEW S, NEW rs \in Seq(S)
  PROVE  /\ \A k : Group(rs, Task, k) = GroupBy(rs, TaskOf(S), k)
         /\ Keys(rs, Task) = KeysBy(rs, TaskOf(S))
<1>1. \A i \in DOMAIN rs : rs[i] \in S /\ TaskOf(S)[rs[i]] = rs[i].task
  BY DEF TaskOf
<1>2. ASSUME NEW k PROVE Group(rs, Task, k) = GroupBy(rs, TaskOf(S), k)
  <2>1. {i \in DOMAIN rs : rs[i].task = k} = {i \in DOMAIN rs : rs[i] \in With(TaskOf(S), k)}
    BY <1>1 DEF With, TaskOf
  <2> QED BY <2>1 DEF Group, Kept, GroupBy, Having, Task
<1>3. PICK k : k = KeyList(rs, TaskOf(S))
  OBVIOUS
<1>4. k = [i \in DOMAIN rs |-> rs[i].task]
  BY <1>1, <1>3 DEF KeyList
<1>5. {i \in DOMAIN rs : \A j \in 1..i-1 : k[j] # k[i]} = FirstOnes(k)
  BY <1>4 DEF FirstOnes
<1>6. Keys(rs, Task) = Part(k, FirstOnes(k))
  BY <1>4, <1>5 DEF Keys, Task
<1> QED BY <1>2, <1>3, <1>6 DEF KeysBy

-----------------------------------------------------------------------------
(* A variance is that of numbers that differ, or zero.                     *)
LEMMA SumConstant ==
  ASSUME NEW f, NEW n \in Nat, NEW c \in Int, \A k \in 1..n : f[k] = c
  PROVE  SumFunctionOnSet(f, 1..n) = n * c
<1>1. IsFiniteSet(1..n)
  BY FS_Interval
<1>2. PICK g : g = [k \in 1..n |-> 0 - c]
  OBVIOUS
<1>3. PICK x : x = SumFunctionOnSet(f, 1..n)
  OBVIOUS
<1>4. x \in Int
  <2>1. \A k \in 1..n : f[k] \in Int
    OBVIOUS
  <2> QED BY <1>1, <1>3, <2>1, SumInt
<1>5. SumFunctionOnSet(g, 1..n) = 0 - x
  <2>1. PICK m \in Int : m = 0 - 1
    OBVIOUS
  <2>2. \A k \in 1..n : f[k] \in Int /\ g[k] = m * f[k]
    BY <1>2, <2>1
  <2>3. SumFunctionOnSet(g, 1..n) = m * SumFunctionOnSet(f, 1..n)
    BY <1>1, <2>2, SumTimes
  <2> QED BY <1>3, <1>4, <2>1, <2>3
<1>6. x <= n * c
  BY <1>3, SumBound
<1>7. SumFunctionOnSet(g, 1..n) <= n * (0 - c)
  <2>1. \A k \in 1..n : g[k] \in Int /\ g[k] <= 0 - c
    BY <1>2
  <2>2. 0 - c \in Int
    OBVIOUS
  <2> QED BY <2>1, <2>2, SumBound
<1>8. PICK y \in Int : y = n * c
  OBVIOUS
<1>9. n * (0 - c) = 0 - y
  BY <1>8
<1> QED BY <1>3, <1>4, <1>5, <1>6, <1>7, <1>8, <1>9

LEMMA SquareOf ==
  ASSUME NEW n \in Int, NEW x \in Int, NEW a \in Int
  PROVE  (n * x - a) * (n * x - a) = (n * n) * (x * x) + (0 - 2 * n * a) * x + a * a
OBVIOUS

LEMMA SquareIsPositive ==
  ASSUME NEW x \in Int PROVE x * x \in Nat /\ (x # 0 => x * x > 0)
OBVIOUS

-----------------------------------------------------------------------------
(* What a task's scored runs spread over.                                  *)
ScoredOf(rs, t) == Scored(Group(rs, Task, t))
Splitting(rs, t) == \E q, r \in ToSet(ScoredOf(rs, t)) : q.score # r.score

LEMMA ScoredOfIs ==
  ASSUME NEW S, NEW rs \in Seq(S), NEW t
  PROVE  /\ ScoredOf(rs, t) \in Seq(HasScore(S)) /\ Scored(ScoredOf(rs, t)) = ScoredOf(rs, t)
         /\ ToSet(ScoredOf(rs, t)) = {r \in ToSet(rs) : r.task = t /\ r.score # None}
<1>1. PICK g \in Seq(S) : g = Group(rs, Task, t) /\ ToSet(g) = RowsWith(rs, TaskOf(S), t)
  <2>1. DOMAIN TaskOf(S) = S
    BY DEF TaskOf
  <2>2. /\ GroupBy(rs, TaskOf(S), t) \in Seq(S)
        /\ ToSet(GroupBy(rs, TaskOf(S), t)) = RowsWith(rs, TaskOf(S), t)
    BY <2>1, GroupByIs
  <2>3. Group(rs, Task, t) = GroupBy(rs, TaskOf(S), t)
    BY TaskBy
  <2> QED BY <2>2, <2>3
<1>2. \A r \in ToSet(rs) : r \in S /\ TaskOf(S)[r] = r.task
  BY DEF ToSet, TaskOf
<1>3. PICK s : s = ScoredOf(rs, t)
  OBVIOUS
<1>4. s \in Seq(HasScore(S)) /\ ToSet(s) = {r \in ToSet(g) : r.score # None}
  BY <1>1, <1>3, ScoredAre DEF ScoredOf
<1>5. Scored(s) = s
  <2>1. PICK H : H = HasScore(S)
    OBVIOUS
  <2>2. s \in Seq(H) /\ \A i \in DOMAIN s : s[i] \in H
    BY <1>4, <2>1
  <2>3. Scored(s) = Having(s, HasScore(H))
    BY <2>2, ScoredAre
  <2>4. HasScore(H) = H
    BY <2>1 DEF HasScore
  <2> QED BY <2>2, <2>3, <2>4, HavingAll
<1> QED BY <1>1, <1>2, <1>3, <1>4, <1>5 DEF RowsWith

IsSpread(sp, rs, t) ==
  /\ sp.task = t /\ Average(sp.variance)
  /\ Lt(Zero, sp.variance) <=> Splitting(rs, t)
  /\ sp.best.score # sp.worst.score <=> Splitting(rs, t)

(* The greatest and the least of a list of numbers.                        *)
LEMMA Extremes ==
  ASSUME NEW s \in Seq(Nat), s # <<>>
  PROVE  /\ Max(ToSet(s)) \in ToSet(s) /\ Min(ToSet(s)) \in ToSet(s)
         /\ \A x \in ToSet(s) : Min(ToSet(s)) <= x /\ x <= Max(ToSet(s))
<1>1. PICK T : T = ToSet(s)
  OBVIOUS
<1>2. IsFiniteSet(T) /\ T \subseteq Nat /\ T # {}
  <2>1. 1 \in DOMAIN s
    OBVIOUS
  <2>2. s[1] \in T
    BY <1>1, <2>1 DEF ToSet
  <2>3. \A x \in T : x \in Nat
    BY <1>1 DEF ToSet
  <2> QED BY <1>1, <2>2, <2>3, MembersAreFinite
<1> DEFINE Greatest(A) == \E x \in A : \A y \in A : x >= y
           Least(A) == \E x \in A : \A y \in A : x <= y
           Good == {A \in SUBSET T : A # {} => Greatest(A) /\ Least(A)}
<1>3. ASSUME NEW A \in SUBSET T, \A x \in A : A \ {x} \in Good
      PROVE  A \in Good
  <2> SUFFICES ASSUME A # {} PROVE Greatest(A) /\ Least(A)
    OBVIOUS
  <2>1. PICK x \in A : TRUE
    OBVIOUS
  <2>2. \A y \in A : y \in Nat
    BY <1>2
  <2>3. CASE A \ {x} = {}
    <3>1. A = {x}
      BY <2>3
    <3> QED BY <2>2, <3>1
  <2>4. CASE A \ {x} # {}
    <3>1. Greatest(A \ {x}) /\ Least(A \ {x})
      BY <1>3, <2>4
    <3>2. PICK hi \in A \ {x} : \A y \in A \ {x} : hi >= y
      BY <3>1
    <3>3. PICK lo \in A \ {x} : \A y \in A \ {x} : lo <= y
      BY <3>1
    <3>4. Greatest(A)
      <4>1. CASE x >= hi
        <5>1. \A y \in A : x >= y
          BY <2>2, <3>2, <4>1
        <5> QED BY <5>1
      <4>2. CASE ~(x >= hi)
        <5>1. \A y \in A : hi >= y
          BY <2>2, <3>2, <4>2
        <5> QED BY <5>1
      <4> QED BY <4>1, <4>2
    <3>5. Least(A)
      <4>1. CASE x <= lo
        <5>1. \A y \in A : x <= y
          BY <2>2, <3>3, <4>1
        <5> QED BY <5>1
      <4>2. CASE ~(x <= lo)
        <5>1. \A y \in A : lo <= y
          BY <2>2, <3>3, <4>2
        <5> QED BY <5>1
      <4> QED BY <4>1, <4>2
    <3> QED BY <3>4, <3>5
  <2> QED BY <2>3, <2>4
<1>4. T \in Good
  <2>1. SUBSET T \subseteq Good
    <3> HIDE DEF Good
    <3> QED BY <1>2, <1>3, SubsetInduction
  <2> QED BY <2>1
<1>5. (\E x \in T : \A y \in T : x >= y) /\ (\E x \in T : \A y \in T : x <= y)
  BY <1>2, <1>4
<1>6. Max(T) \in T /\ \A y \in T : Max(T) >= y
  BY <1>5 DEF Max
<1>7. Min(T) \in T /\ \A y \in T : Min(T) <= y
  BY <1>5 DEF Min
<1>8. \A y \in T : Min(T) <= y /\ y <= Max(T)
  BY <1>2, <1>6, <1>7
<1> QED BY <1>1, <1>6, <1>7, <1>8

(* The first row of a score is one of that score.                          *)
LEMMA FirstWith ==
  ASSUME NEW S, NEW g \in Seq(S), NEW x, \E i \in DOMAIN g : g[i].score = x
  PROVE  LET i == SelectInSeq(g, LAMBDA r : r.score = x)
         IN i \in DOMAIN g /\ g[i].score = x
<1>1. PICK I : I = {i \in 1..Len(g) : g[i].score = x}
  OBVIOUS
<1>2. I # {} /\ I \subseteq Nat
  <2>1. DOMAIN g = 1..Len(g) /\ Len(g) \in Nat
    OBVIOUS
  <2> QED BY <1>1, <2>1
<1>3. PICK n \in I : \A m \in I : n <= m
  <2>1. PICK n \in Nat : n \in I /\ \A m \in 0..n-1 : m \notin I
    <3> DEFINE Good == {n \in Nat : (\A m \in 0..n : m \notin I) \/ \E n2 \in Nat : n2 \in I /\ \A m \in 0..n2-1 : m \notin I}
    <3>1. 0 \in Good
      BY <1>2
    <3>2. \A n \in Nat : n \in Good => n + 1 \in Good
      <4> SUFFICES ASSUME NEW n \in Nat, \A m \in 0..n : m \notin I PROVE n + 1 \in Good
        OBVIOUS
      <4>1. CASE n + 1 \in I
        <5>1. \A m \in 0..(n+1)-1 : m \notin I
          OBVIOUS
        <5> QED BY <4>1, <5>1
      <4>2. CASE n + 1 \notin I
        <5>1. \A m \in 0..n+1 : m \notin I
          BY <4>2
        <5> QED BY <5>1
      <4> QED BY <4>1, <4>2
    <3>3. Nat \subseteq Good
      <4> HIDE DEF Good
      <4> QED BY <3>1, <3>2, NumberInduction
    <3>4. PICK k \in I : TRUE
      BY <1>2
    <3>5. k \in Nat /\ k \in 0..k
      BY <1>2, <3>4
    <3>6. k \in Good
      <4> HIDE DEF Good
      <4> QED BY <3>3, <3>5
    <3> QED BY <3>4, <3>5, <3>6
  <2>2. \A m \in I : n <= m
    BY <1>2, <2>1
  <2> QED BY <2>1, <2>2
<1>4. Min(I) \in I
  BY <1>3 DEF Min
<1>5. SelectInSeq(g, LAMBDA r : r.score = x) = Min(I)
  BY <1>1, <1>2 DEF SelectInSeq
<1> QED BY <1>1, <1>4, <1>5

-----------------------------------------------------------------------------
(* The list of tasks that discriminate.                                    *)
ScoredTwice(rs) == {t \in {r.task : r \in ToSet(rs)} : Len(ScoredOf(rs, t)) >= 2}
AreDiscriminating(ds, rs) ==
  /\ {ds[i].task : i \in DOMAIN ds} = ScoredTwice(rs)
  /\ \A i \in DOMAIN ds : IsSpread(ds[i], rs, ds[i].task)
  /\ \A i, j \in DOMAIN ds : i < j =>
       ds[i].task # ds[j].task /\ Le(ds[j].variance, ds[i].variance)

(* A task that does not split is not above one that does.                  *)
LEMMA SplittingFirst ==
  ASSUME NEW ds, NEW rs, AreDiscriminating(ds, rs), NEW i \in DOMAIN ds, NEW j \in DOMAIN ds, i < j,
         Splitting(rs, ds[j].task)
  PROVE  Splitting(rs, ds[i].task)
<1>1. Average(ds[i].variance) /\ Average(ds[j].variance) /\ Lt(Zero, ds[j].variance)
  BY DEF AreDiscriminating, IsSpread
<1>2. Le(ds[j].variance, ds[i].variance)
  BY DEF AreDiscriminating
<1>3. Lt(Zero, ds[i].variance)
  <2>1. ds[i].variance \in Fraction /\ ds[j].variance \in Fraction /\ Zero \in Fraction
    BY <1>1, ZeroIs DEF Average
  <2>2. ~Le(ds[j].variance, Zero)
    BY <1>1, <2>1, LeTotal
  <2>3. ~Le(ds[i].variance, Zero)
    BY <1>2, <2>1, <2>2, LeTransitive
  <2> QED BY <2>1, <2>3, LeTotal
<1> QED BY <1>3 DEF AreDiscriminating, IsSpread

-----------------------------------------------------------------------------
(* Counting group by group counts every row once.                          *)
LEMMA TimesEither ==
  ASSUME NEW S, NEW s \in Seq(S), NEW A, NEW B, A \cap B = {}
  PROVE  HowOften(s, A \cup B) = HowOften(s, A) + HowOften(s, B)
<1>1. PICK I : I = {i \in DOMAIN s : s[i] \in A}
  OBVIOUS
<1>2. PICK J : J = {i \in DOMAIN s : s[i] \in B}
  OBVIOUS
<1>3. IsFiniteSet(I) /\ IsFiniteSet(J)
  BY <1>1, <1>2, PositionsHaving
<1>4. I \cap J = {} /\ {i \in DOMAIN s : s[i] \in A \cup B} = I \cup J
  BY <1>1, <1>2
<1>5. Cardinality(I \cup J) = Cardinality(I) + Cardinality(J) - Cardinality(I \cap J)
  BY <1>3, FS_Union
<1>6. Cardinality(I \cap J) = 0
  BY <1>4, FS_EmptySet
<1>7. Cardinality(I) \in Nat /\ Cardinality(J) \in Nat
  BY <1>3, FS_CardinalityType
<1>8. /\ HowOften(s, A) = Cardinality(I) /\ HowOften(s, B) = Cardinality(J)
      /\ HowOften(s, A \cup B) = Cardinality(I \cup J)
  BY <1>1, <1>2, <1>4 DEF HowOften, HowOftenAt
<1> QED BY <1>5, <1>6, <1>7, <1>8

LEMMA TimesSame ==
  ASSUME NEW s, NEW A, NEW B, \A r \in ToSet(s) : r \in A <=> r \in B
  PROVE  HowOften(s, A) = HowOften(s, B)
<1>1. \A i \in DOMAIN s : s[i] \in A <=> s[i] \in B
  BY DEF ToSet
<1>2. {i \in DOMAIN s : s[i] \in A} = {i \in DOMAIN s : s[i] \in B}
  BY <1>1
<1> QED BY <1>2 DEF HowOften, HowOftenAt

WithOneOf(f, ks, n) == {r \in DOMAIN f : \E j \in 1..n : f[r] = ks[j]}
OneMore(f, ks, n) ==
  /\ WithOneOf(f, ks, n) \cap With(f, ks[n + 1]) = {}
  /\ WithOneOf(f, ks, n) \cup With(f, ks[n + 1]) = WithOneOf(f, ks, n + 1)

LEMMA WithOneMore ==
  ASSUME NEW T, NEW ks \in Seq(T), Distinct(ks), NEW f, NEW n \in Nat, n + 1 \in 1..Len(ks)
  PROVE  OneMore(f, ks, n)
<1>1. \A j \in 1..n : ks[j] # ks[n + 1]
  <2> SUFFICES ASSUME NEW j \in 1..n, ks[j] = ks[n + 1] PROVE FALSE
    OBVIOUS
  <2>1. j \in DOMAIN ks /\ n + 1 \in DOMAIN ks /\ j # n + 1
    OBVIOUS
  <2> QED BY <2>1 DEF Distinct
<1>2. 1..n+1 = (1..n) \cup {n + 1}
  OBVIOUS
<1>3. \A r \in DOMAIN f :
        (\E j \in 1..n+1 : f[r] = ks[j]) <=> (\E j \in 1..n : f[r] = ks[j]) \/ f[r] = ks[n + 1]
  BY <1>2
<1> QED BY <1>1, <1>3 DEF OneMore, WithOneOf, With

CountsBy(rs, f, ks, C) == [i \in 1..Len(ks) |-> HowOften(GroupBy(rs, f, ks[i]), C)]

LEMMA GroupsCount ==
  ASSUME NEW S, NEW rs \in Seq(S), NEW f, DOMAIN f = S,
         NEW T, NEW ks \in Seq(T), Distinct(ks), NEW C,
         \A r \in ToSet(rs) : r \in C => f[r] \in ToSet(ks)
  PROVE  SumFunctionOnSet(CountsBy(rs, f, ks, C), 1..Len(ks)) = HowOften(rs, C)
<1>1. PICK m \in Nat : m = Len(ks) /\ DOMAIN ks = 1..m
  OBVIOUS
<1>2. PICK g : g = CountsBy(rs, f, ks, C)
  OBVIOUS
<1>3. ASSUME NEW i \in 1..m PROVE g[i] = HowOften(rs, With(f, ks[i]) \cap C) /\ g[i] \in Int
  <2>1. HowOften(GroupBy(rs, f, ks[i]), C) = HowOften(rs, With(f, ks[i]) \cap C)
    BY HavingTimes DEF GroupBy
  <2> QED BY <1>1, <1>2, <2>1, TimesIsNat DEF CountsBy
<1> DEFINE Good == {n \in Nat : n <= m =>
                      SumFunctionOnSet(g, 1..n) = HowOften(rs, WithOneOf(f, ks, n) \cap C)}
<1>4. 0 \in Good
  <2>1. 1..0 = {}
    OBVIOUS
  <2>2. SumFunctionOnSet(g, 1..0) = 0
    BY <2>1, SumEmpty
  <2>3. \A i \in DOMAIN rs : rs[i] \notin WithOneOf(f, ks, 0) \cap C
    BY <2>1 DEF WithOneOf
  <2>4. HowOften(rs, WithOneOf(f, ks, 0) \cap C) = 0
    BY <2>3, TimesNone
  <2> QED BY <2>2, <2>4
<1>5. ASSUME NEW n \in Nat, n \in Good PROVE n + 1 \in Good
  <2> SUFFICES ASSUME n + 1 <= m
               PROVE  SumFunctionOnSet(g, 1..n+1) = HowOften(rs, WithOneOf(f, ks, n + 1) \cap C)
    OBVIOUS
  <2>1. SumFunctionOnSet(g, 1..n) = HowOften(rs, WithOneOf(f, ks, n) \cap C)
    BY <1>1, <1>5
  <2>2. \A k \in 1..n+1 : g[k] \in Int
    <3>1. \A k \in 1..n+1 : k \in 1..m
      BY <1>1
    <3> QED BY <1>3, <3>1
  <2>3. SumFunctionOnSet(g, 1..n+1) = SumFunctionOnSet(g, 1..n) + g[n + 1]
    BY <2>2, SumLast
  <2>4. PICK A : A = WithOneOf(f, ks, n) \cap C
    OBVIOUS
  <2>5. PICK B : B = With(f, ks[n + 1]) \cap C
    OBVIOUS
  <2>6. OneMore(f, ks, n)
    <3>1. n + 1 \in 1..m
      BY <1>1
    <3> QED BY <1>1, <3>1, WithOneMore
  <2>7. A \cap B = {} /\ A \cup B = WithOneOf(f, ks, n + 1) \cap C
    BY <2>4, <2>5, <2>6 DEF OneMore
  <2>8. HowOften(rs, A \cup B) = HowOften(rs, A) + HowOften(rs, B)
    BY <2>7, TimesEither
  <2>9. n + 1 \in 1..m
    BY <1>1
  <2>10. g[n + 1] = HowOften(rs, B)
    BY <1>3, <2>5, <2>9
  <2> QED BY <2>1, <2>3, <2>4, <2>7, <2>8, <2>10
<1>6. m \in Good
  <2>1. Nat \subseteq Good
    <3> HIDE DEF Good
    <3> QED BY <1>4, <1>5, NumberInduction
  <2> QED BY <2>1
<1>7. SumFunctionOnSet(g, 1..m) = HowOften(rs, WithOneOf(f, ks, m) \cap C)
  BY <1>1, <1>6
<1>8. HowOften(rs, WithOneOf(f, ks, m) \cap C) = HowOften(rs, C)
  <2>1. ASSUME NEW r \in ToSet(rs) PROVE r \in WithOneOf(f, ks, m) \cap C <=> r \in C
    <3>1. r \in S
      BY DEF ToSet
    <3>2. f[r] \in ToSet(ks) => \E j \in 1..m : f[r] = ks[j]
      BY <1>1 DEF ToSet
    <3> QED BY <3>1, <3>2 DEF WithOneOf
  <2> QED BY <2>1, TimesSame
<1> QED BY <1>1, <1>2, <1>7, <1>8

ModelOf(S) == [r \in S |-> r.model]

LEMMA ModelBy ==
  ASSUME NEW S, NEW rs \in Seq(S), NEW k
  PROVE  Group(rs, Model, k) = GroupBy(rs, ModelOf(S), k)
<1>1. With(ModelOf(S), k) = OfModel(S, k)
  BY DEF With, ModelOf, OfModel
<1>2. Group(rs, Model, k) = Having(rs, OfModel(S, k))
  BY ModelGroups
<1> QED BY <1>1, <1>2 DEF GroupBy

(* How many scored runs a task has is a count.                             *)
ScoredRuns(S, t) == {r \in S : r.task = t /\ r.score # None}

LEMMA ScoredOfCounts ==
  ASSUME NEW S, NEW rs \in Seq(S), NEW t
  PROVE  Len(ScoredOf(rs, t)) = HowOften(rs, ScoredRuns(S, t))
<1>1. PICK f : f = TaskOf(S)
  OBVIOUS
<1>2. DOMAIN f = S /\ \A r \in S : f[r] = r.task
  BY <1>1 DEF TaskOf
<1>3. PICK g \in Seq(S) : g = GroupBy(rs, f, t)
  BY <1>2, GroupByIs
<1>4. Group(rs, Task, t) = g
  BY <1>1, <1>3, TaskBy
<1>5. ScoredOf(rs, t) = Having(g, HasScore(S))
  BY <1>4, ScoredAre DEF ScoredOf
<1>6. Len(ScoredOf(rs, t)) = HowOften(g, HasScore(S))
  BY <1>5, HavingIsList
<1>7. HowOften(g, HasScore(S)) = HowOften(rs, With(f, t) \cap HasScore(S))
  BY <1>3, HavingTimes DEF GroupBy
<1>8. With(f, t) \cap HasScore(S) = ScoredRuns(S, t)
  BY <1>2 DEF With, HasScore, ScoredRuns
<1> QED BY <1>6, <1>7, <1>8

-----------------------------------------------------------------------------
(* Tasks, as a list and as a set.                                          *)
TasksOf(rs) == {r.task : r \in ToSet(rs)}

LEMMA TasksAre ==
  ASSUME NEW S, NEW rs \in Seq(S)
  PROVE  Keys(rs, Task) \in Seq({r.task : r \in S}) /\ ToSet(Keys(rs, Task)) = TasksOf(rs)
<1>1. PICK T : T = {r.task : r \in S}
  OBVIOUS
<1>2. TaskOf(S) \in [S -> T]
  BY <1>1 DEF TaskOf
<1>3. KeysBy(rs, TaskOf(S)) \in Seq(T) /\ ToSet(KeysBy(rs, TaskOf(S))) = KeysMet(rs, TaskOf(S))
  BY <1>2, KeysByIs
<1>4. KeysMet(rs, TaskOf(S)) = TasksOf(rs)
  <2>1. \A r \in ToSet(rs) : TaskOf(S)[r] = r.task
    BY DEF ToSet, TaskOf
  <2> QED BY <2>1 DEF KeysMet, TasksOf
<1> QED BY <1>1, <1>3, <1>4, TaskBy

(* Distinct members of a list are no more than its places.                 *)
LEMMA DistinctFit ==
  ASSUME NEW S, NEW b \in Seq(S), Distinct(b), NEW T, NEW h \in Seq(T), ToSet(b) \subseteq ToSet(h)
  PROVE  Len(b) <= Len(h)
<1>1. PICK m \in Nat, n \in Nat : m = Len(b) /\ DOMAIN b = 1..m /\ n = Len(h) /\ DOMAIN h = 1..n
  OBVIOUS
<1>2. \A i \in 1..m : \E j \in 1..n : h[j] = b[i]
  BY <1>1 DEF ToSet
<1>3. PICK f : f = [i \in 1..m |-> CHOOSE j \in 1..n : h[j] = b[i]]
  OBVIOUS
<1>4. \A i \in 1..m : f[i] \in 1..n /\ h[f[i]] = b[i]
  BY <1>2, <1>3
<1>5. f \in Injection(1..m, 1..n)
  <2>1. f \in [1..m -> 1..n]
    BY <1>3, <1>4
  <2>2. \A i, j \in 1..m : f[i] = f[j] => i = j
    BY <1>1, <1>4 DEF Distinct
  <2> QED BY <2>1, <2>2 DEF Injection, IsInjective
<1>6. \A k \in Nat : IsFiniteSet(1..k) /\ Cardinality(1..k) = k
  <2> SUFFICES ASSUME NEW k \in Nat PROVE IsFiniteSet(1..k) /\ Cardinality(1..k) = k
    OBVIOUS
  <2>1. IsFiniteSet(1..k) /\ Cardinality(1..k) = IF 1 > k THEN 0 ELSE k - 1 + 1
    BY FS_Interval
  <2> QED BY <2>1
<1>7. Cardinality(1..m) <= Cardinality(1..n)
  BY <1>5, <1>6, FS_Injection
<1> QED BY <1>1, <1>6, <1>7

-----------------------------------------------------------------------------
(* One pass over a list: from a, by the function h[i] at the place i.      *)
Passes(g, n, a, h) ==
  DOMAIN g = 0..n /\ g[0] = a /\ \A i \in 1..n : g[i] = h[i][g[i-1]]

LEMMA PassesExist ==
  ASSUME NEW X, NEW n \in Nat, NEW a \in X, NEW h \in [1..n -> [X -> X]]
  PROVE  \E g \in [0..n -> X] : Passes(g, n, a, h)
<1> DEFINE Good == {m \in Nat : m <= n => \E g \in [0..m -> X] : Passes(g, m, a, h)}
<1>1. 0 \in Good
  <2>1. PICK g : g = [i \in 0..0 |-> a]
    OBVIOUS
  <2>2. g \in [0..0 -> X] /\ DOMAIN g = 0..0 /\ g[0] = a
    BY <2>1
  <2>3. Passes(g, 0, a, h)
    BY <2>2 DEF Passes
  <2> QED BY <2>2, <2>3
<1>2. ASSUME NEW m \in Nat, m \in Good PROVE m + 1 \in Good
  <2> SUFFICES ASSUME m + 1 <= n PROVE \E g \in [0..m+1 -> X] : Passes(g, m + 1, a, h)
    OBVIOUS
  <2>1. PICK f \in [0..m -> X] : Passes(f, m, a, h)
    BY <1>2
  <2>2. DOMAIN f = 0..m /\ f[0] = a /\ \A i \in 1..m : f[i] = h[i][f[i-1]]
    BY <2>1 DEF Passes
  <2>3. PICK x : x = h[m + 1][f[m]]
    OBVIOUS
  <2>4. x \in X
    <3>1. m + 1 \in 1..n /\ m \in 0..m
      OBVIOUS
    <3>2. h[m + 1] \in [X -> X] /\ f[m] \in X
      BY <3>1
    <3> QED BY <2>3, <3>2
  <2>5. PICK g : g = [i \in 0..m+1 |-> IF i <= m THEN f[i] ELSE x]
    OBVIOUS
  <2>6. /\ DOMAIN g = 0..m+1 /\ g[m + 1] = x
        /\ \A i \in 0..m : g[i] = f[i]
    <3>1. m + 1 \in 0..m+1 /\ ~(m + 1 <= m)
      OBVIOUS
    <3>2. \A i \in 0..m : i \in 0..m+1 /\ i <= m
      OBVIOUS
    <3> QED BY <2>5, <3>1, <3>2
  <2>7. g \in [0..m+1 -> X]
    <3>1. \A i \in 0..m+1 : i \in 0..m \/ i = m + 1
      OBVIOUS
    <3>2. \A i \in 0..m+1 : g[i] \in X
      BY <2>4, <2>6, <3>1
    <3>3. g = [i \in 0..m+1 |-> g[i]]
      BY <2>5, <2>6
    <3> QED BY <3>2, <3>3
  <2>8. ASSUME NEW i \in 1..m+1 PROVE g[i] = h[i][g[i-1]]
    <3>1. CASE i = m + 1
      <4>1. i - 1 = m /\ m \in 0..m
        BY <3>1
      <4> QED BY <2>3, <2>6, <3>1, <4>1
    <3>2. CASE i # m + 1
      <4>1. i \in 1..m /\ i \in 0..m /\ i - 1 \in 0..m
        BY <3>2
      <4> QED BY <2>2, <2>6, <4>1
    <3> QED BY <3>1, <3>2
  <2>9. g[0] = a
    BY <2>2, <2>6
  <2>10. Passes(g, m + 1, a, h)
    BY <2>6, <2>8, <2>9 DEF Passes
  <2> QED BY <2>7, <2>10
<1>3. n \in Good
  <2>1. Nat \subseteq Good
    <3> HIDE DEF Good
    <3> QED BY <1>1, <1>2, NumberInduction
  <2> QED BY <2>1
<1> QED BY <1>3

-----------------------------------------------------------------------------
(* The champion of a list: the first of the greatest value.                *)
Titles(ks) == [who : ToSet(ks) \cup {None}, value : Fraction]
Challenge(ks, value, i) ==
  [b \in Titles(ks) |->
     IF Lt(b.value, value[ks[i]]) THEN [who |-> ks[i], value |-> value[ks[i]]] ELSE b]
Bouts(ks, value) == [i \in 1..Len(ks) |-> Challenge(ks, value, i)]
IsPassOf(g, ks, value, start) ==
  g = [i \in 0..Len(ks) |->
        IF i = 0 THEN [who |-> None, value |-> start]
        ELSE IF Lt(g[i-1].value, value[ks[i]]) THEN [who |-> ks[i], value |-> value[ks[i]]]
        ELSE g[i-1]]
HasWonAt(b, ks, value, start, j) ==
  /\ b.who = ks[j] /\ b.value = value[ks[j]] /\ Lt(start, b.value)
  /\ \A l \in 1..j-1 : Lt(value[ks[l]], b.value)
Leads(b, ks, value, start, n) ==
  /\ Le(start, b.value)
  /\ \A j \in 1..n : Le(value[ks[j]], b.value)
  /\ b = [who |-> None, value |-> start] \/ \E j \in 1..n : HasWonAt(b, ks, value, start, j)

LEMMA ChampionLeads ==
  ASSUME NEW T, NEW ks \in Seq(T), NEW value, \A k \in ToSet(ks) : value[k] \in Fraction,
         NEW start \in Fraction, NEW c, c = Champion(ks, value, start)
  PROVE  c \in Titles(ks) /\ Leads(c, ks, value, start, Len(ks))
<1>1. PICK n \in Nat : n = Len(ks) /\ DOMAIN ks = 1..n
  OBVIOUS
<1>2. PICK X : X = Titles(ks)
  OBVIOUS
<1>3. PICK a : a = [who |-> None, value |-> start]
  OBVIOUS
<1>4. PICK h : h = Bouts(ks, value)
  OBVIOUS
<1>5. a \in X
  BY <1>2, <1>3 DEF Titles
<1>6. ASSUME NEW i \in 1..n
      PROVE  /\ ks[i] \in ToSet(ks) /\ value[ks[i]] \in Fraction
             /\ [who |-> ks[i], value |-> value[ks[i]]] \in X
             /\ \A b \in X : h[i][b] = IF Lt(b.value, value[ks[i]])
                                       THEN [who |-> ks[i], value |-> value[ks[i]]] ELSE b
  <2>1. ks[i] \in ToSet(ks)
    BY <1>1 DEF ToSet
  <2>2. [who |-> ks[i], value |-> value[ks[i]]] \in X
    BY <1>2, <2>1 DEF Titles
  <2>3. h[i] = Challenge(ks, value, i)
    BY <1>1, <1>4 DEF Bouts
  <2> QED BY <1>2, <2>1, <2>2, <2>3 DEF Challenge
<1>7. h \in [1..n -> [X -> X]]
  <2>1. ASSUME NEW i \in 1..n PROVE h[i] \in [X -> X]
    <3>1. h[i] = Challenge(ks, value, i)
      BY <1>1, <1>4 DEF Bouts
    <3>2. \A b \in X : h[i][b] \in X
      BY <1>6
    <3>3. h[i] = [b \in X |-> h[i][b]]
      BY <1>2, <3>1 DEF Challenge
    <3> QED BY <3>2, <3>3
  <2>2. h = [i \in 1..n |-> h[i]]
    BY <1>1, <1>4 DEF Bouts
  <2> QED BY <2>1, <2>2
<1>8. PICK f \in [0..n -> X] : Passes(f, n, a, h)
  BY <1>5, <1>7, PassesExist
<1>9. IsPassOf(f, ks, value, start)
  <2>1. f[0] = a /\ \A i \in 1..n : f[i] = h[i][f[i-1]]
    BY <1>8 DEF Passes
  <2>2. ASSUME NEW i \in 0..n, i # 0
        PROVE f[i] = IF Lt(f[i-1].value, value[ks[i]])
                     THEN [who |-> ks[i], value |-> value[ks[i]]] ELSE f[i-1]
    <3>1. i \in 1..n /\ i - 1 \in 0..n
      BY <2>2
    <3>2. f[i-1] \in X
      BY <3>1
    <3> QED BY <1>6, <2>1, <3>1, <3>2
  <2>3. f = [i \in 0..n |-> f[i]]
    OBVIOUS
  <2>4. [i \in 0..n |-> f[i]] =
          [i \in 0..n |-> IF i = 0 THEN a
             ELSE IF Lt(f[i-1].value, value[ks[i]])
                  THEN [who |-> ks[i], value |-> value[ks[i]]] ELSE f[i-1]]
    BY <2>1, <2>2
  <2> QED BY <1>1, <1>3, <2>3, <2>4 DEF IsPassOf
<1>10. PICK g : IsPassOf(g, ks, value, start) /\ c = g[n]
  <2>1. IsPassOf(CHOOSE g : IsPassOf(g, ks, value, start), ks, value, start)
    BY <1>9
  <2>2. c = (CHOOSE g : IsPassOf(g, ks, value, start))[n]
    BY <1>1 DEF Champion, IsPassOf
  <2> QED BY <2>1, <2>2
<1>11. /\ DOMAIN g = 0..n /\ g[0] = a
       /\ \A i \in 1..n : g[i] = IF Lt(g[i-1].value, value[ks[i]])
                                 THEN [who |-> ks[i], value |-> value[ks[i]]] ELSE g[i-1]
  <2>1. g = [i \in 0..n |-> IF i = 0 THEN a
               ELSE IF Lt(g[i-1].value, value[ks[i]])
                    THEN [who |-> ks[i], value |-> value[ks[i]]] ELSE g[i-1]]
    BY <1>1, <1>3, <1>10 DEF IsPassOf
  <2>2. PICK step : step = [i \in 1..n |-> IF Lt(g[i-1].value, value[ks[i]])
                    THEN [who |-> ks[i], value |-> value[ks[i]]] ELSE g[i-1]]
    OBVIOUS
  <2>3. g = [i \in 0..n |-> IF i = 0 THEN a ELSE step[i]]
    <3>1. \A i \in 0..n : i # 0 => i \in 1..n
      OBVIOUS
    <3> QED BY <2>1, <2>2, <3>1
  <2>4. DOMAIN g = 0..n /\ g[0] = a /\ \A i \in 1..n : g[i] = step[i]
    BY <2>3
  <2> QED BY <2>2, <2>4
<1> DEFINE Good == {m \in Nat : m <= n => g[m] \in X /\ Leads(g[m], ks, value, start, m)}
<1>12. 0 \in Good
  <2>1. Le(start, start)
    BY LeTotal
  <2>2. Leads(a, ks, value, start, 0)
    BY <1>3, <2>1 DEF Leads
  <2> QED BY <1>5, <1>11, <2>2
<1>13. ASSUME NEW m \in Nat, m \in Good PROVE m + 1 \in Good
  <2> SUFFICES ASSUME m + 1 <= n PROVE g[m + 1] \in X /\ Leads(g[m + 1], ks, value, start, m + 1)
    OBVIOUS
  <2>1. PICK b : b = g[m]
    OBVIOUS
  <2>2. b \in X /\ Leads(b, ks, value, start, m)
    BY <1>13, <2>1
  <2>3. b.value \in Fraction
    BY <1>2, <2>2 DEF Titles
  <2>4. PICK i \in 1..n : i = m + 1 /\ i - 1 = m
    OBVIOUS
  <2>5. PICK v \in Fraction : v = value[ks[i]]
    BY <1>6
  <2>6. g[i] = IF Lt(b.value, v) THEN [who |-> ks[i], value |-> v] ELSE b
    BY <1>11, <2>1, <2>4, <2>5
  <2>7. /\ Le(start, b.value) /\ \A j \in 1..m : Le(value[ks[j]], b.value)
        /\ b = a \/ \E j \in 1..m : HasWonAt(b, ks, value, start, j)
    BY <1>3, <2>2 DEF Leads
  <2>8. \A j \in 1..i : j = i \/ j \in 1..m
    BY <2>4
  <2>9. \A j \in 1..m : j \in 1..n /\ j \in 1..i
    BY <2>4
  <2>10. CASE Lt(b.value, v)
    <3>1. PICK w : w = [who |-> ks[i], value |-> v]
      OBVIOUS
    <3>2. w = g[i] /\ w \in X /\ w.value = v /\ w.who = ks[i]
      BY <1>6, <2>5, <2>6, <2>10, <3>1
    <3>3. \A x \in Fraction : Le(x, b.value) => Lt(x, v)
      <4> SUFFICES ASSUME NEW x \in Fraction, Le(x, b.value) PROVE Lt(x, v)
        OBVIOUS
      <4>1. ~Le(v, b.value)
        BY <2>3, <2>10, LeTotal
      <4>2. ~Le(v, x)
        BY <2>3, <4>1, LeTransitive
      <4> QED BY <4>2, LeTotal
    <3>4. \A x \in Fraction : Lt(x, v) => Le(x, v)
      BY LeTotal
    <3>5. Lt(start, v) /\ Le(start, v)
      BY <2>7, <3>3, <3>4
    <3>6. \A j \in 1..m : Lt(value[ks[j]], v)
      BY <1>6, <2>7, <2>9, <3>3
    <3>7. \A j \in 1..i : Le(value[ks[j]], v)
      <4>1. Le(v, v)
        BY LeTotal
      <4> QED BY <1>6, <2>5, <2>8, <2>9, <3>4, <3>6, <4>1
    <3>8. HasWonAt(w, ks, value, start, i)
      BY <2>4, <2>5, <3>2, <3>5, <3>6 DEF HasWonAt
    <3>9. Leads(w, ks, value, start, i)
      <4>1. i \in 1..i
        OBVIOUS
      <4> QED BY <3>2, <3>5, <3>7, <3>8, <4>1 DEF Leads
    <3> QED BY <2>4, <3>2, <3>9
  <2>11. CASE ~Lt(b.value, v)
    <3>1. Le(v, b.value)
      BY <2>3, <2>11, LeTotal
    <3>2. \A j \in 1..i : Le(value[ks[j]], b.value)
      BY <2>5, <2>7, <2>8, <3>1
    <3>3. b = a \/ \E j \in 1..i : HasWonAt(b, ks, value, start, j)
      BY <2>7, <2>9
    <3>4. Leads(b, ks, value, start, i)
      BY <1>3, <2>7, <3>2, <3>3 DEF Leads
    <3> QED BY <2>2, <2>4, <2>6, <2>11, <3>4
  <2> QED BY <2>10, <2>11
<1>14. n \in Good
  <2>1. Nat \subseteq Good
    <3> HIDE DEF Good
    <3> QED BY <1>12, <1>13, NumberInduction
  <2> QED BY <2>1
<1> QED BY <1>1, <1>2, <1>10, <1>14

-----------------------------------------------------------------------------
(* The best two of a list, in one pass.                                    *)
Pairs(ms) == [who : ToSet(ms) \cup {None}, best : Fraction, second : Fraction]
Unplayed == [who |-> None, best |-> Whole(-1), second |-> Whole(-1)]
Placed(b, m, s) ==
  IF Lt(b.best, s) THEN [who |-> m, best |-> s, second |-> b.best]
  ELSE IF Lt(b.second, s) THEN [b EXCEPT !.second = s] ELSE b
IsAhead(b, ms, v, n, j) ==
  /\ b.who = ms[j] /\ b.best = v[j] /\ Le(b.second, b.best)
  /\ \A l \in 1..n : l # j => Le(v[l], b.second)
  /\ n > 1 => \E l \in 1..n : l # j /\ b.second = v[l]
  /\ n = 1 => b.second = Whole(-1)
AreTopTwo(b, ms, v, n) == \E j \in 1..n : IsAhead(b, ms, v, n, j)

LEMMA BelowZero ==
  ASSUME NEW s \in Fraction, Le(Zero, s) PROVE Whole(-1) \in Fraction /\ Lt(Whole(-1), s)
BY DEF Fraction, Le, Lt, Zero, Whole

LEMMA StepTopTwo ==
  ASSUME NEW ms, NEW n \in Nat, NEW v \in [1..n -> Fraction], \A i \in 1..n : Le(Zero, v[i]),
         NEW i \in 1..n, \A j \in 1..n : ms[j] \in ToSet(ms),
         NEW b \in Pairs(ms), IF i = 1 THEN b = Unplayed ELSE AreTopTwo(b, ms, v, i - 1),
         NEW c, c = Placed(b, ms[i], v[i])
  PROVE  c \in Pairs(ms) /\ AreTopTwo(c, ms, v, i)
<1>1. PICK s \in Fraction : s = v[i]
  OBVIOUS
<1>2. b.best \in Fraction /\ b.second \in Fraction
  BY DEF Pairs
<1>3. Whole(-1) \in Fraction /\ Lt(Whole(-1), s) /\ Le(Whole(-1), s)
  <2>1. Whole(-1) \in Fraction /\ Lt(Whole(-1), s)
    BY <1>1, BelowZero
  <2> QED BY <2>1, LeTotal
<1>4. c \in Pairs(ms)
  <2>1. ms[i] \in ToSet(ms)
    OBVIOUS
  <2>2. [who |-> ms[i], best |-> s, second |-> b.best] \in Pairs(ms)
    BY <1>2, <2>1 DEF Pairs
  <2>3. [b EXCEPT !.second = s] \in Pairs(ms)
    BY DEF Pairs
  <2> QED BY <1>1, <2>2, <2>3 DEF Placed
<1>5. CASE i = 1
  <2>1. b.best = Whole(-1) /\ b.who = None
    BY <1>5 DEF Unplayed
  <2>2. c = [who |-> ms[i], best |-> s, second |-> b.best]
    BY <1>1, <1>3, <2>1 DEF Placed
  <2>3. c.who = ms[i] /\ c.best = s /\ c.second = Whole(-1)
    BY <2>1, <2>2
  <2>4. \A l \in 1..i : l = i
    BY <1>5
  <2>5. IsAhead(c, ms, v, i, i)
    BY <1>1, <1>3, <1>5, <2>3, <2>4 DEF IsAhead
  <2>6. i \in 1..i
    BY <1>5
  <2> QED BY <1>4, <2>5, <2>6 DEF AreTopTwo
<1>6. CASE i # 1
  <2>1. PICK m \in 1..n : m = i - 1 /\ m >= 1 /\ (\A l \in 1..i : l = i \/ l \in 1..m) /\ \A l \in 1..m : l \in 1..i /\ l # i
    BY <1>6
  <2>2. PICK j \in 1..m : IsAhead(b, ms, v, m, j)
    BY <1>6, <2>1 DEF AreTopTwo
  <2>3. /\ b.who = ms[j] /\ b.best = v[j] /\ Le(b.second, b.best)
        /\ \A l \in 1..m : l # j => Le(v[l], b.second)
        /\ m > 1 => \E l \in 1..m : l # j /\ b.second = v[l]
        /\ m = 1 => b.second = Whole(-1)
    BY <2>2 DEF IsAhead
  <2>4. \A l \in 1..m : v[l] \in Fraction
    BY <2>1
  <2>5. \A l \in 1..m : Le(v[l], b.best)
    <3>1. ASSUME NEW l \in 1..m, l # j PROVE Le(v[l], b.best)
      <4>1. Le(v[l], b.second)
        BY <2>3, <3>1
      <4> QED BY <1>2, <2>3, <2>4, <4>1, LeTransitive
    <3>2. Le(b.best, b.best)
      BY <1>2, LeTotal
    <3> QED BY <2>3, <3>1, <3>2
  <2>6. i > 1 /\ i # 1 /\ j \in 1..i /\ i \in 1..i /\ i # j
    BY <2>1
  <2>7. CASE Lt(b.best, s)
    <3>1. c = [who |-> ms[i], best |-> s, second |-> b.best]
      BY <1>1, <2>7 DEF Placed
    <3>2. c.who = ms[i] /\ c.best = s /\ c.second = v[j]
      BY <2>3, <3>1
    <3>3. Le(v[j], s)
      BY <1>2, <2>3, <2>7, LeTotal
    <3>4. \A l \in 1..i : l # i => Le(v[l], v[j])
      BY <2>1, <2>3, <2>5
    <3>5. IsAhead(c, ms, v, i, i)
      BY <1>1, <2>6, <3>2, <3>3, <3>4 DEF IsAhead
    <3> QED BY <1>4, <2>6, <3>5 DEF AreTopTwo
  <2>8. CASE ~Lt(b.best, s) /\ Lt(b.second, s)
    <3>1. c = [b EXCEPT !.second = s]
      BY <1>1, <2>8 DEF Placed
    <3>2. c.who = ms[j] /\ c.best = v[j] /\ c.second = s
      BY <2>3, <3>1 DEF Pairs
    <3>3. Le(s, v[j]) /\ Le(b.second, s) /\ Le(s, s)
      BY <1>2, <2>3, <2>8, LeTotal
    <3>4. \A l \in 1..i : l # j => Le(v[l], s)
      <4>1. ASSUME NEW l \in 1..m, l # j PROVE Le(v[l], s)
        <5>1. Le(v[l], b.second)
          BY <2>3, <4>1
        <5> QED BY <1>2, <2>4, <3>3, <5>1, LeTransitive
      <4> QED BY <1>1, <2>1, <3>3, <4>1
    <3>5. IsAhead(c, ms, v, i, j)
      BY <1>1, <2>6, <3>2, <3>3, <3>4 DEF IsAhead
    <3> QED BY <1>4, <2>6, <3>5 DEF AreTopTwo
  <2>9. CASE ~Lt(b.best, s) /\ ~Lt(b.second, s)
    <3>1. c = b
      BY <1>1, <2>9 DEF Placed
    <3>2. m > 1
      BY <1>3, <2>1, <2>3, <2>9
    <3>3. Le(s, b.second)
      BY <1>2, <2>9, LeTotal
    <3>4. \A l \in 1..i : l # j => Le(v[l], b.second)
      BY <1>1, <2>1, <2>3, <3>3
    <3>5. \E l \in 1..i : l # j /\ b.second = v[l]
      BY <2>1, <2>3, <3>2
    <3>6. IsAhead(c, ms, v, i, j)
      BY <2>3, <2>6, <3>1, <3>4, <3>5 DEF IsAhead
    <3> QED BY <1>4, <2>6, <3>6 DEF AreTopTwo
  <2> QED BY <2>7, <2>8, <2>9
<1> QED BY <1>5, <1>6

-----------------------------------------------------------------------------
(* What holds of no rows, and is kept as a row is appended, holds of all.  *)
LEMMA ListInduction ==
  ASSUME NEW S, NEW Good, <<>> \in Good,
         \A t \in Seq(S) : \A x \in S : t \in Good => t \o <<x>> \in Good
  PROVE  Seq(S) \subseteq Good
<1> DEFINE Done == {n \in Nat : \A s \in Seq(S) : Len(s) = n => s \in Good}
<1>1. 0 \in Done
  <2>1. \A s \in Seq(S) : Len(s) = 0 => s = <<>>
    OBVIOUS
  <2> QED BY <2>1
<1>2. ASSUME NEW n \in Nat, n \in Done PROVE n + 1 \in Done
  <2> SUFFICES ASSUME NEW s \in Seq(S), Len(s) = n + 1 PROVE s \in Good
    OBVIOUS
  <2>1. PICK t : t = SubSeq(s, 1, n)
    OBVIOUS
  <2>2. t \in Seq(S) /\ Len(t) = n /\ \A i \in 1..n : t[i] = s[i]
    BY <2>1
  <2>3. PICK x \in S : x = s[n + 1]
    <3>1. n + 1 \in DOMAIN s
      OBVIOUS
    <3> QED BY <3>1
  <2>4. s = t \o <<x>>
    <3>1. PICK w : w = t \o <<x>>
      OBVIOUS
    <3>2. w \in Seq(S) /\ Len(w) = n + 1 /\ w[n + 1] = x /\ \A i \in 1..n : w[i] = t[i]
      BY <2>2, <3>1
    <3>3. \A i \in 1..Len(s) : s[i] = w[i]
      <4> SUFFICES ASSUME NEW i \in 1..Len(s) PROVE s[i] = w[i]
        OBVIOUS
      <4>1. i \in 1..n \/ i = n + 1
        OBVIOUS
      <4> QED BY <2>2, <2>3, <3>2, <4>1
    <3>4. s = w
      BY <3>2, <3>3, SameLists
    <3> QED BY <3>1, <3>4
  <2>5. t \in Good
    BY <1>2, <2>2
  <2> QED BY <2>2, <2>4, <2>5
<1>3. Nat \subseteq Done
  <2> HIDE DEF Done
  <2> QED BY <1>1, <1>2, NumberInduction
<1>4. ASSUME NEW s \in Seq(S) PROVE s \in Good
  <2>1. Len(s) \in Done
    BY <1>3
  <2> QED BY <2>1
<1> QED BY <1>4

(* What a test keeps of what another keeps is what passes both.            *)
LEMMA HavingTwice ==
  ASSUME NEW S, NEW s \in Seq(S), NEW C, NEW D
  PROVE  Having(Having(s, C), D) = Having(s, C \cap D)
<1> DEFINE Good == {t \in Seq(S) : Having(Having(t, C), D) = Having(t, C \cap D)}
<1>1. <<>> \in Good
  <2>1. PICK e : e = <<>>
    OBVIOUS
  <2>2. e \in Seq(S) /\ DOMAIN e = {}
    BY <2>1
  <2>3. \A B : Having(e, B) = <<>>
    BY <2>2, HavingNone
  <2> QED BY <2>1, <2>2, <2>3
<1>2. ASSUME NEW t \in Seq(S), NEW x \in S, t \in Good PROVE t \o <<x>> \in Good
  <2>0. PICK o : o = <<x>>
    OBVIOUS
  <2>1. o \in Seq(S) /\ DOMAIN o = {1} /\ o[1] = x
    BY <2>0
  <2>2. \A B : Having(o, B) = IF x \in B THEN o ELSE <<>>
    BY <2>1, HavingAll, HavingNone
  <2>3. PICK u \in Seq(S), w \in Seq(S) : u = Having(t, C) /\ w = Having(o, C)
    <3>1. Having(t, C) \in Seq(S \cap C) /\ Having(o, C) \in Seq(S \cap C)
      BY <2>1, HavingIsList
    <3>2. Having(t, C) \in Seq(S) /\ Having(o, C) \in Seq(S)
      <4>1. \A q : q \in Seq(S \cap C) => q \in Seq(S)
        OBVIOUS
      <4> QED BY <3>1, <4>1
    <3> QED BY <3>2
  <2>4. Having(t \o o, C) = u \o w
    <3>1. JoinedHaving(t, o, C)
      BY <2>1, HavingJoined
    <3> QED BY <2>3, <3>1 DEF JoinedHaving
  <2>5. Having(u \o w, D) = Having(u, D) \o Having(w, D)
    <3>1. JoinedHaving(u, w, D)
      BY <2>3, HavingJoined
    <3> QED BY <3>1 DEF JoinedHaving
  <2>6. Having(t \o o, C \cap D) = Having(t, C \cap D) \o Having(o, C \cap D)
    <3>1. PICK B : B = C \cap D
      OBVIOUS
    <3>2. JoinedHaving(t, o, B)
      BY <2>1, HavingJoined
    <3> QED BY <3>1, <3>2 DEF JoinedHaving
  <2>7. Having(u, D) = Having(t, C \cap D)
    BY <1>2, <2>3
  <2>8. Having(w, D) = Having(o, C \cap D)
    <3>1. CASE x \in C
      BY <2>2, <2>3, <3>1
    <3>2. CASE x \notin C
      <4>1. PICK e : e = <<>>
        OBVIOUS
      <4>2. e \in Seq(S) /\ DOMAIN e = {}
        BY <4>1
      <4>3. Having(e, D) = <<>>
        BY <4>2, HavingNone
      <4> QED BY <2>2, <2>3, <3>2, <4>1, <4>3
    <3> QED BY <3>1, <3>2
  <2>9. PICK y : y = t \o o
    OBVIOUS
  <2>10. y \in Seq(S)
    BY <2>1, <2>9
  <2>11. Having(Having(y, C), D) = Having(y, C \cap D)
    BY <2>4, <2>5, <2>6, <2>7, <2>8, <2>9
  <2>12. y \in Good
    BY <2>10, <2>11
  <2> HIDE DEF Good
  <2> QED BY <2>0, <2>9, <2>12
<1>3. Seq(S) \subseteq Good
  <2> HIDE DEF Good
  <2> QED BY <1>1, <1>2, ListInduction
<1>4. s \in Good
  BY <1>3
<1> QED BY <1>4

(* Groups of groups come in either order.                                  *)
LEMMA GroupsCommute ==
  ASSUME NEW S, NEW rs \in Seq(S), NEW f, NEW g, NEW a, NEW b
  PROVE  GroupBy(GroupBy(rs, f, a), g, b) = GroupBy(GroupBy(rs, g, b), f, a)
<1>1. With(f, a) \cap With(g, b) = With(g, b) \cap With(f, a)
  OBVIOUS
<1>2. /\ Having(Having(rs, With(f, a)), With(g, b)) = Having(rs, With(f, a) \cap With(g, b))
      /\ Having(Having(rs, With(g, b)), With(f, a)) = Having(rs, With(g, b) \cap With(f, a))
  BY HavingTwice
<1> QED BY <1>1, <1>2 DEF GroupBy

-----------------------------------------------------------------------------
(* Sums that are taken in another order, or apart.                         *)
LEMMA SumReindex ==
  ASSUME NEW J, IsFiniteSet(J), NEW f, NEW v, \A x \in J : v[f[x]] \in Int,
         \A x, y \in J : f[x] = f[y] => x = y,
         NEW u, \A x \in J : u[x] = v[f[x]]
  PROVE  SumFunctionOnSet(u, J) = SumFunctionOnSet(v, {f[x] : x \in J})
<1> DEFINE Image(A) == {f[x] : x \in A}
           Good == {A \in SUBSET J : SumFunctionOnSet(u, A) = SumFunctionOnSet(v, Image(A))}
<1>1. ASSUME NEW A \in SUBSET J, \A x \in A : A \ {x} \in Good PROVE A \in Good
  <2>1. CASE A = {}
    <3>1. Image(A) = {}
      BY <2>1
    <3> QED BY <2>1, <3>1, SumEmpty
  <2>2. CASE A # {}
    <3>1. PICK x \in A : TRUE
      BY <2>2
    <3>2. IsFiniteSet(A)
      BY FS_Subset
    <3>3. IsFiniteSet(Image(A))
      <4>1. PICK g : g = [y \in A |-> f[y]]
        OBVIOUS
      <4>2. g \in Surjection(A, Image(A))
        BY <4>1 DEF Surjection
      <4> QED BY <3>2, <4>2, FS_Surjection
    <3>4. Image(A \ {x}) = Image(A) \ {f[x]} /\ f[x] \in Image(A)
      OBVIOUS
    <3>5. SumFunctionOnSet(u, A) = u[x] + SumFunctionOnSet(u, A \ {x})
      <4>1. \A y \in A : u[y] \in Int
        OBVIOUS
      <4> QED BY <3>1, <3>2, <4>1, SumRemove
    <3>6. SumFunctionOnSet(v, Image(A)) = v[f[x]] + SumFunctionOnSet(v, Image(A) \ {f[x]})
      <4>1. PICK B : B = Image(A)
        OBVIOUS
      <4>2. IsFiniteSet(B) /\ f[x] \in B /\ \A y \in B : v[y] \in Int
        BY <3>3, <3>4, <4>1
      <4>3. SumFunctionOnSet(v, B) = v[f[x]] + SumFunctionOnSet(v, B \ {f[x]})
        BY <4>2, SumRemove
      <4> QED BY <4>1, <4>3
    <3>7. SumFunctionOnSet(u, A \ {x}) = SumFunctionOnSet(v, Image(A \ {x}))
      BY <1>1, <3>1
    <3>8. u[x] = v[f[x]]
      BY <3>1
    <3> HIDE DEF Image
    <3> QED BY <3>4, <3>5, <3>6, <3>7, <3>8
  <2> QED BY <2>1, <2>2
<1>2. SUBSET J \subseteq Good
  <2> HIDE DEF Good
  <2> QED BY <1>1, SubsetInduction
<1>3. J \in Good
  BY <1>2
<1> QED BY <1>3

LEMMA SumApart ==
  ASSUME NEW I, IsFiniteSet(I), NEW J, IsFiniteSet(J), I \cap J = {},
         NEW v, \A x \in I \cup J : v[x] \in Int
  PROVE  SumFunctionOnSet(v, I \cup J) = SumFunctionOnSet(v, I) + SumFunctionOnSet(v, J)
<1> DEFINE Good == {A \in SUBSET J : SumFunctionOnSet(v, I \cup A) = SumFunctionOnSet(v, I) + SumFunctionOnSet(v, A)}
<1>1. ASSUME NEW A \in SUBSET J, \A x \in A : A \ {x} \in Good PROVE A \in Good
  <2>1. SumFunctionOnSet(v, I) \in Int
    BY SumInt
  <2>2. CASE A = {}
    <3>1. I \cup A = I
      BY <2>2
    <3> QED BY <2>1, <2>2, <3>1, SumEmpty
  <2>3. CASE A # {}
    <3>1. PICK x \in A : TRUE
      BY <2>3
    <3>2. IsFiniteSet(A)
      BY FS_Subset
    <3>3. IsFiniteSet(A \ {x})
      BY <3>2, FS_Subset
    <3>4. PICK U : U = I \cup A
      OBVIOUS
    <3>5. IsFiniteSet(U) /\ x \in U /\ U \ {x} = I \cup (A \ {x}) /\ \A y \in U : v[y] \in Int
      BY <3>1, <3>2, <3>4, FS_Union
    <3>6. SumFunctionOnSet(v, U) = v[x] + SumFunctionOnSet(v, I \cup (A \ {x}))
      <4>1. SumFunctionOnSet(v, U) = v[x] + SumFunctionOnSet(v, U \ {x})
        BY <3>5, SumRemove
      <4> QED BY <3>5, <4>1
    <3>7. SumFunctionOnSet(v, A) = v[x] + SumFunctionOnSet(v, A \ {x})
      <4>1. \A y \in A : v[y] \in Int
        OBVIOUS
      <4> QED BY <3>1, <3>2, <4>1, SumRemove
    <3>8. SumFunctionOnSet(v, A \ {x}) \in Int
      BY <3>3, SumInt
    <3>9. SumFunctionOnSet(v, I \cup (A \ {x})) = SumFunctionOnSet(v, I) + SumFunctionOnSet(v, A \ {x})
      BY <1>1, <3>1
    <3>10. v[x] \in Int
      BY <3>1
    <3>11. SumFunctionOnSet(v, U) = SumFunctionOnSet(v, I) + SumFunctionOnSet(v, A)
      BY <2>1, <3>6, <3>7, <3>8, <3>9, <3>10
    <3> QED BY <3>4, <3>11
  <2> QED BY <2>2, <2>3
<1>2. SUBSET J \subseteq Good
  <2> HIDE DEF Good
  <2> QED BY <1>1, SubsetInduction
<1>3. J \in Good
  BY <1>2
<1> QED BY <1>3

-----------------------------------------------------------------------------
(* The sum of w over the rows of a list that are in C.                     *)
WeightsOf(s, w) == [i \in DOMAIN s |-> w[s[i]]]
Weighed(s, w, C) == SumFunctionOnSet(WeightsOf(s, w), At(s, C))

LEMMA WeightsAre ==
  ASSUME NEW S, NEW s \in Seq(S), NEW w \in [S -> Int], NEW C
  PROVE  /\ \A i \in DOMAIN s : WeightsOf(s, w)[i] \in Int /\ WeightsOf(s, w)[i] = w[s[i]]
         /\ IsFiniteSet(At(s, C)) /\ At(s, C) \subseteq DOMAIN s
         /\ Weighed(s, w, C) \in Int
<1>1. \A i \in DOMAIN s : WeightsOf(s, w)[i] \in Int /\ WeightsOf(s, w)[i] = w[s[i]]
  BY DEF WeightsOf
<1>2. IsFiniteSet(At(s, C)) /\ At(s, C) \subseteq DOMAIN s
  BY PositionsHaving, ZenonT(40) DEF At
<1>3. \A i \in At(s, C) : WeightsOf(s, w)[i] \in Int
  BY <1>1, <1>2
<1>4. Weighed(s, w, C) \in Int
  BY <1>2, <1>3, SumInt DEF Weighed
<1> QED BY <1>1, <1>2, <1>4

LEMMA WeighedSame ==
  ASSUME NEW s, NEW w, NEW A, NEW B, \A r \in ToSet(s) : r \in A <=> r \in B
  PROVE  Weighed(s, w, A) = Weighed(s, w, B)
<1>1. \A i \in DOMAIN s : s[i] \in A <=> s[i] \in B
  BY DEF ToSet
<1>2. At(s, A) = At(s, B)
  BY <1>1 DEF At
<1> QED BY <1>2 DEF Weighed

LEMMA WeighedEither ==
  ASSUME NEW S, NEW s \in Seq(S), NEW w \in [S -> Int], NEW A, NEW B, A \cap B = {}
  PROVE  Weighed(s, w, A \cup B) = Weighed(s, w, A) + Weighed(s, w, B)
<1>1. PICK I : I = At(s, A)
  OBVIOUS
<1>2. PICK J : J = At(s, B)
  OBVIOUS
<1>3. PICK v : v = WeightsOf(s, w)
  OBVIOUS
<1>4. IsFiniteSet(I) /\ IsFiniteSet(J) /\ \A i \in I \cup J : v[i] \in Int
  BY <1>1, <1>2, <1>3, WeightsAre
<1>5. I \cap J = {} /\ At(s, A \cup B) = I \cup J
  BY <1>1, <1>2 DEF At
<1>6. SumFunctionOnSet(v, I \cup J) = SumFunctionOnSet(v, I) + SumFunctionOnSet(v, J)
  BY <1>4, <1>5, SumApart
<1> QED BY <1>1, <1>2, <1>3, <1>5, <1>6 DEF Weighed

LEMMA WeighedNone ==
  ASSUME NEW s, NEW w, NEW C, \A i \in DOMAIN s : s[i] \notin C
  PROVE  Weighed(s, w, C) = 0
<1>1. At(s, C) = {}
  BY DEF At
<1> QED BY <1>1, SumEmpty DEF Weighed

(* The sum over what a test keeps.                                         *)
LEMMA WeighedKept ==
  ASSUME NEW S, NEW s \in Seq(S), NEW w \in [S -> Int], NEW C, NEW t, t = Having(s, C)
  PROVE  Total(WeightsOf(t, w)) = Weighed(s, w, C)
<1>1. PICK I : I = At(s, C)
  OBVIOUS
<1>2. PICK v : v = WeightsOf(s, w)
  OBVIOUS
<1>3. PICK u : u = WeightsOf(t, w)
  OBVIOUS
<1>4. /\ \A n \in DOMAIN t : Nth(I, n) \in I /\ t[n] = s[Nth(I, n)]
      /\ \A n, m \in DOMAIN t : Nth(I, n) = Nth(I, m) => n = m
      /\ \A i \in I : \E n \in DOMAIN t : Nth(I, n) = i /\ t[n] = s[i]
  <2>1. IsPart(t, s, I)
    BY <1>1, HavingIsPart DEF At
  <2> QED BY <2>1 DEF IsPart
<1>5. IsFiniteSet(DOMAIN t)
  <2>1. t \in Seq(S \cap C)
    BY HavingIsList
  <2> QED BY <2>1, Positions
<1>6. \A i \in I : i \in DOMAIN s /\ v[i] = w[s[i]] /\ v[i] \in Int
  BY <1>1, <1>2, WeightsAre
<1>7. PICK f : f = [n \in DOMAIN t |-> Nth(I, n)]
  OBVIOUS
<1>8. \A n \in DOMAIN t : f[n] \in I /\ v[f[n]] \in Int /\ u[n] = v[f[n]]
  BY <1>3, <1>4, <1>6, <1>7 DEF WeightsOf
<1>9. \A n, m \in DOMAIN t : f[n] = f[m] => n = m
  BY <1>4, <1>7
<1>10. {f[n] : n \in DOMAIN t} = I
  BY <1>4, <1>7, <1>8
<1>11. SumFunctionOnSet(u, DOMAIN t) = SumFunctionOnSet(v, I)
  <2>1. PICK J : J = DOMAIN t
    OBVIOUS
  <2>2. /\ IsFiniteSet(J) /\ \A x \in J : v[f[x]] \in Int
        /\ \A x, y \in J : f[x] = f[y] => x = y
        /\ \A x \in J : u[x] = v[f[x]]
    BY <1>5, <1>8, <1>9, <2>1
  <2>3. SumFunctionOnSet(u, J) = SumFunctionOnSet(v, {f[x] : x \in J})
    BY <2>2, SumReindex, SMTT(30)
  <2> QED BY <1>10, <2>1, <2>3
<1>12. DOMAIN u = DOMAIN t
  BY <1>3 DEF WeightsOf
<1> QED BY <1>1, <1>2, <1>3, <1>11, <1>12 DEF Weighed, Total, SumFunction

LEMMA WeighedHaving ==
  ASSUME NEW S, NEW s \in Seq(S), NEW w \in [S -> Int], NEW C, NEW B
  PROVE  Weighed(Having(s, C), w, B) = Weighed(s, w, C \cap B)
<1>1. PICK t : t = Having(s, C)
  OBVIOUS
<1>2. t \in Seq(S)
  <2>1. t \in Seq(S \cap C)
    BY <1>1, HavingIsList
  <2>2. \A q : q \in Seq(S \cap C) => q \in Seq(S)
    OBVIOUS
  <2> QED BY <2>1, <2>2
<1>3. PICK x : x = Having(t, B)
  OBVIOUS
<1>4. PICK D : D = C \cap B
  OBVIOUS
<1>5. x = Having(s, D)
  BY <1>1, <1>3, <1>4, HavingTwice
<1>6. Total(WeightsOf(x, w)) = Weighed(t, w, B)
  BY <1>2, <1>3, WeighedKept
<1>7. Total(WeightsOf(x, w)) = Weighed(s, w, D)
  BY <1>5, WeighedKept
<1> QED BY <1>1, <1>4, <1>6, <1>7

(* Group by group.                                                         *)
WeighsBy(rs, f, ks, w, C) == [i \in 1..Len(ks) |-> Weighed(GroupBy(rs, f, ks[i]), w, C)]

LEMMA GroupsWeigh ==
  ASSUME NEW S, NEW rs \in Seq(S), NEW f, DOMAIN f = S, NEW w \in [S -> Int],
         NEW T, NEW ks \in Seq(T), Distinct(ks), NEW C,
         \A r \in ToSet(rs) : r \in C => f[r] \in ToSet(ks)
  PROVE  SumFunctionOnSet(WeighsBy(rs, f, ks, w, C), 1..Len(ks)) = Weighed(rs, w, C)
<1>1. PICK m \in Nat : m = Len(ks) /\ DOMAIN ks = 1..m
  OBVIOUS
<1>2. PICK g : g = WeighsBy(rs, f, ks, w, C)
  OBVIOUS
<1>3. ASSUME NEW i \in 1..m PROVE g[i] = Weighed(rs, w, With(f, ks[i]) \cap C) /\ g[i] \in Int
  <2>1. Weighed(GroupBy(rs, f, ks[i]), w, C) = Weighed(rs, w, With(f, ks[i]) \cap C)
    BY WeighedHaving DEF GroupBy
  <2>2. Weighed(rs, w, With(f, ks[i]) \cap C) \in Int
    BY WeightsAre
  <2> QED BY <1>1, <1>2, <2>1, <2>2 DEF WeighsBy
<1> DEFINE Good == {n \in Nat : n <= m =>
                      SumFunctionOnSet(g, 1..n) = Weighed(rs, w, WithOneOf(f, ks, n) \cap C)}
<1>4. 0 \in Good
  <2>1. 1..0 = {}
    OBVIOUS
  <2>2. SumFunctionOnSet(g, 1..0) = 0
    BY <2>1, SumEmpty
  <2>3. \A i \in DOMAIN rs : rs[i] \notin WithOneOf(f, ks, 0) \cap C
    BY <2>1 DEF WithOneOf
  <2>4. Weighed(rs, w, WithOneOf(f, ks, 0) \cap C) = 0
    BY <2>3, WeighedNone
  <2> QED BY <2>2, <2>4
<1>5. ASSUME NEW n \in Nat, n \in Good PROVE n + 1 \in Good
  <2> SUFFICES ASSUME n + 1 <= m
               PROVE  SumFunctionOnSet(g, 1..n+1) = Weighed(rs, w, WithOneOf(f, ks, n + 1) \cap C)
    OBVIOUS
  <2>1. SumFunctionOnSet(g, 1..n) = Weighed(rs, w, WithOneOf(f, ks, n) \cap C)
    BY <1>1, <1>5
  <2>2. \A k \in 1..n+1 : g[k] \in Int
    <3>1. \A k \in 1..n+1 : k \in 1..m
      BY <1>1
    <3> QED BY <1>3, <3>1
  <2>3. SumFunctionOnSet(g, 1..n+1) = SumFunctionOnSet(g, 1..n) + g[n + 1]
    BY <2>2, SumLast
  <2>4. PICK A : A = WithOneOf(f, ks, n) \cap C
    OBVIOUS
  <2>5. PICK B : B = With(f, ks[n + 1]) \cap C
    OBVIOUS
  <2>6. A \cap B = {} /\ A \cup B = WithOneOf(f, ks, n + 1) \cap C
    <3>1. n + 1 \in 1..m
      BY <1>1
    <3>2. OneMore(f, ks, n)
      BY <1>1, <3>1, WithOneMore
    <3> QED BY <2>4, <2>5, <3>2 DEF OneMore
  <2>7. Weighed(rs, w, A \cup B) = Weighed(rs, w, A) + Weighed(rs, w, B)
    BY <2>6, WeighedEither
  <2>8. n + 1 \in 1..m
    BY <1>1
  <2>9. g[n + 1] = Weighed(rs, w, B)
    BY <1>3, <2>5, <2>8
  <2> QED BY <2>1, <2>3, <2>4, <2>6, <2>7, <2>9
<1>6. m \in Good
  <2>1. Nat \subseteq Good
    <3> HIDE DEF Good
    <3> QED BY <1>4, <1>5, NumberInduction
  <2> QED BY <2>1
<1>7. SumFunctionOnSet(g, 1..m) = Weighed(rs, w, WithOneOf(f, ks, m) \cap C)
  BY <1>1, <1>6
<1>8. Weighed(rs, w, WithOneOf(f, ks, m) \cap C) = Weighed(rs, w, C)
  <2>1. ASSUME NEW r \in ToSet(rs) PROVE r \in WithOneOf(f, ks, m) \cap C <=> r \in C
    <3>1. r \in S
      BY DEF ToSet
    <3>2. f[r] \in ToSet(ks) => \E j \in 1..m : f[r] = ks[j]
      BY <1>1 DEF ToSet
    <3> QED BY <3>1, <3>2 DEF WithOneOf
  <2> QED BY <2>1, WeighedSame
<1> QED BY <1>1, <1>2, <1>7, <1>8

(* The sums over two lists one after the other.                            *)
LEMMA WeighedJoined ==
  ASSUME NEW S, NEW a \in Seq(S), NEW b \in Seq(S), NEW w \in [S -> Int], NEW C
  PROVE  Weighed(a \o b, w, C) = Weighed(a, w, C) + Weighed(b, w, C)
<1>1. PICK A : A = At(a, C)
  OBVIOUS
<1>2. PICK B : B = At(b, C)
  OBVIOUS
<1>3. PICK n \in Nat : n = Len(a) /\ DOMAIN a = 1..n
  OBVIOUS
<1>4. PICK ab \in Seq(S) : ab = a \o b
  <2>1. a \o b \in Seq(S)
    OBVIOUS
  <2> QED BY <2>1
<1>0. /\ Len(ab) = n + Len(b) /\ \A i \in 1..n : ab[i] = a[i]
      /\ \A i \in 1..Len(b) : ab[n + i] = b[i] /\ n + i \in 1..Len(ab)
  BY <1>3, <1>4
<1>5. PICK shift : shift = [i \in Int |-> n + i]
  OBVIOUS
<1>6. PICK D : D = {shift[i] : i \in B}
  OBVIOUS
<1>7. /\ IsFiniteSet(A) /\ IsFiniteSet(B) /\ A \subseteq 1..n /\ B \subseteq 1..Len(b)
      /\ At(ab, C) = A \cup D
      /\ \A i \in D : i \in Int /\ n < i
  <2>1. PICK E : E = Shifted(n, B)
    OBVIOUS
  <2>2. /\ IsFiniteSet(A) /\ IsFiniteSet(B) /\ A \subseteq 1..n /\ B \subseteq 1..Len(b)
        /\ At(ab, C) = A \cup E
        /\ \A i \in E : i \in Int /\ n < i
    BY <1>1, <1>2, <1>3, <1>4, <2>1, PositionsJoined
  <2>3. D = E
    BY <1>5, <1>6, <2>1, <2>2 DEF Shifted
  <2> QED BY <2>2, <2>3
<1>8. PICK u : u = WeightsOf(b, w)
  OBVIOUS
<1>9. PICK v : v = WeightsOf(ab, w)
  OBVIOUS
<1>10. PICK x : x = WeightsOf(a, w)
  OBVIOUS
<1>11. \A i \in A : x[i] \in Int /\ v[i] = x[i]
  <2>1. \A i \in A : i \in DOMAIN a /\ i \in DOMAIN ab /\ ab[i] = a[i]
    <3>1. A \subseteq 1..n
      BY <1>7
    <3> QED BY <1>0, <1>3, <1>4, <3>1
  <2>2. \A i \in DOMAIN a : x[i] \in Int /\ x[i] = w[a[i]]
    BY <1>10 DEF WeightsOf
  <2>3. \A i \in DOMAIN ab : v[i] \in Int /\ v[i] = w[ab[i]]
    BY <1>9 DEF WeightsOf
  <2> QED BY <2>1, <2>2, <2>3
<1>12. \A i \in B : v[shift[i]] \in Int /\ u[i] = v[shift[i]]
  <2>1. \A i \in B : i \in DOMAIN b /\ shift[i] \in DOMAIN ab /\ ab[shift[i]] = b[i]
    <3> SUFFICES ASSUME NEW i \in B PROVE i \in DOMAIN b /\ shift[i] \in DOMAIN ab /\ ab[shift[i]] = b[i]
      OBVIOUS
    <3>1. i \in 1..Len(b) /\ shift[i] = n + i
      BY <1>5, <1>7
    <3> QED BY <1>0, <3>1
  <2>2. \A i \in DOMAIN b : u[i] \in Int /\ u[i] = w[b[i]]
    BY <1>8 DEF WeightsOf
  <2>3. \A i \in DOMAIN ab : v[i] \in Int /\ v[i] = w[ab[i]]
    BY <1>9 DEF WeightsOf
  <2> QED BY <2>1, <2>2, <2>3
<1>13. IsFiniteSet(D)
  <2>1. PICK h : h = [i \in B |-> shift[i]]
    OBVIOUS
  <2>2. h \in Surjection(B, D)
    BY <1>6, <2>1 DEF Surjection
  <2> QED BY <1>7, <2>2, FS_Surjection
<1>14. SumFunctionOnSet(u, B) = SumFunctionOnSet(v, D)
  <2>1. \A i, j \in B : shift[i] = shift[j] => i = j
    BY <1>3, <1>5, <1>7
  <2>0. /\ IsFiniteSet(B) /\ \A y \in B : v[shift[y]] \in Int
        /\ \A y \in B : u[y] = v[shift[y]]
    BY <1>7, <1>12
  <2>2. SumFunctionOnSet(u, B) = SumFunctionOnSet(v, {shift[y] : y \in B})
    BY <2>0, <2>1, SumReindex
  <2> QED BY <1>6, <2>2
<1>15. SumFunctionOnSet(v, A) = SumFunctionOnSet(x, A)
  BY <1>7, <1>11, SumEqual
<1>16. SumFunctionOnSet(v, A \cup D) = SumFunctionOnSet(v, A) + SumFunctionOnSet(v, D)
  <2>1. A \cap D = {}
    BY <1>7
  <2>2. \A i \in A \cup D : v[i] \in Int
    BY <1>6, <1>11, <1>12
  <2> QED BY <1>7, <1>13, <2>1, <2>2, SumApart
<1>17. /\ Weighed(ab, w, C) = SumFunctionOnSet(v, A \cup D)
       /\ Weighed(a, w, C) = SumFunctionOnSet(x, A) /\ Weighed(b, w, C) = SumFunctionOnSet(u, B)
  BY <1>1, <1>2, <1>7, <1>8, <1>9, <1>10 DEF Weighed
<1> QED BY <1>4, <1>14, <1>15, <1>16, <1>17

LEMMA FlattenWeighs ==
  ASSUME NEW S, NEW q \in Seq(Seq(S)), NEW w \in [S -> Int], NEW C
  PROVE  Weighed(FlattenSeq(q), w, C) =
           SumFunctionOnSet([i \in 1..Len(q) |-> Weighed(q[i], w, C)], 1..Len(q))
<1>1. PICK n \in Nat : n = Len(q)
  OBVIOUS
<1>2. PICK f : f = [i \in 1..n |-> Weighed(q[i], w, C)]
  OBVIOUS
<1>3. \A i \in 1..n : q[i] \in Seq(S)
  BY <1>1
<1>4. \A i \in 1..n : f[i] = Weighed(q[i], w, C) /\ f[i] \in Int
  BY <1>2, <1>3, WeightsAre
<1> DEFINE Sum(m) == SumFunctionOnSet(f, 1..m)
           Good == [m \in 0..n |-> {t \in Seq(S) : Weighed(t, w, C) = Sum(m)}]
<1>5. <<>> \in Good[0]
  <2>1. PICK e : e = <<>>
    OBVIOUS
  <2>2. e \in Seq(S) /\ DOMAIN e = {}
    BY <2>1
  <2>3. Weighed(e, w, C) = 0
    BY <2>2, WeighedNone
  <2>4. 1..0 = {}
    OBVIOUS
  <2>5. Sum(0) = 0
    BY <2>4, SumEmpty
  <2> HIDE DEF Sum
  <2> QED BY <2>1, <2>2, <2>3, <2>5
<1>6. ASSUME NEW i \in 1..n, NEW t \in Seq(S), t \in Good[i-1] PROVE t \o q[i] \in Good[i]
  <2>1. PICK m \in Nat : m = i - 1 /\ m + 1 = i
    OBVIOUS
  <2>2. Weighed(t \o q[i], w, C) = Weighed(t, w, C) + Weighed(q[i], w, C)
    BY <1>3, WeighedJoined, SMTT(30)
  <2>3. Weighed(t, w, C) = Sum(m)
    BY <1>6, <2>1
  <2>4. Sum(m + 1) = Sum(m) + f[m + 1]
    <3>1. \A k \in 1..m+1 : k \in 1..n
      BY <2>1
    <3>2. \A k \in 1..m+1 : f[k] \in Int
      BY <1>4, <3>1
    <3> QED BY <3>2, SumLast
  <2>5. t \o q[i] \in Seq(S)
    BY <1>3
  <2>6. Good[i] = {u \in Seq(S) : Weighed(u, w, C) = Sum(i)}
    <3>1. i \in 0..n
      OBVIOUS
    <3> QED BY <3>1
  <2>7. f[i] = Weighed(q[i], w, C)
    BY <1>4
  <2> HIDE DEF Sum, Good
  <2>8. Weighed(t \o q[i], w, C) = Sum(i)
    BY <2>1, <2>2, <2>3, <2>4, <2>7
  <2> QED BY <2>5, <2>6, <2>8
<1> HIDE DEF Good
<1>7. FlattenSeq(q) \in Good[n]
  BY <1>1, <1>5, <1>6, FlattenInduction
<1> HIDE DEF Sum
<1>8. Weighed(FlattenSeq(q), w, C) = Sum(n)
  BY <1>7 DEF Good
<1> QED BY <1>1, <1>2, <1>8 DEF Sum

-----------------------------------------------------------------------------
(* The average score of the rows in C, from sums and counts alone.         *)
ScoreOf(S) == [r \in S |-> IF r.score = None THEN 0 ELSE r.score]
MeanOver(S, rs, C) ==
  IF HowOften(rs, C \cap HasScore(S)) = 0 THEN Zero
  ELSE [num |-> Weighed(rs, ScoreOf(S), C \cap HasScore(S)), den |-> HowOften(rs, C \cap HasScore(S))]

LEMMA ScoreOfIs ==
  ASSUME NEW S, GoodRows(S)
  PROVE  ScoreOf(S) \in [S -> Int] /\ \A r \in S : ScoreOf(S)[r] \in Nat
<1>1. \A r \in S : (IF r.score = None THEN 0 ELSE r.score) \in Nat
  BY DEF GoodRows
<1> QED BY <1>1 DEF ScoreOf

LEMMA ScoresWeigh ==
  ASSUME NEW S, GoodRows(S), NEW rs \in Seq(S)
  PROVE  /\ Scores(rs) = WeightsOf(Scored(rs), ScoreOf(S))
         /\ Total(Scores(rs)) = Weighed(rs, ScoreOf(S), HasScore(S))
         /\ Len(Scores(rs)) = HowOften(rs, HasScore(S)) /\ Scores(rs) \in Seq(Nat)
<1>1. PICK s \in Seq(HasScore(S)) : s = Scored(rs) /\ s = Having(rs, HasScore(S))
  BY ScoredAre
<1>2. \A i \in DOMAIN s : s[i] \in S /\ s[i].score # None /\ s[i].score \in Nat
  BY DEF GoodRows, HasScore
<1>3. Scores(rs) = [i \in DOMAIN s |-> s[i].score]
  BY <1>1 DEF Scores
<1>4. Scores(rs) = WeightsOf(s, ScoreOf(S))
  BY <1>2, <1>3 DEF WeightsOf, ScoreOf
<1>5. Total(WeightsOf(s, ScoreOf(S))) = Weighed(rs, ScoreOf(S), HasScore(S))
  BY <1>1, ScoreOfIs, WeighedKept
<1>6. Len(s) = HowOften(rs, HasScore(S))
  BY <1>1, HavingIsList
<1>7. Scores(rs) \in Seq(Nat) /\ Len(Scores(rs)) = Len(s)
  <2>1. [i \in DOMAIN s |-> s[i].score] \in [1..Len(s) -> Nat]
    BY <1>2
  <2> QED BY <1>3, <2>1
<1> QED BY <1>1, <1>4, <1>5, <1>6, <1>7

LEMMA AvgScoreIsMean ==
  ASSUME NEW S, GoodRows(S), NEW rs \in Seq(S), NEW C
  PROVE  AvgScore(Having(rs, C)) = MeanOver(S, rs, C)
<1>1. PICK D : D = C \cap HasScore(S)
  OBVIOUS
<1>2. PICK t : t = Having(rs, C)
  OBVIOUS
<1>3. t \in Seq(S)
  <2>1. t \in Seq(S \cap C)
    BY <1>2, HavingIsList
  <2>2. \A q : q \in Seq(S \cap C) => q \in Seq(S)
    OBVIOUS
  <2> QED BY <2>1, <2>2
<1>4. PICK s \in Seq(Nat) : s = Scores(t) /\ Total(s) = Weighed(t, ScoreOf(S), HasScore(S))
                            /\ Len(s) = HowOften(t, HasScore(S))
  BY <1>3, ScoresWeigh
<1>5. Weighed(t, ScoreOf(S), HasScore(S)) = Weighed(rs, ScoreOf(S), D)
  BY <1>1, <1>2, ScoreOfIs, WeighedHaving
<1>6. HowOften(t, HasScore(S)) = HowOften(rs, D)
  BY <1>1, <1>2, HavingTimes
<1>7. s = <<>> <=> Len(s) = 0
  OBVIOUS
<1>8. Avg(s) = MeanOver(S, rs, C)
  BY <1>1, <1>4, <1>5, <1>6, <1>7 DEF Avg, MeanOver
<1> QED BY <1>2, <1>4, <1>8 DEF AvgScore

-----------------------------------------------------------------------------
(* Groups by style, by quantization, by family and by length of prompt.    *)
StyleIn(S) == [r \in S |-> r.style]
QuantIn(S) == [r \in S |-> r.quant]

LEMMA StyleBy ==
  ASSUME NEW S, NEW rs \in Seq(S)
  PROVE  /\ \A k : Group(rs, Style, k) = GroupBy(rs, StyleIn(S), k)
         /\ Keys(rs, Style) = KeysBy(rs, StyleIn(S))
<1>1. \A i \in DOMAIN rs : rs[i] \in S /\ StyleIn(S)[rs[i]] = rs[i].style
  BY DEF StyleIn
<1>2. ASSUME NEW k PROVE Group(rs, Style, k) = GroupBy(rs, StyleIn(S), k)
  <2>1. {i \in DOMAIN rs : rs[i].style = k} = {i \in DOMAIN rs : rs[i] \in With(StyleIn(S), k)}
    BY <1>1 DEF With, StyleIn
  <2> QED BY <2>1 DEF Group, Kept, GroupBy, Having, Style
<1>3. PICK k : k = KeyList(rs, StyleIn(S))
  OBVIOUS
<1>4. k = [i \in DOMAIN rs |-> rs[i].style]
  BY <1>1, <1>3 DEF KeyList
<1>5. {i \in DOMAIN rs : \A j \in 1..i-1 : k[j] # k[i]} = FirstOnes(k)
  BY <1>4 DEF FirstOnes
<1>6. Keys(rs, Style) = Part(k, FirstOnes(k))
  BY <1>4, <1>5 DEF Keys, Style
<1> QED BY <1>2, <1>3, <1>6 DEF KeysBy

LEMMA QuantBy ==
  ASSUME NEW S, NEW rs \in Seq(S)
  PROVE  /\ \A k : Group(rs, Quant, k) = GroupBy(rs, QuantIn(S), k)
         /\ Keys(rs, Quant) = KeysBy(rs, QuantIn(S))
<1>1. \A i \in DOMAIN rs : rs[i] \in S /\ QuantIn(S)[rs[i]] = rs[i].quant
  BY DEF QuantIn
<1>2. ASSUME NEW k PROVE Group(rs, Quant, k) = GroupBy(rs, QuantIn(S), k)
  <2>1. {i \in DOMAIN rs : rs[i].quant = k} = {i \in DOMAIN rs : rs[i] \in With(QuantIn(S), k)}
    BY <1>1 DEF With, QuantIn
  <2> QED BY <2>1 DEF Group, Kept, GroupBy, Having, Quant
<1>3. PICK k : k = KeyList(rs, QuantIn(S))
  OBVIOUS
<1>4. k = [i \in DOMAIN rs |-> rs[i].quant]
  BY <1>1, <1>3 DEF KeyList
<1>5. {i \in DOMAIN rs : \A j \in 1..i-1 : k[j] # k[i]} = FirstOnes(k)
  BY <1>4 DEF FirstOnes
<1>6. Keys(rs, Quant) = Part(k, FirstOnes(k))
  BY <1>4, <1>5 DEF Keys, Quant
<1> QED BY <1>2, <1>3, <1>6 DEF KeysBy

-----------------------------------------------------------------------------
(* What is left of a after all of it but b is taken away is b.             *)
LEMMA MinusMinus ==
  ASSUME NEW a \in Fraction, NEW b \in Fraction
  PROVE  Minus(a, Minus(a, b)) \in Fraction /\ Same(b, Minus(a, Minus(a, b)))
<1>1. PICK p \in Int, q \in Nat \ {0}, r \in Int, t \in Nat \ {0} :
        p = a.num /\ q = a.den /\ r = b.num /\ t = b.den
  BY DEF Fraction
<1>2. Minus(a, Minus(a, b)) \in Fraction
  BY MinusFraction
<1>3. Minus(a, b) = [num |-> p * t - r * q, den |-> q * t]
  BY <1>1 DEF Minus
<1>4. Minus(a, Minus(a, b)) = [num |-> p * (q * t) - (p * t - r * q) * q, den |-> q * (q * t)]
  BY <1>1, <1>3 DEF Minus
<1>5. p * (q * t) - (p * t - r * q) * q = r * (q * q)
  OBVIOUS
<1>6. r * (q * (q * t)) = (r * (q * q)) * t
  OBVIOUS
<1> QED BY <1>1, <1>2, <1>4, <1>5, <1>6 DEF Same

-----------------------------------------------------------------------------
(* Where a total is shared out with the counts, some share is as large as  *)
(* its count's.                                                            *)
LEMMA SomeShare ==
  ASSUME NEW m \in Nat, NEW t, NEW c,
         \A i \in 1..m : t[i] \in Int /\ c[i] \in Nat /\ (c[i] = 0 => t[i] = 0),
         NEW T, T = SumFunctionOnSet(t, 1..m), NEW N, N = SumFunctionOnSet(c, 1..m), N # 0
  PROVE  \E i \in 1..m : c[i] # 0 /\ T * c[i] <= t[i] * N
<1>1. PICK I : I = 1..m
  OBVIOUS
<1>2. IsFiniteSet(I) /\ \A i \in I : t[i] \in Int /\ c[i] \in Int /\ c[i] \in Nat
  <2>1. IsFiniteSet(1..m)
    BY FS_Interval
  <2> QED BY <1>1, <2>1
<1>3. T \in Int /\ N \in Int
  BY <1>1, <1>2, SumInt
<1>4. PICK d : d = [i \in I |-> (0 - N) * t[i] + T * c[i]]
  OBVIOUS
<1>5. SumFunctionOnSet(d, I) = (0 - N) * T + T * N
  <2>1. PICK a \in Int, b \in Int : a = 0 - N /\ b = T
    BY <1>3
  <2>2. \A i \in I : t[i] \in Int /\ c[i] \in Int /\ d[i] = a * t[i] + b * c[i]
    BY <1>2, <1>4, <2>1
  <2>3. IsFiniteSet(I)
    BY <1>2
  <2>4. SumFunctionOnSet(d, I) = a * SumFunctionOnSet(t, I) + b * SumFunctionOnSet(c, I)
    BY <2>2, <2>3, SumLinear
  <2> QED BY <1>1, <2>1, <2>4
<1> SUFFICES ASSUME \A i \in I : c[i] # 0 => T * c[i] > t[i] * N
             PROVE  FALSE
  <2>1. \A i \in I : T * c[i] \in Int /\ t[i] * N \in Int
    BY <1>2, <1>3
  <2>2. \A i \in I : ~(T * c[i] <= t[i] * N) => T * c[i] > t[i] * N
    BY <2>1
  <2> QED BY <1>1, <2>2
<1>6. \A i \in I : d[i] \in Nat /\ (c[i] # 0 => d[i] # 0)
  <2> SUFFICES ASSUME NEW i \in I PROVE d[i] \in Nat /\ (c[i] # 0 => d[i] # 0)
    OBVIOUS
  <2>1. PICK a \in Int : a = T * c[i]
    BY <1>2, <1>3
  <2>2. PICK b \in Int : b = t[i] * N
    BY <1>2, <1>3
  <2>3. (0 - N) * t[i] = 0 - b
    BY <1>2, <1>3, <2>2
  <2>4. d[i] = a - b
    BY <1>4, <2>1, <2>2, <2>3
  <2>5. CASE c[i] = 0
    <3>1. t[i] = 0
      BY <1>1, <2>5
    <3>2. a = 0 /\ b = 0
      BY <1>3, <2>1, <2>2, <2>5, <3>1
    <3> QED BY <2>4, <2>5, <3>2
  <2>6. CASE c[i] # 0
    <3>1. a > b
      BY <2>1, <2>2, <2>6
    <3> QED BY <2>4, <3>1
  <2> QED BY <2>5, <2>6
<1>7. SumFunctionOnSet(d, I) = 0
  BY <1>3, <1>5
<1>8. \E i \in I : c[i] # 0
  <2> SUFFICES ASSUME \A i \in I : c[i] = 0 PROVE FALSE
    OBVIOUS
  <2>1. SumFunctionOnSet(c, I) = 0
    BY <1>2, SumZero
  <2> QED BY <1>1, <2>1
<1>9. PICK x \in I : c[x] # 0
  BY <1>8
<1>10. PICK J : J = I \ {x}
  OBVIOUS
<1>11. IsFiniteSet(J) /\ \A i \in J : d[i] \in Nat
  BY <1>2, <1>6, <1>10, FS_Subset
<1>12. SumFunctionOnSet(d, J) >= 0
  <2>1. PICK z : z = [i \in J |-> 0]
    OBVIOUS
  <2>2. SumFunctionOnSet(z, J) = 0
    BY <1>11, <2>1, SumZero
  <2>3. SumFunctionOnSet(z, J) <= SumFunctionOnSet(d, J)
    <3>1. \A i \in J : z[i] \in Int /\ d[i] \in Int /\ z[i] <= d[i]
      BY <1>11, <2>1
    <3> QED BY <1>11, <3>1, SumMonotone
  <2>4. SumFunctionOnSet(d, J) \in Int
    <3>1. \A i \in J : d[i] \in Int
      BY <1>11
    <3> QED BY <1>11, <3>1, SumInt
  <2> QED BY <2>2, <2>3, <2>4
<1>13. SumFunctionOnSet(d, I) = d[x] + SumFunctionOnSet(d, J)
  <2>1. \A i \in I : d[i] \in Int
    BY <1>6
  <2> QED BY <1>2, <1>10, <2>1, SumRemove
<1>14. SumFunctionOnSet(d, J) \in Int
  <2>1. \A i \in J : d[i] \in Int
    BY <1>11
  <2> QED BY <1>11, <2>1, SumInt
<1>15. d[x] \in Nat /\ d[x] # 0
  BY <1>6, <1>9
<1> QED BY <1>7, <1>12, <1>13, <1>14, <1>15

(* Sums and counts of what there is none of.                               *)
LEMMA NoneWeigh ==
  ASSUME NEW S, NEW s \in Seq(S), NEW w, NEW C, HowOften(s, C) = 0
  PROVE  Weighed(s, w, C) = 0
<1>1. IsFiniteSet(At(s, C)) /\ Cardinality(At(s, C)) = 0
  BY PositionsHaving DEF HowOften, HowOftenAt, At
<1>2. At(s, C) = {}
  BY <1>1, FS_EmptySet
<1> QED BY <1>2, SumEmpty DEF Weighed

(* The average over all is not above that of every group.                  *)
LEMMA SomeGroupAbove ==
  ASSUME NEW S, GoodRows(S), NEW rs \in Seq(S), NEW f, DOMAIN f = S,
         NEW T, NEW ks \in Seq(T), Distinct(ks), NEW C,
         \A r \in ToSet(rs) : r \in C => f[r] \in ToSet(ks),
         HowOften(rs, C \cap HasScore(S)) # 0
  PROVE  \E k \in ToSet(ks) : /\ HowOften(rs, (C \cap With(f, k)) \cap HasScore(S)) # 0
                              /\ Le(MeanOver(S, rs, C), MeanOver(S, rs, C \cap With(f, k)))
<1>1. PICK D : D = C \cap HasScore(S)
  OBVIOUS
<1>2. PICK w \in [S -> Int] : w = ScoreOf(S)
  BY ScoreOfIs
<1>3. PICK m \in Nat : m = Len(ks) /\ DOMAIN ks = 1..m
  OBVIOUS
<1>4. PICK t : t = WeighsBy(rs, f, ks, w, D)
  OBVIOUS
<1>5. PICK c : c = CountsBy(rs, f, ks, D)
  OBVIOUS
<1>6. ASSUME NEW i \in 1..m
      PROVE  /\ t[i] = Weighed(rs, w, With(f, ks[i]) \cap D) /\ t[i] \in Int
             /\ c[i] = HowOften(rs, With(f, ks[i]) \cap D) /\ c[i] \in Nat
             /\ c[i] = 0 => t[i] = 0
  <2>1. PICK E : E = With(f, ks[i]) \cap D
    OBVIOUS
  <2>2. t[i] = Weighed(rs, w, E) /\ t[i] \in Int
    <3>1. Weighed(GroupBy(rs, f, ks[i]), w, D) = Weighed(rs, w, With(f, ks[i]) \cap D)
      BY WeighedHaving DEF GroupBy
    <3>2. Weighed(rs, w, E) \in Int
      BY WeightsAre
    <3> QED BY <1>3, <1>4, <2>1, <3>1, <3>2 DEF WeighsBy
  <2>3. c[i] = HowOften(rs, E) /\ c[i] \in Nat
    <3>1. HowOften(GroupBy(rs, f, ks[i]), D) = HowOften(rs, With(f, ks[i]) \cap D)
      BY HavingTimes DEF GroupBy
    <3>2. HowOften(rs, E) \in Nat
      BY TimesIsNat
    <3> QED BY <1>3, <1>5, <2>1, <3>1, <3>2 DEF CountsBy
  <2>4. c[i] = 0 => t[i] = 0
    BY <2>2, <2>3, NoneWeigh
  <2> QED BY <2>1, <2>2, <2>3, <2>4
<1>7. \A r \in ToSet(rs) : r \in D => f[r] \in ToSet(ks)
  BY <1>1
<1>8. SumFunctionOnSet(t, 1..m) = Weighed(rs, w, D)
  BY <1>3, <1>4, <1>7, GroupsWeigh
<1>9. SumFunctionOnSet(c, 1..m) = HowOften(rs, D)
  BY <1>3, <1>5, <1>7, GroupsCount
<1>10. PICK T1 \in Int : T1 = Weighed(rs, w, D)
  BY WeightsAre
<1>11. PICK N1 \in Nat : N1 = HowOften(rs, D) /\ N1 # 0
  BY <1>1, TimesIsNat
<1>12. PICK i \in 1..m : c[i] # 0 /\ T1 * c[i] <= t[i] * N1
  <2>1. \A i \in 1..m : t[i] \in Int /\ c[i] \in Nat /\ (c[i] = 0 => t[i] = 0)
    BY <1>6
  <2>2. T1 = SumFunctionOnSet(t, 1..m) /\ N1 = SumFunctionOnSet(c, 1..m)
    BY <1>8, <1>9, <1>10, <1>11
  <2> QED BY <1>11, <2>1, <2>2, SomeShare
<1>13. PICK k : k = ks[i]
  OBVIOUS
<1>14. k \in ToSet(ks)
  BY <1>3, <1>13 DEF ToSet
<1>15. With(f, k) \cap D = (C \cap With(f, k)) \cap HasScore(S)
  BY <1>1
<1>16. PICK E : E = (C \cap With(f, k)) \cap HasScore(S)
  OBVIOUS
<1>17. t[i] = Weighed(rs, w, E) /\ c[i] = HowOften(rs, E) /\ t[i] \in Int /\ c[i] \in Nat
  BY <1>6, <1>13, <1>15, <1>16
<1>18. MeanOver(S, rs, C) = [num |-> T1, den |-> N1]
  BY <1>1, <1>2, <1>10, <1>11 DEF MeanOver
<1>19. MeanOver(S, rs, C \cap With(f, k)) = [num |-> t[i], den |-> c[i]]
  BY <1>2, <1>12, <1>16, <1>17 DEF MeanOver
<1>20. Le(MeanOver(S, rs, C), MeanOver(S, rs, C \cap With(f, k)))
  BY <1>12, <1>18, <1>19 DEF Le
<1> QED BY <1>12, <1>14, <1>16, <1>17, <1>20

-----------------------------------------------------------------------------
(* What is counted as scored, and what is kept of it.                      *)
LEMMA NotScored ==
  ASSUME NEW S, NEW rs \in Seq(S), NEW C
  PROVE  HowOften(rs, C \cap HasScore(S)) # 0 <=> Scored(Having(rs, C)) # <<>>
<1>1. PICK t : t = Having(rs, C)
  OBVIOUS
<1>2. t \in Seq(S)
  <2>1. t \in Seq(S \cap C)
    BY <1>1, HavingIsList
  <2>2. \A q : q \in Seq(S \cap C) => q \in Seq(S)
    OBVIOUS
  <2> QED BY <2>1, <2>2
<1>3. HowOften(t, HasScore(S)) = HowOften(rs, C \cap HasScore(S))
  BY <1>1, HavingTimes
<1>4. PICK s \in Seq(HasScore(S)) : s = Scored(t) /\ s = Having(t, HasScore(S))
  BY <1>2, ScoredAre
<1>5. Len(s) = HowOften(t, HasScore(S))
  BY <1>2, <1>4, HavingIsList
<1>6. Len(s) # 0 <=> s # <<>>
  OBVIOUS
<1> QED BY <1>1, <1>3, <1>4, <1>5, <1>6

LEMMA SomeScored ==
  ASSUME NEW S, NEW rs \in Seq(S), NEW C, HowOften(rs, C \cap HasScore(S)) # 0
  PROVE  \E r \in S : r \in C /\ r.score # None /\ r \in ToSet(rs)
<1>1. ~ \A i \in DOMAIN rs : rs[i] \notin C \cap HasScore(S)
  BY TimesNone
<1>2. PICK i \in DOMAIN rs : rs[i] \in C \cap HasScore(S)
  BY <1>1
<1>3. rs[i] \in S /\ rs[i] \in ToSet(rs)
  BY DEF ToSet
<1> QED BY <1>2, <1>3 DEF HasScore

-----------------------------------------------------------------------------
(* The rows that have a name, and their groups.                            *)
Named(S, g) == {r \in S : g[r] # None}

LEMMA NamedGroups ==
  ASSUME NEW S, NEW rs \in Seq(S), NEW g, DOMAIN g = S, NEW t, t = Having(rs, Named(S, g))
  PROVE  /\ t \in Seq(S) /\ ToSet(t) = {r \in ToSet(rs) : g[r] # None}
         /\ KeysMet(t, g) = KeysMet(rs, g) \ {None}
         /\ \A k : k # None => GroupBy(t, g, k) = GroupBy(rs, g, k)
<1>1. t \in Seq(S) /\ ToSet(t) = ToSet(rs) \cap Named(S, g)
  <2>1. t \in Seq(S \cap Named(S, g)) /\ ToSet(t) = ToSet(rs) \cap Named(S, g)
    BY HavingIsList, HavingMembers
  <2>2. \A q : q \in Seq(S \cap Named(S, g)) => q \in Seq(S)
    OBVIOUS
  <2> QED BY <2>1, <2>2
<1>2. \A r \in ToSet(rs) : r \in S
  BY DEF ToSet
<1>3. ToSet(t) = {r \in ToSet(rs) : g[r] # None}
  BY <1>1, <1>2 DEF Named
<1>4. KeysMet(t, g) = KeysMet(rs, g) \ {None}
  BY <1>3 DEF KeysMet
<1>5. ASSUME NEW k, k # None PROVE GroupBy(t, g, k) = GroupBy(rs, g, k)
  <2>1. Named(S, g) \cap With(g, k) = With(g, k)
    BY <1>5 DEF Named, With
  <2>2. Having(Having(rs, Named(S, g)), With(g, k)) = Having(rs, Named(S, g) \cap With(g, k))
    BY HavingTwice
  <2> QED BY <2>1, <2>2 DEF GroupBy
<1> QED BY <1>1, <1>3, <1>4, <1>5

LEMMA StyleKeys ==
  ASSUME NEW S, NEW rs \in Seq(S)
  PROVE  /\ Keys(rs, Style) \in Seq({r.style : r \in S}) /\ Distinct(Keys(rs, Style))
         /\ ToSet(Keys(rs, Style)) = KeysMet(rs, StyleIn(S))
<1>1. PICK T : T = {r.style : r \in S}
  OBVIOUS
<1>2. StyleIn(S) \in [S -> T]
  BY <1>1 DEF StyleIn
<1>3. Keys(rs, Style) = KeysBy(rs, StyleIn(S))
  BY StyleBy
<1>4. PICK g : g = StyleIn(S)
  OBVIOUS
<1>5. KeysBy(rs, g) \in Seq(T) /\ Distinct(KeysBy(rs, g)) /\ ToSet(KeysBy(rs, g)) = KeysMet(rs, g)
  BY <1>2, <1>4, KeysByIs, ZenonT(40)
<1> QED BY <1>1, <1>3, <1>4, <1>5

LEMMA QuantKeys ==
  ASSUME NEW S, NEW rs \in Seq(S)
  PROVE  /\ Keys(rs, Quant) \in Seq({r.quant : r \in S}) /\ Distinct(Keys(rs, Quant))
         /\ ToSet(Keys(rs, Quant)) = KeysMet(rs, QuantIn(S))
<1>1. PICK T : T = {r.quant : r \in S}
  OBVIOUS
<1>2. QuantIn(S) \in [S -> T]
  BY <1>1 DEF QuantIn
<1>3. Keys(rs, Quant) = KeysBy(rs, QuantIn(S))
  BY QuantBy
<1>4. PICK g : g = QuantIn(S)
  OBVIOUS
<1>5. KeysBy(rs, g) \in Seq(T) /\ Distinct(KeysBy(rs, g)) /\ ToSet(KeysBy(rs, g)) = KeysMet(rs, g)
  BY <1>2, <1>4, KeysByIs, ZenonT(40)
<1> QED BY <1>1, <1>3, <1>4, <1>5

-----------------------------------------------------------------------------
(* More score for no more tokens is more score per token.                  *)
LEMMA MaxOfTwo ==
  ASSUME NEW a \in Nat, NEW b \in Nat
  PROVE  Max({a, b}) \in {a, b} /\ a <= Max({a, b}) /\ b <= Max({a, b})
<1>1. \E x \in {a, b} : \A y \in {a, b} : x >= y
  OBVIOUS
<1>2. Max({a, b}) \in {a, b} /\ \A y \in {a, b} : Max({a, b}) >= y
  BY <1>1 DEF Max
<1> QED BY <1>2

LEMMA ProductGrows ==
  ASSUME NEW a \in Nat, NEW b \in Nat, NEW c \in Nat
  PROVE  (a <= b => a * c <= b * c) /\ (a < b /\ c # 0 => a * c < b * c)
<1>1. ASSUME a <= b PROVE a * c <= b * c
  <2>1. PICK e \in Nat : b = a + e
    <3>1. b - a \in Nat /\ b = a + (b - a)
      BY <1>1
    <3> QED BY <3>1
  <2>2. b * c = a * c + e * c /\ e * c \in Nat /\ a * c \in Nat
    BY <2>1
  <2> QED BY <2>2
<1>2. ASSUME a < b, c # 0 PROVE a * c < b * c
  <2>1. PICK e \in Nat : b = a + e /\ e # 0
    <3>1. b - a \in Nat /\ b = a + (b - a) /\ b - a # 0
      BY <1>2
    <3> QED BY <3>1
  <2>2. b * c = a * c + e * c /\ e * c \in Nat /\ a * c \in Nat
    BY <2>1
  <2>3. e * c # 0
    BY <1>2, <2>1
  <2> QED BY <2>2, <2>3
<1> QED BY <1>1, <1>2

Better(p, d, q, f) == p * f < q * d

LEMMA RatioFalls ==
  ASSUME NEW p \in Nat, NEW d \in Nat \ {0}, NEW k \in Nat, NEW n \in Nat \ {0}, NEW m \in Nat,
         k <= m, n <= m,
         NEW q \in Nat, NEW f \in Nat \ {0}, NEW j \in Nat, NEW h \in Nat \ {0}, NEW o \in Nat,
         o \in {j, h}, h <= o,
         Better(p, d, q, f), ~Better(p * n, d * m, q * h, f * o)
  PROVE  Better(k, n, j, h)
<1>0. p * f < q * d /\ (q * h) * (d * m) <= (p * n) * (f * o)
  <2>1. (q * h) * (d * m) \in Nat /\ (p * n) * (f * o) \in Nat
    OBVIOUS
  <2>2. ~((p * n) * (f * o) < (q * h) * (d * m))
    BY Zenon DEF Better
  <2> QED BY <2>1, <2>2 DEF Better
<1> SUFFICES ASSUME j * n <= k * h PROVE FALSE
  <2>1. k * h \in Nat /\ j * n \in Nat
    OBVIOUS
  <2> QED BY <2>1 DEF Better
<1>1. PICK x \in Nat : x = o * n
  OBVIOUS
<1>2. PICK y \in Nat : y = m * h
  OBVIOUS
<1>3. x <= y /\ x # 0
  <2>1. k * h <= y /\ n * h <= y
    BY <1>2, ProductGrows
  <2>2. CASE o = j
    BY <1>1, <1>2, <2>1, <2>2
  <2>3. CASE o = h
    BY <1>1, <1>2, <2>1, <2>3
  <2>4. x # 0
    BY <1>1
  <2> QED BY <2>2, <2>3, <2>4
<1>4. PICK a \in Nat : a = p * f
  OBVIOUS
<1>5. PICK b \in Nat : b = q * d
  OBVIOUS
<1>6. (q * h) * (d * m) = b * y
  BY <1>2, <1>5
<1>7. (p * n) * (f * o) = a * x
  BY <1>1, <1>4
<1>8. b * y <= a * x
  BY <1>0, <1>6, <1>7
<1>9. a * x < b * x
  BY <1>0, <1>3, <1>4, <1>5, ProductGrows
<1>10. b * x <= b * y
  BY <1>3, ProductGrows
<1> QED BY <1>8, <1>9, <1>10

LEMMA TotalIs ==
  ASSUME NEW s \in Seq(Nat) PROVE Total(s) \in Nat
<1>1. Average(Avg(s))
  BY AvgIs
<1>2. CASE s = <<>>
  <2>1. DOMAIN s = {}
    BY <1>2
  <2> QED BY <2>1, SumEmpty DEF Total, SumFunction
<1>3. CASE s # <<>>
  <2>1. Avg(s) = [num |-> Total(s), den |-> Len(s)]
    BY <1>3 DEF Avg
  <2>2. Total(s) \in Int /\ 0 * Len(s) <= Total(s) * 1
    BY <1>1, <2>1 DEF Average, Fraction, Le, Zero
  <2> QED BY <2>2
<1> QED BY <1>2, <1>3

LEMMA ScoredIsSome ==
  ASSUME NEW S, NEW rs \in Seq(S), Scored(rs) # <<>> PROVE rs # <<>>
<1> SUFFICES ASSUME rs = <<>> PROVE FALSE
  OBVIOUS
<1>1. \A i \in DOMAIN rs : rs[i] \notin HasScore(S)
  OBVIOUS
<1>2. Having(rs, HasScore(S)) = <<>>
  BY <1>1, HavingNone
<1> QED BY <1>2, ScoredAre

-----------------------------------------------------------------------------
(* The comparison of models, a line for each in the order of its score.    *)
Line(rs, m) ==
  [model |-> m, score |-> AvgScore(Group(rs, Model, m)),
   tps |-> AvgSpeed(Group(rs, Model, m)), tasks |-> Len(Group(rs, Model, m))]
LinesOf(rs, ms) == [i \in DOMAIN ms |-> Line(rs, ms[i])]
ScoresAt(es) == [i \in DOMAIN es |-> es[i].score]
Lines(S) == [model : {r.model : r \in S}, score : Fraction, tps : Fraction, tasks : Nat]

LEMMA LinesAre ==
  ASSUME NEW S, GoodRows(S), NEW rs \in Seq(S), NEW ms, ms = Keys(rs, Model)
  PROVE  /\ LinesOf(rs, ms) \in Seq(Lines(S)) /\ Len(LinesOf(rs, ms)) = Len(ms)
         /\ \A i \in DOMAIN ms : LinesOf(rs, ms)[i] = Line(rs, ms[i])
         /\ ScoresAt(LinesOf(rs, ms)) \in [DOMAIN ms -> Fraction]
<1>1. PICK M : M = {r.model : r \in S}
  OBVIOUS
<1>2. ms \in Seq(M)
  BY <1>1, ModelKeys
<1>3. ASSUME NEW i \in DOMAIN ms PROVE Line(rs, ms[i]) \in Lines(S)
  <2>1. PICK g \in Seq(S) : g = Group(rs, Model, ms[i])
    BY ModelGroups
  <2>2. AvgScore(g) \in Fraction /\ AvgSpeed(g) \in Fraction
    BY AvgScoreIs, AvgSpeedIs DEF Average
  <2>3. Len(g) \in Nat /\ ms[i] \in M
    BY <1>2
  <2>4. [model |-> ms[i], score |-> AvgScore(g), tps |-> AvgSpeed(g), tasks |-> Len(g)]
          \in [model : M, score : Fraction, tps : Fraction, tasks : Nat]
    BY <2>2, <2>3
  <2> QED BY <1>1, <2>1, <2>4 DEF Line, Lines
<1>4. PICK es : es = LinesOf(rs, ms)
  OBVIOUS
<1>5. PICK n \in Nat : n = Len(ms) /\ DOMAIN ms = 1..n
  BY <1>2
<1>6. DOMAIN es = 1..n /\ \A i \in 1..n : es[i] = Line(rs, ms[i]) /\ es[i] \in Lines(S)
  BY <1>3, <1>4, <1>5 DEF LinesOf
<1>7. es = [i \in 1..n |-> es[i]]
  BY <1>4, <1>5 DEF LinesOf
<1>8. es \in Seq(Lines(S)) /\ Len(es) = n
  BY <1>6, <1>7
<1>9. \A i \in 1..n : es[i].score \in Fraction
  <2>1. ASSUME NEW i \in 1..n PROVE es[i].score \in Fraction
    <3>1. es[i] \in [model : M, score : Fraction, tps : Fraction, tasks : Nat]
      BY <1>1, <1>6 DEF Lines
    <3> QED BY <3>1
  <2> QED BY <2>1
<1>10. ScoresAt(es) \in [1..n -> Fraction]
  BY <1>6, <1>9 DEF ScoresAt
<1> QED BY <1>4, <1>5, <1>6, <1>8, <1>10

-----------------------------------------------------------------------------
(* The summary's best model is the first line of the table: both are the   *)
(* first met of the greatest average.                                      *)
MeanOfModel(rs, m) == AvgScore(Group(rs, Model, m))

LEMMA ModelMeans ==
  ASSUME NEW S, GoodRows(S), NEW rs \in Seq(S), NEW m
  PROVE  Average(MeanOfModel(rs, m)) /\ MeanOfModel(rs, m) \in Fraction
<1>1. Group(rs, Model, m) \in Seq(S)
  BY ModelGroups
<1> QED BY <1>1, AvgScoreIs DEF MeanOfModel, Average

LEMMA NotScoredIsZero ==
  ASSUME NEW S, NEW rs \in Seq(S), Scored(rs) = <<>> PROVE AvgScore(rs) = Zero
<1>1. Scores(rs) = <<>>
  BY DEF Scores
<1> QED BY <1>1 DEF AvgScore, Avg

-----------------------------------------------------------------------------
(* A table counts what its lines count: in whatever order they are, and    *)
(* whether they are a list or a set of records.                            *)
LEMMA TimesAll ==
  ASSUME NEW S, NEW s \in Seq(S) PROVE HowOften(s, S) = Len(s)
<1>1. \A i \in DOMAIN s : s[i] \in S
  OBVIOUS
<1>2. {i \in DOMAIN s : s[i] \in S} = DOMAIN s
  BY <1>1
<1> QED BY <1>2, Positions DEF HowOften, HowOftenAt

Places(spot, n, table) ==
  /\ \A i \in 1..n : spot[i] \in table
  /\ \A x \in table : \E i \in 1..n : spot[i] = x
  /\ \A i, j \in 1..n : spot[i] = spot[j] => i = j
Carries(u, v, spot, n) == \A i \in 1..n : v[spot[i]] \in Int /\ u[i] = v[spot[i]]

LEMMA PlacedSum ==
  ASSUME NEW n \in Nat, NEW spot, NEW table, Places(spot, n, table),
         NEW u, NEW v, Carries(u, v, spot, n)
  PROVE  SumFunctionOnSet(u, 1..n) = SumFunctionOnSet(v, table)
<1>1. IsFiniteSet(1..n)
  BY FS_Interval
<1>2. PICK J : J = 1..n
  OBVIOUS
<1>3. PICK K : K = {spot[i] : i \in J}
  OBVIOUS
<1>4. SumFunctionOnSet(u, J) = SumFunctionOnSet(v, K)
  <2>1. /\ IsFiniteSet(J) /\ \A i \in J : v[spot[i]] \in Int
        /\ \A i, j \in J : spot[i] = spot[j] => i = j
        /\ \A i \in J : u[i] = v[spot[i]]
    BY <1>1, <1>2 DEF Places, Carries
  <2>2. SumFunctionOnSet(u, J) = SumFunctionOnSet(v, {spot[i] : i \in J})
    BY <2>1, SumReindex
  <2> QED BY <1>3, <2>2
<1>5. K \subseteq table /\ table \subseteq K
  BY <1>2, <1>3 DEF Places
<1> QED BY <1>2, <1>4, <1>5

LEMMA ArrangedSum ==
  ASSUME NEW X, NEW s \in Seq(X), NEW n \in Nat, n = Len(s), NEW at, NEW t, NEW R, Arranges(at, t, s, R),
         NEW u, NEW v, Carries(u, v, at, n)
  PROVE  SumFunctionOnSet(u, 1..n) = SumFunctionOnSet(v, 1..n)
<1>1. DOMAIN s = 1..n
  OBVIOUS
<1>2. Places(at, n, 1..n)
  BY <1>1 DEF Arranges, Places
<1> QED BY <1>2, PlacedSum

TasksIn(table) == SumFunction([e \in table |-> e.tasks])

LEMMA TableCounts ==
  ASSUME NEW S, NEW rs \in Seq(S), NEW f, DOMAIN f = S,
         NEW T, NEW ks \in Seq(T), Distinct(ks), NEW C,
         \A r \in ToSet(rs) : r \in C => f[r] \in ToSet(ks),
         NEW e, \A k, l \in ToSet(ks) : e[k] = e[l] => k = l,
         \A k \in ToSet(ks) : e[k].tasks = HowOften(GroupBy(rs, f, k), C),
         NEW table, table = {e[k] : k \in ToSet(ks)}
  PROVE  TasksIn(table) = HowOften(rs, C)
<1>1. PICK n \in Nat : n = Len(ks) /\ DOMAIN ks = 1..n
  OBVIOUS
<1>2. \A i \in 1..n : ks[i] \in ToSet(ks)
  BY <1>1 DEF ToSet
<1>3. PICK spot : spot = [i \in 1..n |-> e[ks[i]]]
  OBVIOUS
<1>4. \A i, j \in 1..n : spot[i] = spot[j] => i = j
  BY <1>1, <1>2, <1>3 DEF Distinct
<1>5. {spot[i] : i \in 1..n} = table
  <2>1. ToSet(ks) = {ks[i] : i \in 1..n}
    BY <1>1 DEF ToSet
  <2> QED BY <1>3, <2>1
<1>6. PICK h : h = [x \in table |-> x.tasks]
  OBVIOUS
<1>7. PICK u : u = CountsBy(rs, f, ks, C)
  OBVIOUS
<1>8. ASSUME NEW i \in 1..n PROVE u[i] = h[spot[i]] /\ h[spot[i]] \in Int
  <2>1. spot[i] = e[ks[i]] /\ spot[i] \in table
    BY <1>3, <1>5
  <2>2. h[spot[i]] = HowOften(GroupBy(rs, f, ks[i]), C)
    BY <1>2, <1>6, <2>1
  <2>3. GroupBy(rs, f, ks[i]) \in Seq(S)
    BY GroupByIs
  <2>4. HowOften(GroupBy(rs, f, ks[i]), C) \in Nat
    BY <2>3, TimesIsNat
  <2>5. u[i] = HowOften(GroupBy(rs, f, ks[i]), C)
    BY <1>1, <1>7 DEF CountsBy
  <2> QED BY <2>2, <2>4, <2>5
<1>9. SumFunctionOnSet(u, 1..n) = SumFunctionOnSet(h, table)
  <2>1. Carries(u, h, spot, n)
    BY <1>8 DEF Carries
  <2>2. Places(spot, n, table)
    BY <1>4, <1>5 DEF Places
  <2> QED BY <2>1, <2>2, PlacedSum
<1>10. SumFunctionOnSet(u, 1..n) = HowOften(rs, C)
  BY <1>1, <1>7, GroupsCount
<1>11. TasksIn(table) = SumFunctionOnSet(h, table)
  BY <1>6 DEF TasksIn, SumFunction
<1> QED BY <1>9, <1>10, <1>11

(* Every row is of the group of one key.                                   *)
LEMMA KeyedCounts ==
  ASSUME NEW S, NEW rs \in Seq(S), NEW f, DOMAIN f = S, NEW T, NEW ks \in Seq(T), Distinct(ks),
         ToSet(ks) = KeysMet(rs, f),
         NEW e, \A k, l \in ToSet(ks) : e[k] = e[l] => k = l,
         \A k \in ToSet(ks) : e[k].tasks = Len(GroupBy(rs, f, k)),
         NEW table, table = {e[k] : k \in ToSet(ks)}
  PROVE  TasksIn(table) = Len(rs)
<1>1. \A k \in ToSet(ks) : e[k].tasks = HowOften(GroupBy(rs, f, k), S)
  <2>1. ASSUME NEW k \in ToSet(ks) PROVE e[k].tasks = HowOften(GroupBy(rs, f, k), S)
    <3>1. GroupBy(rs, f, k) \in Seq(S)
      BY GroupByIs
    <3> QED BY <3>1, TimesAll
  <2> QED BY <2>1
<1>2. \A r \in ToSet(rs) : r \in S => f[r] \in ToSet(ks)
  BY DEF KeysMet
<1>3. TasksIn(table) = HowOften(rs, S)
  BY <1>1, <1>2, TableCounts
<1> QED BY <1>3, TimesAll

-----------------------------------------------------------------------------
(* A search that starts below every value finds the greatest.              *)
IsGreatest(c, ks, value) ==
  /\ c.who \in ToSet(ks) /\ c.value = value[c.who] /\ c.value \in Fraction
  /\ \A k \in ToSet(ks) : Le(value[k], c.value)

LEMMA ChampionIsGreatest ==
  ASSUME NEW T, NEW ks \in Seq(T), ks # <<>>, NEW value, NEW start \in Fraction,
         \A k \in ToSet(ks) : value[k] \in Fraction /\ Lt(start, value[k]),
         NEW c, c = Champion(ks, value, start)
  PROVE  IsGreatest(c, ks, value)
<1>1. PICK n \in Nat : n = Len(ks) /\ DOMAIN ks = 1..n /\ n # 0
  OBVIOUS
<1>2. \A i \in 1..n : ks[i] \in ToSet(ks)
  BY <1>1 DEF ToSet
<1>3. Leads(c, ks, value, start, n)
  BY <1>1, ChampionLeads
<1>4. PICK j \in 1..n : HasWonAt(c, ks, value, start, j)
  <2>1. c # [who |-> None, value |-> start]
    <3>1. SUFFICES ASSUME c = [who |-> None, value |-> start] PROVE FALSE
      OBVIOUS
    <3>2. 1 \in 1..n
      BY <1>1
    <3>3. Le(value[ks[1]], start)
      BY <1>3, <3>1, <3>2 DEF Leads
    <3>4. value[ks[1]] \in Fraction /\ Lt(start, value[ks[1]])
      BY <1>2, <3>2
    <3> QED BY <3>3, <3>4, LeTotal
  <2> QED BY <1>3, <2>1 DEF Leads
<1>5. c.who = ks[j] /\ c.value = value[ks[j]]
  BY <1>4 DEF HasWonAt
<1>6. \A k \in ToSet(ks) : \E i \in 1..n : k = ks[i]
  BY <1>1 DEF ToSet
<1>7. \A k \in ToSet(ks) : Le(value[k], c.value)
  BY <1>3, <1>6 DEF Leads
<1> QED BY <1>2, <1>5, <1>7 DEF IsGreatest

(* Averages of scores below 100 stay below it, so a loss does too.         *)
LowScores(S) == \A r \in S : r.score # None => r.score < 100

LEMMA AvgIsLow ==
  ASSUME NEW S, GoodRows(S), LowScores(S), NEW rs \in Seq(S)
  PROVE  Le(AvgScore(rs), Whole(99))
<1>1. PICK s \in Seq(Nat) : s = Scores(rs)
  BY ScoresWeigh
<1>2. PICK n \in Nat : n = Len(s) /\ DOMAIN s = 1..n
  OBVIOUS
<1>3. \A i \in 1..n : s[i] \in Int /\ s[i] <= 99
  <2>1. PICK t \in Seq(HasScore(S)) : t = Scored(rs)
    BY ScoredAre
  <2>2. s = [i \in DOMAIN t |-> t[i].score]
    BY <1>1, <2>1 DEF Scores
  <2>3. \A r \in HasScore(S) : r.score \in Nat /\ r.score < 100
    BY DEF HasScore, GoodRows, LowScores
  <2>4. \A i \in DOMAIN t : t[i] \in HasScore(S)
    BY <2>1
  <2>5. \A i \in DOMAIN t : s[i] \in Nat /\ s[i] < 100
    BY <2>2, <2>3, <2>4
  <2>6. DOMAIN t = 1..n
    BY <1>2, <2>2
  <2> QED BY <2>5, <2>6, SMTT(30)
<1>4. CASE n = 0
  <2>1. AvgScore(rs) = Zero
    BY <1>1, <1>2, <1>4 DEF AvgScore, Avg
  <2> QED BY <2>1 DEF Zero, Le, Whole
<1>5. CASE n # 0
  <2>1. SumFunctionOnSet(s, 1..n) <= n * 99
    BY <1>3, SumBound
  <2>2. PICK k \in Int : k = Total(s)
    BY <1>1, TotalIs
  <2>3. k <= n * 99
    BY <1>2, <2>1, <2>2 DEF Total, SumFunction
  <2>4. AvgScore(rs) = [num |-> k, den |-> n]
    BY <1>1, <1>2, <1>5, <2>2 DEF AvgScore, Avg
  <2> QED BY <2>3, <2>4 DEF Le, Whole
<1> QED BY <1>4, <1>5

(* The loss of b against a, as the summary and as the tables compute it.   *)
LEMMA LossIs ==
  ASSUME NEW a \in Fraction, NEW b \in Fraction
  PROVE  /\ Minus(Zero, Minus(a, b)) = Minus(b, a) /\ Minus(b, a) \in Fraction
         /\ Le(b, a) => Le(Minus(b, a), Zero)
         /\ Le(a, Whole(99)) /\ Le(Zero, b) => Lt(Whole(-100), Minus(b, a))
<1>1. PICK p \in Int, q \in Nat \ {0}, r \in Int, t \in Nat \ {0} :
        a = [num |-> p, den |-> q] /\ b = [num |-> r, den |-> t]
  BY DEF Fraction
<1>2. Minus(b, a) = [num |-> r * q - p * t, den |-> t * q] /\ Minus(b, a) \in Fraction
  BY <1>1, MinusFraction DEF Minus
<1>3. Minus(a, b) = [num |-> p * t - r * q, den |-> q * t]
  BY <1>1 DEF Minus
<1>4. PICK x \in Int, y \in Int, d \in Int : x = p * t /\ y = r * q /\ d = q * t /\ d = t * q
  BY <1>1
<1>5. Minus(Zero, Minus(a, b)) = Minus(b, a)
  <2>1. Minus(Zero, [num |-> x - y, den |-> d]) = [num |-> 0 * d - (x - y) * 1, den |-> 1 * d]
    BY DEF Minus, Zero
  <2>2. 0 * d - (x - y) * 1 = y - x /\ 1 * d = d
    OBVIOUS
  <2>3. Minus(a, b) = [num |-> x - y, den |-> d] /\ Minus(b, a) = [num |-> y - x, den |-> d]
    BY <1>2, <1>3, <1>4
  <2> QED BY <2>1, <2>2, <2>3
<1>6. Le(b, a) => Le(Minus(b, a), Zero)
  BY <1>1, <1>2 DEF Le, Zero
<1>7. ASSUME Le(a, Whole(99)), Le(Zero, b) PROVE Lt(Whole(-100), Minus(b, a))
  <2>1. p <= 99 * q /\ 0 <= r
    BY <1>1, <1>7 DEF Le, Whole, Zero
  <2>2. p * t <= (99 * q) * t
    BY <2>1
  <2>3. 0 <= r * q
    BY <2>1
  <2>4. (99 * q) * t = 99 * d /\ 0 < d
    BY <1>4
  <2>5. (-100) * d < y - x
    BY <1>4, <2>2, <2>3, <2>4
  <2>6. Minus(b, a) = [num |-> y - x, den |-> d]
    BY <1>2, <1>4
  <2> QED BY <2>5, <2>6 DEF Lt, Whole
<1> QED BY <1>2, <1>5, <1>6, <1>7

LEMMA MinusSame ==
  ASSUME NEW a \in Fraction, NEW b \in Fraction, NEW c \in Fraction, Same(a, b)
  PROVE  Same(Minus(c, a), Minus(c, b))
<1>1. PICK p \in Int, q \in Nat \ {0}, r \in Int, t \in Nat \ {0}, x \in Int, y \in Nat \ {0} :
        a = [num |-> p, den |-> q] /\ b = [num |-> r, den |-> t] /\ c = [num |-> x, den |-> y]
  BY DEF Fraction
<1>2. p * t = r * q
  BY <1>1 DEF Same
<1>3. Minus(c, a) = [num |-> x * q - p * y, den |-> y * q]
  BY <1>1 DEF Minus
<1>4. Minus(c, b) = [num |-> x * t - r * y, den |-> y * t]
  BY <1>1 DEF Minus
<1>5. (x * q - p * y) * (y * t) = (x * q) * (y * t) - (p * t) * (y * y)
  OBVIOUS
<1>6. (x * t - r * y) * (y * q) = (x * q) * (y * t) - (r * q) * (y * y)
  OBVIOUS
<1>7. (x * q - p * y) * (y * t) = (x * t - r * y) * (y * q)
  BY <1>2, <1>5, <1>6
<1> QED BY <1>3, <1>4, <1>7 DEF Same

-----------------------------------------------------------------------------
(* What rows weigh and how many they are, group by group.                  *)
ArePartsOf(t, c, rs, f, ks, w, D) ==
  /\ \A i \in 1..Len(ks) :
       /\ t[i] = Weighed(rs, w, With(f, ks[i]) \cap D) /\ t[i] \in Int
       /\ c[i] = HowOften(rs, With(f, ks[i]) \cap D) /\ c[i] \in Nat
       /\ c[i] = 0 => t[i] = 0
  /\ SumFunctionOnSet(t, 1..Len(ks)) = Weighed(rs, w, D)
  /\ SumFunctionOnSet(c, 1..Len(ks)) = HowOften(rs, D)

LEMMA PartsAre ==
  ASSUME NEW S, NEW rs \in Seq(S), NEW f, DOMAIN f = S, NEW w \in [S -> Int],
         NEW T, NEW ks \in Seq(T), Distinct(ks), ToSet(ks) = KeysMet(rs, f), NEW D,
         NEW t, t = WeighsBy(rs, f, ks, w, D), NEW c, c = CountsBy(rs, f, ks, D)
  PROVE  ArePartsOf(t, c, rs, f, ks, w, D)
<1>1. PICK m \in Nat : m = Len(ks) /\ DOMAIN ks = 1..m
  OBVIOUS
<1>2. ASSUME NEW i \in 1..m
      PROVE  /\ t[i] = Weighed(rs, w, With(f, ks[i]) \cap D) /\ t[i] \in Int
             /\ c[i] = HowOften(rs, With(f, ks[i]) \cap D) /\ c[i] \in Nat
             /\ c[i] = 0 => t[i] = 0
  <2>1. PICK E : E = With(f, ks[i]) \cap D
    OBVIOUS
  <2>2. t[i] = Weighed(rs, w, E) /\ t[i] \in Int
    <3>1. Weighed(GroupBy(rs, f, ks[i]), w, D) = Weighed(rs, w, With(f, ks[i]) \cap D)
      BY WeighedHaving DEF GroupBy
    <3>2. Weighed(rs, w, E) \in Int
      BY WeightsAre
    <3> QED BY <1>1, <2>1, <3>1, <3>2 DEF WeighsBy
  <2>3. c[i] = HowOften(rs, E) /\ c[i] \in Nat
    <3>1. HowOften(GroupBy(rs, f, ks[i]), D) = HowOften(rs, With(f, ks[i]) \cap D)
      BY HavingTimes DEF GroupBy
    <3>2. HowOften(rs, E) \in Nat
      BY TimesIsNat
    <3> QED BY <1>1, <2>1, <3>1, <3>2 DEF CountsBy
  <2>4. c[i] = 0 => t[i] = 0
    BY <2>2, <2>3, NoneWeigh
  <2> QED BY <2>1, <2>2, <2>3, <2>4
<1>3. \A r \in ToSet(rs) : r \in D => f[r] \in ToSet(ks)
  BY DEF KeysMet
<1>4. SumFunctionOnSet(t, 1..m) = Weighed(rs, w, D)
  BY <1>1, <1>3, GroupsWeigh
<1>5. SumFunctionOnSet(c, 1..m) = HowOften(rs, D)
  BY <1>1, <1>3, GroupsCount
<1> QED BY <1>1, <1>2, <1>4, <1>5 DEF ArePartsOf

IsDifference(h, u, t, S) ==
  \A x \in S : u[x] \in Int /\ t[x] \in Int /\ h[x] = u[x] - t[x]

LEMMA SumDifference ==
  ASSUME NEW S, IsFiniteSet(S), NEW u, NEW t, NEW h, IsDifference(h, u, t, S)
  PROVE  SumFunctionOnSet(h, S) = SumFunctionOnSet(u, S) - SumFunctionOnSet(t, S)
<1>1. PICK a \in Int, b \in Int : a = 1 /\ b = -1
  OBVIOUS
<1>2. \A x \in S : u[x] \in Int /\ t[x] \in Int /\ h[x] = a * u[x] + b * t[x]
  BY <1>1 DEF IsDifference
<1>3. SumFunctionOnSet(h, S) = a * SumFunctionOnSet(u, S) + b * SumFunctionOnSet(t, S)
  BY <1>2, SumLinear
<1>4. SumFunctionOnSet(u, S) \in Int /\ SumFunctionOnSet(t, S) \in Int
  BY SumInt DEF IsDifference
<1> QED BY <1>1, <1>3, <1>4

(* The difference of two averages over as many, as a fraction.             *)
LEMMA DifferenceGrows ==
  ASSUME NEW u \in Int, NEW t \in Int, NEW n \in Nat \ {0},
         NEW v \in Int, NEW s \in Int, NEW c \in Nat \ {0}, (u - t) * c <= (v - s) * n
  PROVE  Le(Minus([num |-> u, den |-> n], [num |-> t, den |-> n]),
            Minus([num |-> v, den |-> c], [num |-> s, den |-> c]))
<1>1. Minus([num |-> u, den |-> n], [num |-> t, den |-> n]) = [num |-> u * n - t * n, den |-> n * n]
  BY DEF Minus
<1>2. Minus([num |-> v, den |-> c], [num |-> s, den |-> c]) = [num |-> v * c - s * c, den |-> c * c]
  BY DEF Minus
<1>3. PICK x \in Int, y \in Int, k \in Nat \ {0} : x = (u - t) * c /\ y = (v - s) * n /\ k = n * c
  <2>1. (u - t) * c \in Int /\ (v - s) * n \in Int /\ n * c \in Nat \ {0}
    OBVIOUS
  <2> QED BY <2>1
<1>4. x * k <= y * k
  BY <1>3
<1>5. (u * n - t * n) * (c * c) = x * k
  BY <1>3
<1>6. (v * c - s * c) * (n * n) = y * k
  BY <1>3
<1>7. (u * n - t * n) * (c * c) <= (v * c - s * c) * (n * n)
  BY <1>4, <1>5, <1>6
<1> QED BY <1>1, <1>2, <1>7 DEF Le

(* Two selections with as many scored rows in every group: the one's loss  *)
(* against the other shows in some group.                                  *)
LEMMA SomeGroupDrops ==
  ASSUME NEW S, GoodRows(S), NEW rs \in Seq(S), NEW f, DOMAIN f = S,
         NEW T, NEW ks \in Seq(T), Distinct(ks), ToSet(ks) = KeysMet(rs, f), NEW A, NEW B,
         \A k \in ToSet(ks) : HowOften(rs, With(f, k) \cap (A \cap HasScore(S)))
                                = HowOften(rs, With(f, k) \cap (B \cap HasScore(S))),
         HowOften(rs, A \cap HasScore(S)) # 0
  PROVE  \E k \in ToSet(ks) :
           /\ HowOften(rs, With(f, k) \cap (A \cap HasScore(S))) # 0
           /\ Le(Minus(MeanOver(S, rs, A), MeanOver(S, rs, B)),
                 Minus(MeanOver(S, rs, A \cap With(f, k)), MeanOver(S, rs, B \cap With(f, k))))
<1>1. PICK D, E : D = A \cap HasScore(S) /\ E = B \cap HasScore(S)
  OBVIOUS
<1>2. PICK w \in [S -> Int] : w = ScoreOf(S)
  BY ScoreOfIs
<1>3. PICK m \in Nat : m = Len(ks) /\ DOMAIN ks = 1..m
  OBVIOUS
<1>4. PICK u, c : u = WeighsBy(rs, f, ks, w, D) /\ c = CountsBy(rs, f, ks, D)
  OBVIOUS
<1>5. PICK t, d : t = WeighsBy(rs, f, ks, w, E) /\ d = CountsBy(rs, f, ks, E)
  OBVIOUS
<1>6. ArePartsOf(u, c, rs, f, ks, w, D)
  BY <1>4, PartsAre
<1>7. ArePartsOf(t, d, rs, f, ks, w, E)
  BY <1>5, PartsAre
<1>8. ASSUME NEW i \in 1..m
      PROVE  /\ u[i] \in Int /\ t[i] \in Int /\ c[i] \in Nat /\ d[i] = c[i]
             /\ c[i] = 0 => u[i] = 0 /\ t[i] = 0
             /\ u[i] = Weighed(rs, w, With(f, ks[i]) \cap D) /\ t[i] = Weighed(rs, w, With(f, ks[i]) \cap E)
             /\ c[i] = HowOften(rs, With(f, ks[i]) \cap D) /\ c[i] = HowOften(rs, With(f, ks[i]) \cap E)
  <2>1. ks[i] \in ToSet(ks)
    BY <1>3 DEF ToSet
  <2>2. HowOften(rs, With(f, ks[i]) \cap D) = HowOften(rs, With(f, ks[i]) \cap E)
    BY <1>1, <2>1
  <2> QED BY <1>3, <1>6, <1>7, <2>2 DEF ArePartsOf
<1>9a. PICK I : I = 1..m
  OBVIOUS
<1>9b. IsFiniteSet(I)
  <2>1. \A n \in Nat : IsFiniteSet(1..n)
    BY FS_Interval
  <2> QED BY <1>9a, <2>1
<1>9c. ASSUME NEW i \in I
       PROVE u[i] \in Int /\ t[i] \in Int /\ c[i] \in Nat /\ d[i] = c[i] /\ (c[i] = 0 => u[i] = 0 /\ t[i] = 0)
  <2>1. i \in 1..m
    BY <1>9a
  <2> QED BY <1>8, <2>1
<1>9. SumFunctionOnSet(d, 1..m) = SumFunctionOnSet(c, 1..m)
  <2>1. \A x \in I : c[x] \in Int /\ d[x] = c[x]
    BY <1>9c
  <2>2. SumFunctionOnSet(d, I) = SumFunctionOnSet(c, I)
    BY <1>9b, <2>1, SumEqual
  <2> QED BY <1>9a, <2>2
<1>10. PICK U1 \in Int, T1 \in Int, N1 \in Nat :
         /\ U1 = Weighed(rs, w, D) /\ T1 = Weighed(rs, w, E)
         /\ N1 = HowOften(rs, D) /\ N1 = HowOften(rs, E) /\ N1 # 0
  <2>1. Weighed(rs, w, D) \in Int /\ Weighed(rs, w, E) \in Int
    BY WeightsAre
  <2>2. HowOften(rs, D) \in Nat /\ HowOften(rs, D) # 0
    BY <1>1, TimesIsNat
  <2>3. HowOften(rs, E) = HowOften(rs, D)
    BY <1>3, <1>6, <1>7, <1>9 DEF ArePartsOf
  <2> QED BY <2>1, <2>2, <2>3
<1>11. PICK h : h = [i \in 1..m |-> u[i] - t[i]]
  OBVIOUS
<1>12. SumFunctionOnSet(h, 1..m) = U1 - T1
  <2>1. ASSUME NEW x \in I PROVE u[x] \in Int /\ t[x] \in Int /\ h[x] = u[x] - t[x]
    BY <1>11, <1>9a, <1>9c
  <2>2. IsDifference(h, u, t, I)
    BY <2>1 DEF IsDifference
  <2>3. SumFunctionOnSet(h, I) = SumFunctionOnSet(u, I) - SumFunctionOnSet(t, I)
    BY <1>9b, <2>2, SumDifference
  <2>4. SumFunctionOnSet(u, I) = U1 /\ SumFunctionOnSet(t, I) = T1
    BY <1>3, <1>6, <1>7, <1>10, <1>9a DEF ArePartsOf
  <2> QED BY <1>9a, <2>3, <2>4
<1>13. PICK i \in 1..m : c[i] # 0 /\ (U1 - T1) * c[i] <= h[i] * N1
  <2>1. ASSUME NEW j \in 1..m PROVE h[j] \in Int /\ c[j] \in Nat /\ (c[j] = 0 => h[j] = 0)
    <3>1. u[j] \in Int /\ t[j] \in Int /\ c[j] \in Nat /\ (c[j] = 0 => u[j] = 0 /\ t[j] = 0)
      BY <1>9a, <1>9c
    <3>2. h[j] = u[j] - t[j]
      BY <1>11
    <3> QED BY <3>1, <3>2
  <2>2. PICK X : X = U1 - T1
    OBVIOUS
  <2>3. X = SumFunctionOnSet(h, 1..m) /\ N1 = SumFunctionOnSet(c, 1..m)
    BY <1>3, <1>6, <1>10, <1>12, <2>2 DEF ArePartsOf
  <2>4. \E i \in 1..m : c[i] # 0 /\ X * c[i] <= h[i] * N1
    BY <1>10, <2>1, <2>3, SomeShare
  <2> QED BY <2>2, <2>4
<1>14. PICK k : k = ks[i]
  OBVIOUS
<1>15. k \in ToSet(ks)
  BY <1>3, <1>14 DEF ToSet
<1>16. PICK v \in Int, s \in Int, n \in Nat \ {0} : v = u[i] /\ s = t[i] /\ n = c[i]
  BY <1>8, <1>13
<1>17. (U1 - T1) * n <= (v - s) * N1
  BY <1>11, <1>13, <1>16
<1>18. MeanOver(S, rs, A) = [num |-> U1, den |-> N1] /\ MeanOver(S, rs, B) = [num |-> T1, den |-> N1]
  BY <1>1, <1>2, <1>10 DEF MeanOver
<1>19. /\ (A \cap With(f, k)) \cap HasScore(S) = With(f, ks[i]) \cap D
       /\ (B \cap With(f, k)) \cap HasScore(S) = With(f, ks[i]) \cap E
  BY <1>1, <1>14
<1>20. MeanOver(S, rs, A \cap With(f, k)) = [num |-> v, den |-> n]
  <2>1. PICK F : F = With(f, ks[i]) \cap D
    OBVIOUS
  <2>2. Weighed(rs, w, F) = v /\ HowOften(rs, F) = n
    BY <1>8, <1>16, <2>1
  <2> QED BY <1>2, <1>16, <1>19, <2>1, <2>2 DEF MeanOver
<1>21. MeanOver(S, rs, B \cap With(f, k)) = [num |-> s, den |-> n]
  <2>1. PICK F : F = With(f, ks[i]) \cap E
    OBVIOUS
  <2>2. Weighed(rs, w, F) = s /\ HowOften(rs, F) = n
    BY <1>8, <1>16, <2>1
  <2> QED BY <1>2, <1>16, <1>19, <2>1, <2>2 DEF MeanOver
<1>22. Le(Minus([num |-> U1, den |-> N1], [num |-> T1, den |-> N1]),
          Minus([num |-> v, den |-> n], [num |-> s, den |-> n]))
  <2>1. N1 \in Nat \ {0}
    BY <1>10
  <2> QED BY <1>17, <2>1, DifferenceGrows
<1>23. HowOften(rs, With(f, k) \cap (A \cap HasScore(S))) # 0
  BY <1>1, <1>8, <1>13, <1>14
<1> QED BY <1>15, <1>18, <1>20, <1>21, <1>22, <1>23

-----------------------------------------------------------------------------
(* Positions are taken in their order; without one of them, and with one   *)
(* more at the end.                                                        *)
LEMMA NthGrows ==
  ASSUME NEW I, IsFiniteSet(I), I \subseteq Int,
         NEW n \in 1..Cardinality(I), NEW m \in 1..Cardinality(I), n < m
  PROVE  Nth(I, n) < Nth(I, m)
<1>1. PICK a \in I : a = Nth(I, n) /\ Cardinality({j \in I : j <= a}) = n
  BY NthOfEach, ZenonT(40)
<1>2. PICK b \in I : b = Nth(I, m) /\ Cardinality({j \in I : j <= b}) = m
  BY NthOfEach, ZenonT(40)
<1>3. n \in Int /\ m \in Int /\ a \in Int /\ b \in Int
  BY NthOfEach
<1>4. CASE b <= a
  <2>1. PICK A : A = {j \in I : j <= a}
    OBVIOUS
  <2>2. PICK B : B = {j \in I : j <= b}
    OBVIOUS
  <2>3. B \subseteq A
    <3>1. \A j \in I : j \in Int /\ (j <= b => j <= a)
      BY <1>3, <1>4
    <3> QED BY <2>1, <2>2, <3>1
  <2>4. IsFiniteSet(A)
    BY <2>1, FS_Subset
  <2>5. Cardinality(B) <= Cardinality(A)
    BY <2>3, <2>4, FS_Subset
  <2> QED BY <1>1, <1>2, <1>3, <2>1, <2>2, <2>5
<1> QED BY <1>1, <1>2, <1>3, <1>4

LacksNth(J, I, c, k) ==
  /\ IsFiniteSet(J) /\ J \subseteq Int /\ Cardinality(J) = c - 1
  /\ \A n \in 1..c-1 : Nth(J, n) = Nth(I, IF n < k THEN n ELSE n + 1)

LEMMA NthWithout ==
  ASSUME NEW I, IsFiniteSet(I), I \subseteq Int, NEW c, c = Cardinality(I),
         NEW k \in 1..c, NEW J, J = I \ {Nth(I, k)}
  PROVE  LacksNth(J, I, c, k)
<1>1. c \in Nat /\ Nth(I, k) \in I /\ IsFiniteSet(J) /\ J \subseteq Int
  BY NthOfEach, FS_Subset
<1>2. Cardinality(J) = c - 1
  BY <1>1, FS_RemoveElement
<1>3. ASSUME NEW n \in 1..c-1 PROVE Nth(J, n) = Nth(I, IF n < k THEN n ELSE n + 1)
  <2>1. PICK m \in 1..c : m = (IF n < k THEN n ELSE n + 1) /\ m # k
    BY <1>1, <1>3
  <2>2. PICK i \in I : i = Nth(I, m)
    BY NthOfEach
  <2>3. PICK h \in I : h = Nth(I, k)
    BY NthOfEach
  <2>4. i # h
    BY <2>1, <2>2, <2>3, NthOfEach
  <2>5. i \in J
    BY <2>2, <2>3, <2>4
  <2>6. PICK A : A = {j \in I : j <= i}
    OBVIOUS
  <2>7. IsFiniteSet(A) /\ Cardinality(A) = m
    <3>1. Cardinality({j \in I : j <= Nth(I, m)}) = m
      BY NthOfEach
    <3> QED BY <2>2, <2>6, <3>1, FS_Subset
  <2>8. PICK B : B = {j \in J : j <= i}
    OBVIOUS
  <2>9. Cardinality(B) = n
    <3>1. CASE n < k
      <4>1. m < k
        BY <2>1, <3>1
      <4>2. i < h
        BY <2>2, <2>3, <4>1, NthGrows
      <4>3. i \in Int /\ h \in Int
        OBVIOUS
      <4>4. B = A
        BY <2>3, <2>6, <2>8, <4>2, <4>3
      <4> QED BY <2>1, <2>7, <3>1, <4>4
    <3>2. CASE ~(n < k)
      <4>1. k < m /\ m = n + 1 /\ n \in Int
        BY <2>1, <3>2
      <4>2. h < i
        BY <2>2, <2>3, <4>1, NthGrows
      <4>3. i \in Int /\ h \in Int
        OBVIOUS
      <4>4. B = A \ {h} /\ h \in A
        BY <2>3, <2>6, <2>8, <4>2, <4>3
      <4>5. Cardinality(B) = m - 1
        BY <2>7, <4>4, FS_RemoveElement
      <4> QED BY <4>1, <4>5
    <3> QED BY <3>1, <3>2
  <2>10. Nth(J, n) = i
    BY <1>1, <2>5, <2>8, <2>9, NthIs
  <2> QED BY <2>1, <2>2, <2>10
<1> QED BY <1>1, <1>2, <1>3 DEF LacksNth

(* What stands in s at the positions I is of S.                           *)
Draws(s, I, S) == \A i \in I : s[i] \in S

LEMMA PartWithout ==
  ASSUME NEW S, NEW s, NEW I, IsFiniteSet(I), I \subseteq Int, Draws(s, I, S),
         NEW k \in 1..Cardinality(I)
  PROVE  Part(s, I \ {Nth(I, k)}) = RemoveAt(Part(s, I), k)
<1> \A i \in I : s[i] \in S
  BY DEF Draws
<1>1. PICK c \in Nat : c = Cardinality(I)
  BY NthOfEach
<1>2. PICK J : J = I \ {Nth(I, k)}
  OBVIOUS
<1>3. /\ IsFiniteSet(J) /\ J \subseteq Int /\ Cardinality(J) = c - 1
      /\ \A n \in 1..c-1 : Nth(J, n) = Nth(I, IF n < k THEN n ELSE n + 1)
  <2>1. LacksNth(J, I, c, k)
    BY <1>1, <1>2, NthWithout
  <2> QED BY <2>1 DEF LacksNth
<1>4. PICK p : p = Part(s, I)
  OBVIOUS
<1>5. p \in Seq(S) /\ Len(p) = c /\ \A n \in 1..c : p[n] = s[Nth(I, n)]
  <2>1. p \in Seq(S) /\ Len(p) = c
    BY <1>1, <1>4, PartIsList
  <2>2. p = [n \in 1..c |-> s[Nth(I, n)]]
    BY <1>1, <1>4 DEF Part
  <2> QED BY <2>1, <2>2
<1>6. PICK r : r = Part(s, J)
  OBVIOUS
<1>7. r \in Seq(S) /\ Len(r) = c - 1 /\ \A n \in 1..c-1 : r[n] = s[Nth(J, n)]
  <2>1. \A i \in J : s[i] \in S
    BY <1>2
  <2>2. Part(s, J) \in Seq(S) /\ Len(Part(s, J)) = Cardinality(J)
    BY <1>3, <2>1, PartIsList
  <2> QED BY <1>3, <1>6, <2>2 DEF Part
<1>8. PICK a : a = SubSeq(p, 1, k - 1)
  OBVIOUS
<1>9. PICK b : b = SubSeq(p, k + 1, c)
  OBVIOUS
<1>10. k \in 1..c /\ k - 1 \in Nat /\ c - k \in Nat
  BY <1>1
<1>11. a \in Seq(S) /\ Len(a) = k - 1 /\ \A n \in 1..k-1 : a[n] = p[n]
  BY <1>5, <1>8, <1>10
<1>12. b \in Seq(S) /\ Len(b) = c - k /\ \A n \in 1..c-k : b[n] = p[k + n]
  BY <1>5, <1>9, <1>10
<1>13. PICK q : q = a \o b
  OBVIOUS
<1>14. q \in Seq(S) /\ Len(q) = c - 1
  <2>1. q \in Seq(S) /\ Len(q) = Len(a) + Len(b)
    <3>1. a \in Seq(S) /\ b \in Seq(S)
      BY <1>11, <1>12
    <3> QED BY <1>13, <3>1
  <2>2. k \in Int /\ c \in Int
    BY <1>10
  <2> QED BY <1>11, <1>12, <2>1, <2>2
<1>15. ASSUME NEW n \in 1..c-1 PROVE r[n] = q[n]
  <2>1. r[n] = s[Nth(I, IF n < k THEN n ELSE n + 1)]
    BY <1>3, <1>7
  <2>2. CASE n < k
    <3>1. n \in 1..k-1 /\ n \in 1..c
      BY <1>10, <2>2
    <3>2. q[n] = a[n]
      BY <1>11, <1>12, <1>13, <3>1
    <3> QED BY <1>5, <1>11, <2>1, <2>2, <3>1, <3>2
  <2>3. CASE ~(n < k)
    <3>0. n \in Int /\ k \in Int /\ c \in Int
      BY <1>1, <1>10
    <3>1. PICK m \in 1..c-k : n = (k - 1) + m /\ n + 1 = k + m
      <4>1. PICK m \in Int : m = n - (k - 1)
        BY <3>0
      <4>2. m \in 1..c-k /\ n = (k - 1) + m /\ n + 1 = k + m
        BY <2>3, <3>0, <4>1
      <4> QED BY <4>2
    <3>2. q[n] = b[m]
      <4>1. n = Len(a) + m /\ m \in 1..Len(b)
        BY <1>11, <1>12, <3>1
      <4>2. a \in Seq(S) /\ b \in Seq(S)
        BY <1>11, <1>12
      <4>3. (a \o b)[Len(a) + m] = b[m]
        BY <4>1, <4>2
      <4> QED BY <1>13, <4>1, <4>3
    <3>3. n + 1 \in 1..c
      BY <1>10
    <3> QED BY <1>5, <1>12, <2>1, <2>3, <3>1, <3>2, <3>3
  <2> QED BY <2>2, <2>3
<1>16. r = q
  BY <1>7, <1>14, <1>15, SameLists
<1> QED BY <1>2, <1>4, <1>5, <1>6, <1>8, <1>9, <1>13, <1>16 DEF RemoveAt

(* The position m comes after those of I.                                  *)
Follows(s, I, m, S) ==
  /\ IsFiniteSet(I) /\ I \subseteq Int /\ m \in Int
  /\ s[m] \in S /\ \A i \in I : i < m /\ s[i] \in S

LEMMA PartWithLast ==
  ASSUME NEW S, NEW s, NEW I, NEW m, Follows(s, I, m, S), NEW J, J = I \cup {m}
  PROVE  Part(s, J) = Append(Part(s, I), s[m])
<1> /\ IsFiniteSet(I) /\ I \subseteq Int /\ m \in Int
    /\ s[m] \in S /\ \A i \in I : i < m /\ s[i] \in S
  BY DEF Follows
<1>1. PICK c \in Nat : c = Cardinality(I)
  BY NthOfEach
<1>2. J = I \cup {m}
  OBVIOUS
<1>3. m \notin I
  OBVIOUS
<1>4. IsFiniteSet(J) /\ J \subseteq Int /\ Cardinality(J) = c + 1
  <2>1. IsFiniteSet(I \cup {m}) /\ Cardinality(I \cup {m}) = Cardinality(I) + 1
    BY <1>3, FS_AddElement
  <2> QED BY <1>1, <1>2, <2>1
<1>5. \A n \in 1..c : Nth(J, n) = Nth(I, n)
  <2> SUFFICES ASSUME NEW n \in 1..c PROVE Nth(J, n) = Nth(I, n)
    OBVIOUS
  <2>1. PICK i \in I : i = Nth(I, n) /\ Cardinality({j \in I : j <= i}) = n
    BY <1>1, NthOfEach, ZenonT(40)
  <2>2. i \in Int /\ i < m /\ i \in J
    BY <1>2
  <2>3. PICK B : B = {j \in J : j <= i}
    OBVIOUS
  <2>4. B = {j \in I : j <= i}
    BY <1>2, <2>2, <2>3
  <2>5. n = Cardinality(B)
    BY <2>1, <2>4
  <2>6. Nth(J, n) = i
    BY <1>4, <2>2, <2>3, <2>5, NthIs
  <2> QED BY <2>1, <2>6
<1>6. Nth(J, c + 1) = m
  <2>1. \A j \in J : j <= m
    BY <1>2
  <2>2. {j \in J : j <= m} = J /\ m \in J
    BY <1>2, <2>1
  <2> QED BY <1>4, <2>2, NthIs, ZenonT(40)
<1>7. PICK p : p = Part(s, I)
  OBVIOUS
<1>8. p \in Seq(S) /\ Len(p) = c /\ \A n \in 1..c : p[n] = s[Nth(I, n)]
  <2>1. p \in Seq(S) /\ Len(p) = c
    BY <1>1, <1>7, PartIsList
  <2>2. p = [n \in 1..c |-> s[Nth(I, n)]]
    BY <1>1, <1>7 DEF Part
  <2> QED BY <2>1, <2>2
<1>9. PICK r : r = Part(s, J)
  OBVIOUS
<1>10. r \in Seq(S) /\ Len(r) = c + 1 /\ \A n \in 1..c+1 : r[n] = s[Nth(J, n)]
  <2>1. \A i \in J : s[i] \in S
    BY <1>2
  <2>2. Part(s, J) \in Seq(S) /\ Len(Part(s, J)) = Cardinality(J)
    BY <1>4, <2>1, PartIsList
  <2> QED BY <1>4, <1>9, <2>2 DEF Part
<1>11. PICK q : q = Append(p, s[m])
  OBVIOUS
<1>12. q \in Seq(S) /\ Len(q) = c + 1 /\ q[c + 1] = s[m] /\ \A n \in 1..c : q[n] = p[n]
  BY <1>8, <1>11
<1>13. \A n \in 1..c+1 : r[n] = q[n]
  <2>1. \A n \in 1..c+1 : n \in 1..c \/ n = c + 1
    OBVIOUS
  <2> QED BY <1>5, <1>6, <1>8, <1>10, <1>12, <2>1, ZenonT(40)
<1>14. r = q
  BY <1>10, <1>12, <1>13, SameLists
<1> QED BY <1>2, <1>7, <1>9, <1>11, <1>14

LEMMA PartSame ==
  ASSUME NEW I, IsFiniteSet(I), I \subseteq Int, NEW s, NEW t, \A i \in I : s[i] = t[i]
  PROVE  Part(s, I) = Part(t, I)
<1>1. \A n \in 1..Cardinality(I) : Nth(I, n) \in I
  BY NthOfEach
<1>2. \A n \in 1..Cardinality(I) : s[Nth(I, n)] = t[Nth(I, n)]
  BY <1>1
<1> QED BY <1>2 DEF Part

LEMMA NoMembers == ASSUME NEW S, NEW s \in Seq(S) PROVE s = <<>> <=> ToSet(s) = {}
<1>1. CASE s = <<>>
  BY <1>1 DEF ToSet
<1>2. CASE s # <<>>
  <2>1. 1 \in DOMAIN s
    BY <1>2
  <2>2. s[1] \in ToSet(s)
    BY <2>1 DEF ToSet
  <2> QED BY <1>2, <2>2
<1> QED BY <1>1, <1>2

(* The places of two lists put together.                                   *)
ArePlaced(c, a, b, n, m) ==
  /\ DOMAIN c = 1..n+m
  /\ \A i \in 1..n : c[i] = a[i]
  /\ \A i \in 1..m : c[n + i] = b[i]

LEMMA JoinedPlaces ==
  ASSUME NEW U, NEW n \in Nat, NEW m \in Nat, NEW a \in [1..n -> U], NEW b \in [1..m -> U],
         NEW c, c = a \o b
  PROVE  ArePlaced(c, a, b, n, m)
<1>1. a \in Seq(U) /\ b \in Seq(U) /\ Len(a) = n /\ Len(b) = m
  OBVIOUS
<1>2. c \in Seq(U) /\ Len(c) = n + m
  BY <1>1, SMTT(30)
<1>3. DOMAIN c = 1..n+m
  BY <1>2
<1>4. \A i \in 1..n : c[i] = a[i]
  BY <1>1
<1>5. \A i \in 1..m : c[n + i] = b[i]
  BY <1>1
<1> QED BY <1>3, <1>4, <1>5 DEF ArePlaced
=============================================================================
