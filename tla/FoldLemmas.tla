----------------------------- MODULE FoldLemmas -----------------------------
(***************************************************************************)
(* What the folds of the community modules compute, for every argument:    *)
(* the sum of a function over a finite set, and the concatenation of a     *)
(* sequence of sequences; and what ElementsAt selects.  All three are      *)
(* recursive functions: that they exist and what they return is shown by   *)
(* taking the least natural number for which it would fail, which the      *)
(* library grants without a schema.                                        *)
(***************************************************************************)
EXTENDS Places, SequencesExt, FiniteSetTheorems, WellFoundedInduction, TLAPS

-----------------------------------------------------------------------------
(* Natural numbers.                                                        *)

(* The order of the naturals, as the relation the library speaks of.       *)
LEMMA LessThanOnNat == \A x, y \in Nat : x < y => <<x, y>> \in OpToRel(<, Nat)
  BY Zenon DEF OpToRel

(* A set of naturals that is not empty has a least member.                 *)
LEMMA LeastExists ==
    ASSUME NEW S \in SUBSET Nat, S # {}
    PROVE  \E m \in S : \A i \in S : m <= i
<1>1. PICK m \in S : \A i \in S : ~(<<i, m>> \in OpToRel(<, Nat))
  BY NatLessThanWellFounded, WFMin, Zenon
<1>2. \A i \in S : ~(i < m)
  BY <1>1, LessThanOnNat
<1>3. QED
  BY <1>2

(* A set of naturals with 0 and every successor has every natural.         *)
LEMMA NatBySteps ==
    ASSUME NEW S \in SUBSET Nat, 0 \in S, \A n \in S : n + 1 \in S
    PROVE  S = Nat
<1>1. SUFFICES ASSUME Nat \ S # {} PROVE FALSE
  OBVIOUS
<1>2. PICK m \in Nat \ S : \A i \in Nat \ S : m <= i
  BY <1>1, LeastExists
<1>3. m - 1 \in Nat /\ m - 1 \notin S
  BY <1>2
<1>4. QED
  BY <1>2, <1>3

(* One that is bounded has a greatest member.                              *)
LEMMA GreatestExists ==
    ASSUME NEW S \in SUBSET Nat, S # {}, NEW b \in Nat, \A i \in S : i <= b
    PROVE  \E m \in S : \A i \in S : i <= m
<1> DEFINE T == {b - i : i \in S}
<1>1. \A i \in S : b - i \in Nat
  OBVIOUS
<1>2. T \in SUBSET Nat
  BY <1>1
<1>3. T # {}
  <2>1. PICK i \in S : TRUE
    OBVIOUS
  <2>2. b - i \in T
    BY <2>1
  <2>3. QED
    BY <2>2
<1>4. \E d \in T : \A e \in T : d <= e
  <2> HIDE DEF T
  <2>1. QED
    BY <1>2, <1>3, LeastExists
<1>5. PICK m \in S : \A e \in T : b - m <= e
  BY <1>4
<1>6. \A i \in S : b - m <= b - i
  BY <1>5
<1>7. QED
  BY <1>6

-----------------------------------------------------------------------------
(* Sums.                                                                   *)

(* The function on subsets that FoldFunction(+, 0, g) evaluates.           *)
Pick(s) == CHOOSE x \in s : TRUE
StepOfSum(g, f, s) == IF s = {} THEN 0 ELSE g[Pick(s)] + f[s \ {Pick(s)}]
IsSum(f, g, S) == f = [s \in SUBSET S |-> StepOfSum(g, f, s)]

(* FoldFunction(+, 0, g) reads that function at the whole domain.          *)
LEMMA FoldIsSum ==
    ASSUME NEW g
    PROVE  FoldFunction(+, 0, g) = (CHOOSE f : IsSum(f, g, DOMAIN g))[DOMAIN g]
  BY Zenon DEF FoldFunction, FoldFunctionOnSet, MapThenFoldSet, IsSum, StepOfSum, Pick

(* The sum of all values of a function.                                    *)
Total(g) == FoldFunction(+, 0, g)

(* The sum exists.                                                         *)
LEMMA SumExists ==
    ASSUME NEW S, IsFiniteSet(S), NEW g
    PROVE  \E f : IsSum(f, g, S)
<1> DEFINE Up(n) == {s \in SUBSET S : Cardinality(s) <= n}
           Good(f, n) == /\ f = [s \in SUBSET S |-> f[s]]
                         /\ \A s \in Up(n) : f[s] = StepOfSum(g, f, s)
           T == {n \in Nat : \E f : Good(f, n)}
<1>1. \A s \in SUBSET S : IsFiniteSet(s) /\ Cardinality(s) \in Nat
  BY FS_Subset, FS_CardinalityType
<1>2. \A s \in SUBSET S : Cardinality(s) <= 0 => s = {}
  BY <1>1, FS_EmptySet
<1>3. 0 \in T
  <2> DEFINE f == [s \in SUBSET S |-> 0]
  <2>1. Good(f, 0)
    BY <1>2 DEF StepOfSum
  <2>2. QED
    BY <2>1
<1>4. ASSUME NEW n \in T PROVE n + 1 \in T
  <2>1. PICK f : Good(f, n)
    OBVIOUS
  <2> DEFINE h == [s \in SUBSET S |-> StepOfSum(g, f, s)]
  <2>2. \A s \in Up(n) : h[s] = f[s]
    BY <2>1
  <2>3. ASSUME NEW s \in Up(n + 1) PROVE h[s] = StepOfSum(g, h, s)
    <3>1. CASE s = {}
      BY <3>1 DEF StepOfSum
    <3>2. CASE s # {}
      <4>1. Pick(s) \in s
        BY <3>2 DEF Pick
      <4>2. /\ s \ {Pick(s)} \in SUBSET S
            /\ Cardinality(s \ {Pick(s)}) = Cardinality(s) - 1
        BY <1>1, <4>1, FS_RemoveElement
      <4>3. s \ {Pick(s)} \in Up(n)
        BY <1>1, <4>2
      <4>4. h[s \ {Pick(s)}] = f[s \ {Pick(s)}]
        BY <2>2, <4>3
      <4>5. h[s] = StepOfSum(g, f, s)
        OBVIOUS
      <4>6. QED
        BY <4>4, <4>5 DEF StepOfSum
    <3>3. QED
      BY <3>1, <3>2
  <2>4. h = [s \in SUBSET S |-> h[s]]
    OBVIOUS
  <2> HIDE DEF h
  <2>5. Good(h, n + 1)
    BY <2>3, <2>4
  <2>6. \E q : Good(q, n + 1)
    <3> HIDE DEF Good
    <3>1. QED
      BY <2>5
  <2>7. n \in Nat
    OBVIOUS
  <2>8. QED
    <3> HIDE DEF Good
    <3>1. QED
      BY <2>6, <2>7
<1>5. T = Nat
  <2>1. T \in SUBSET Nat
    OBVIOUS
  <2> HIDE DEF T
  <2>2. QED
    BY <1>3, <1>4, <2>1, NatBySteps
<1>6. Cardinality(S) \in Nat
  BY FS_CardinalityType
<1>7. PICK f : Good(f, Cardinality(S))
  BY <1>5, <1>6
<1>8. \A s \in SUBSET S : s \in Up(Cardinality(S))
  BY FS_Subset
<1>9. IsSum(f, g, S)
  BY <1>7, <1>8 DEF IsSum
<1>10. QED
  BY <1>9

(* Each unit of the sum on its own.                                        *)
Copies(g, S) == {p \in S \X Nat : p[2] \in 1..g[p[1]]}

(* The copies of one more argument.                                        *)
LEMMA CopiesOfOneMore ==
    ASSUME NEW S, NEW g, NEW x, x \notin S, g[x] \in Nat,
           IsFiniteSet(Copies(g, S))
    PROVE  /\ IsFiniteSet(Copies(g, S \cup {x}))
           /\ Cardinality(Copies(g, S \cup {x})) = Cardinality(Copies(g, S)) + g[x]
<1> DEFINE own == {x} \X (1..g[x])
<1>1. IsFiniteSet({x}) /\ Cardinality({x}) = 1
  BY FS_Singleton
<1>2. IsFiniteSet(1..g[x]) /\ Cardinality(1..g[x]) = g[x]
  BY FS_Interval
<1>3. IsFiniteSet(own) /\ Cardinality(own) = g[x]
  <2>1. /\ IsFiniteSet({x} \X (1..g[x]))
        /\ Cardinality({x} \X (1..g[x])) = Cardinality({x}) * Cardinality(1..g[x])
    BY <1>1, <1>2, FS_Product
  <2>2. QED
    BY <1>1, <1>2, <2>1
<1>4. Copies(g, S) \cap own = {}
  BY DEF Copies
<1>5. Copies(g, S \cup {x}) = Copies(g, S) \cup own
  <2>1. \A p : p \in Copies(g, S \cup {x}) <=> p \in Copies(g, S) \/ p \in own
    <3>1. ASSUME NEW p, p \in Copies(g, S \cup {x})
          PROVE  p \in Copies(g, S) \/ p \in own
      BY <3>1 DEF Copies
    <3>2. ASSUME NEW p, p \in Copies(g, S) \/ p \in own
          PROVE  p \in Copies(g, S \cup {x})
      BY <3>2 DEF Copies
    <3>3. QED
      BY <3>1, <3>2
  <2>2. QED
    BY <2>1
<1>6. Cardinality(Copies(g, S) \cap own) = 0
  BY <1>4, FS_EmptySet
<1>7. /\ IsFiniteSet(Copies(g, S) \cup own)
      /\ Cardinality(Copies(g, S) \cup own)
            = Cardinality(Copies(g, S)) + Cardinality(own) - Cardinality(Copies(g, S) \cap own)
  BY <1>3, FS_Union
<1>8. Cardinality(Copies(g, S)) \in Nat
  BY FS_CardinalityType
<1> HIDE DEF own
<1>9. Cardinality(Copies(g, S) \cup own) = Cardinality(Copies(g, S)) + g[x]
  BY <1>3, <1>6, <1>7, <1>8
<1>10. QED
  BY <1>5, <1>7, <1>9

(* A property of all subsets of a finite set, by size: of the empty set,   *)
(* and of a set when it holds without the one member that is picked.       *)
LEMMA BySize ==
    ASSUME NEW S, IsFiniteSet(S), NEW G \in SUBSET (SUBSET S), {} \in G,
           \A s \in SUBSET S : s # {} /\ s \ {Pick(s)} \in G => s \in G
    PROVE  S \in G
<1> DEFINE T == {n \in Nat : \A s \in SUBSET S : Cardinality(s) = n => s \in G}
<1>1. \A s \in SUBSET S : IsFiniteSet(s) /\ Cardinality(s) \in Nat
  BY FS_Subset, FS_CardinalityType
<1>2. 0 \in T
  BY <1>1, FS_EmptySet
<1>3. ASSUME NEW n \in T PROVE n + 1 \in T
  <2>1. SUFFICES ASSUME NEW s \in SUBSET S, Cardinality(s) = n + 1 PROVE s \in G
    OBVIOUS
  <2>2. s # {}
    BY <2>1, FS_EmptySet
  <2>3. Pick(s) \in s
    BY <2>2 DEF Pick
  <2>4. s \ {Pick(s)} \in SUBSET S /\ Cardinality(s \ {Pick(s)}) = n
    <3>1. IsFiniteSet(s) /\ n \in Nat
      BY <1>1
    <3>2. Cardinality(s \ {Pick(s)}) = Cardinality(s) - 1
      BY <2>3, <3>1, FS_RemoveElement
    <3>3. QED
      BY <2>1, <3>1, <3>2
  <2>5. s \ {Pick(s)} \in G
    BY <2>4
  <2>6. QED
    BY <2>2, <2>5
<1>4. T = Nat
  <2>1. T \in SUBSET Nat
    OBVIOUS
  <2> HIDE DEF T
  <2>2. QED
    BY <1>2, <1>3, <2>1, NatBySteps
<1>5. Cardinality(S) \in Nat
  BY FS_CardinalityType
<1>6. QED
  BY <1>4, <1>5

(* What the recursion says at each subset.                                 *)
LEMMA SumStep ==
    ASSUME NEW S, NEW g, NEW f, IsSum(f, g, S), NEW s \in SUBSET S
    PROVE  /\ s = {} => f[s] = 0
           /\ s # {} => f[s] = g[Pick(s)] + f[s \ {Pick(s)}] /\ Pick(s) \in s
<1>1. f[s] = StepOfSum(g, f, s)
  BY DEF IsSum
<1>2. s # {} => Pick(s) \in s
  BY DEF Pick
<1>3. QED
  BY <1>1, <1>2 DEF StepOfSum

(* The sum counts the copies.                                              *)
LEMMA SumIsCopies ==
    ASSUME NEW S, IsFiniteSet(S), NEW g, \A x \in S : g[x] \in Nat,
           NEW f, IsSum(f, g, S)
    PROVE  IsFiniteSet(Copies(g, S)) /\ f[S] = Cardinality(Copies(g, S))
<1> DEFINE G == {s \in SUBSET S : /\ IsFiniteSet(Copies(g, s))
                                  /\ f[s] = Cardinality(Copies(g, s))}
<1>1. {} \in G
  <2>1. Copies(g, {}) = {}
    BY DEF Copies
  <2>2. IsFiniteSet({}) /\ Cardinality({}) = 0
    BY FS_EmptySet
  <2>3. f[{}] = 0
    BY SumStep
  <2>4. QED
    BY <2>1, <2>2, <2>3
<1>2. ASSUME NEW s \in SUBSET S, s # {}, s \ {Pick(s)} \in G PROVE s \in G
  <2> DEFINE x == Pick(s)
             t == s \ {x}
  <2>1. f[s] = g[x] + f[t] /\ x \in s /\ g[x] \in Nat
    BY <1>2, SumStep
  <2>2. t \cup {x} = s /\ x \notin t
    BY <2>1
  <2>3. IsFiniteSet(Copies(g, t)) /\ f[t] = Cardinality(Copies(g, t))
    BY <1>2
  <2>4. Cardinality(Copies(g, t)) \in Nat
    BY <2>3, FS_CardinalityType
  <2>5. /\ IsFiniteSet(Copies(g, t \cup {x}))
        /\ Cardinality(Copies(g, t \cup {x})) = Cardinality(Copies(g, t)) + g[x]
    <3> HIDE DEF x, t
    <3>1. QED
      BY <2>1, <2>2, <2>3, CopiesOfOneMore
  <2> HIDE DEF x, t
  <2>6. /\ IsFiniteSet(Copies(g, s))
        /\ f[s] = Cardinality(Copies(g, s))
    <3>1. Copies(g, t \cup {x}) = Copies(g, s)
      BY <2>2
    <3>2. f[s] = Cardinality(Copies(g, t)) + g[x]
      BY <2>1, <2>3, <2>4
    <3>3. QED
      BY <2>5, <3>1, <3>2
  <2>7. QED
    BY <2>6
<1>3. G \in SUBSET (SUBSET S)
  OBVIOUS
<1>4. S \in G
  <2> HIDE DEF G
  <2>1. QED
    BY <1>1, <1>2, <1>3, BySize
<1>5. QED
  BY <1>4

(* The total is a natural, the number of copies.                           *)
LEMMA FoldCounts ==
    ASSUME NEW g, IsFiniteSet(DOMAIN g), \A x \in DOMAIN g : g[x] \in Nat
    PROVE  /\ Total(g) = Cardinality(Copies(g, DOMAIN g))
           /\ Total(g) \in Nat
           /\ IsFiniteSet(Copies(g, DOMAIN g))
<1> DEFINE f == CHOOSE q : IsSum(q, g, DOMAIN g)
<1>1. IsSum(f, g, DOMAIN g)
  BY SumExists
<1> HIDE DEF f
<1>2. IsFiniteSet(Copies(g, DOMAIN g)) /\ f[DOMAIN g] = Cardinality(Copies(g, DOMAIN g))
  BY <1>1, SumIsCopies
<1>3. Cardinality(Copies(g, DOMAIN g)) \in Nat
  BY <1>2, FS_CardinalityType
<1>4. Total(g) = f[DOMAIN g]
  BY FoldIsSum, Zenon DEF f, Total
<1>5. QED
  BY <1>2, <1>3, <1>4
(* One more argument: its value is added.                                  *)
LEMMA SumOfOneMore ==
    ASSUME NEW g, IsFiniteSet(DOMAIN g), \A x \in DOMAIN g : g[x] \in Nat,
           NEW x, x \notin DOMAIN g, NEW h, DOMAIN h = DOMAIN g \cup {x}, h[x] \in Nat,
           \A y \in DOMAIN g : h[y] = g[y]
    PROVE  Total(h) = Total(g) + h[x]
<1>1. IsFiniteSet(DOMAIN h) /\ \A y \in DOMAIN h : h[y] \in Nat
  <2>1. IsFiniteSet(DOMAIN g \cup {x})
    BY FS_AddElement
  <2>2. QED
    BY <2>1
<1>2. Copies(h, DOMAIN g) = Copies(g, DOMAIN g)
  BY DEF Copies
<1>3. Total(g) = Cardinality(Copies(g, DOMAIN g)) /\ IsFiniteSet(Copies(g, DOMAIN g))
  BY FoldCounts
<1>4. Total(h) = Cardinality(Copies(h, DOMAIN h))
  BY <1>1, FoldCounts
<1>5. IsFiniteSet(Copies(h, DOMAIN g))
  BY <1>2, <1>3
<1>6. Cardinality(Copies(h, DOMAIN g \cup {x})) = Cardinality(Copies(h, DOMAIN g)) + h[x]
  BY <1>5, CopiesOfOneMore
<1>7. Copies(h, DOMAIN g \cup {x}) = Copies(h, DOMAIN h)
  OBVIOUS
<1>8. QED
  BY <1>2, <1>3, <1>4, <1>6, <1>7

(* h has one more than g of each member of B.                              *)
OneMoreOf(B, g, h, S) ==
    /\ g \in [S -> Nat] /\ h \in [S -> Nat] /\ B \in SUBSET S
    /\ \A x \in S : h[x] = IF x \in B THEN g[x] + 1 ELSE g[x]

(* One more of each argument of a set: its size is added.                  *)
LEMMA SumOfAdded ==
    ASSUME NEW S, IsFiniteSet(S), NEW g, NEW h, NEW B, OneMoreOf(B, g, h, S)
    PROVE  Total(h) = Total(g) + Cardinality(B)
<1> USE DEF OneMoreOf
<1> DEFINE own == {<<x, g[x] + 1>> : x \in B}
           pair == [x \in B |-> <<x, g[x] + 1>>]
<1>1. DOMAIN g = S /\ DOMAIN h = S /\ \A x \in S : g[x] \in Nat /\ h[x] \in Nat
  OBVIOUS
<1>2. /\ Total(g) = Cardinality(Copies(g, S)) /\ IsFiniteSet(Copies(g, S))
      /\ Total(g) \in Nat
  <2>1. IsFiniteSet(DOMAIN g) /\ \A x \in DOMAIN g : g[x] \in Nat
    BY <1>1
  <2>2. QED
    BY <1>1, <2>1, FoldCounts
<1>3. Total(h) = Cardinality(Copies(h, S)) /\ IsFiniteSet(Copies(h, S))
  <2>1. IsFiniteSet(DOMAIN h) /\ \A x \in DOMAIN h : h[x] \in Nat
    BY <1>1
  <2>2. QED
    BY <1>1, <2>1, FoldCounts
<1>4. IsFiniteSet(own) /\ Cardinality(own) = Cardinality(B)
  <2>1. pair \in Bijection(B, own)
    <3>1. pair \in [B -> own]
      OBVIOUS
    <3>2. \A x, y \in B : pair[x] = pair[y] => x = y
      OBVIOUS
    <3>3. \A q \in own : \E x \in B : pair[x] = q
      OBVIOUS
    <3> HIDE DEF pair, own
    <3>4. QED
      BY <3>1, <3>2, <3>3 DEF Bijection, Injection, Surjection, IsInjective
  <2>2. IsFiniteSet(B)
    BY FS_Subset
  <2>3. ExistsBijection(B, own)
    <3> HIDE DEF pair, own
    <3>1. QED
      BY <2>1 DEF ExistsBijection
  <2> HIDE DEF own
  <2>4. QED
    BY <2>2, <2>3, FS_Bijection
<1>5. Copies(g, S) \cap own = {}
  BY <1>1 DEF Copies
<1>6. Copies(h, S) = Copies(g, S) \cup own
  <2>1. ASSUME NEW p, p \in Copies(h, S) PROVE p \in Copies(g, S) \/ p \in own
    <3>1. p \in S \X Nat /\ p[2] \in 1..h[p[1]] /\ p = <<p[1], p[2]>> /\ p[1] \in S
      BY <2>1 DEF Copies
    <3>2. p[2] \in 1..g[p[1]] \/ (p[1] \in B /\ p[2] = g[p[1]] + 1)
      BY <1>1, <3>1
    <3>3. QED
      BY <3>1, <3>2 DEF Copies
  <2>2. ASSUME NEW p, p \in Copies(g, S) PROVE p \in Copies(h, S)
    BY <1>1, <2>2 DEF Copies
  <2>3. ASSUME NEW p, p \in own PROVE p \in Copies(h, S)
    BY <1>1, <2>3 DEF Copies
  <2>4. QED
    BY <2>1, <2>2, <2>3
<1> HIDE DEF own
<1>7. Cardinality(Copies(g, S) \cap own) = 0
  BY <1>5, FS_EmptySet
<1>8. Cardinality(Copies(g, S) \cup own)
          = Cardinality(Copies(g, S)) + Cardinality(own) - Cardinality(Copies(g, S) \cap own)
  BY <1>2, <1>4, FS_Union
<1>9. Cardinality(B) \in Nat /\ Cardinality(Copies(g, S)) \in Nat
  BY <1>2, FS_Subset, FS_CardinalityType
<1>10. Cardinality(Copies(g, S) \cup own) = Cardinality(Copies(g, S)) + Cardinality(B)
  BY <1>4, <1>7, <1>8, <1>9
<1>11. QED
  BY <1>2, <1>3, <1>6, <1>10

(* Nothing added to nothing.                                               *)
LEMMA SumOfNothing ==
    ASSUME NEW S, IsFiniteSet(S)
    PROVE  Total([x \in S |-> 0]) = 0
<1> DEFINE g == [x \in S |-> 0]
<1>1. DOMAIN g = S /\ Copies(g, S) = {}
  BY DEF Copies
<1>2. IsFiniteSet(DOMAIN g) /\ \A x \in DOMAIN g : g[x] \in Nat
  OBVIOUS
<1> HIDE DEF g
<1>3. Total(g) = Cardinality({})
  BY <1>1, <1>2, FoldCounts
<1>4. Total(g) = 0
  BY <1>3, FS_EmptySet
<1>5. QED
  BY <1>4 DEF g

-----------------------------------------------------------------------------
(* Concatenations.                                                         *)

(* The function on places that FlattenSeq(s) evaluates.                    *)
UpTo(s, f, i) == IF i = 1 THEN s[i] ELSE f[i - 1] \o s[i]
IsFlat(f, s) == f = [i \in 1..Len(s) |-> IF i = 1 THEN s[i] ELSE f[i - 1] \o s[i]]

(* FlattenSeq reads that function at its last place.                       *)
LEMMA FlattenIsFlat ==
    ASSUME NEW s, Len(s) # 0
    PROVE  FlattenSeq(s) = (CHOOSE f : IsFlat(f, s))[Len(s)]
  BY Zenon DEF FlattenSeq, IsFlat

(* The concatenation exists.                                               *)
LEMMA FlatExists ==
    ASSUME NEW s, Len(s) \in Nat
    PROVE  \E f : IsFlat(f, s)
<1> DEFINE D == 1..Len(s)
           Good(f, n) == /\ f = [i \in D |-> f[i]]
                         /\ \A i \in D : i <= n => f[i] = UpTo(s, f, i)
           T == {n \in Nat : \E f : Good(f, n)}
<1>1. 0 \in T
  <2> DEFINE f == [i \in D |-> 0]
  <2>1. Good(f, 0)
    OBVIOUS
  <2>2. QED
    BY <2>1
<1>2. ASSUME NEW n \in T PROVE n + 1 \in T
  <2>1. n \in Nat
    OBVIOUS
  <2>2. PICK f : Good(f, n)
    OBVIOUS
  <2> DEFINE h == [i \in D |-> UpTo(s, f, i)]
  <2>3. \A i \in D : i <= n => h[i] = f[i]
    BY <2>2
  <2>4. ASSUME NEW i \in D, i <= n + 1 PROVE h[i] = UpTo(s, h, i)
    <3>1. CASE i = 1
      BY <3>1 DEF UpTo
    <3>2. CASE i # 1
      <4>1. i - 1 \in D /\ i - 1 <= n
        BY <2>1, <2>4, <3>2
      <4>2. h[i - 1] = f[i - 1]
        BY <2>3, <4>1
      <4>3. h[i] = UpTo(s, f, i)
        OBVIOUS
      <4> HIDE DEF h
      <4>4. QED
        BY <4>2, <4>3 DEF UpTo
    <3>3. QED
      BY <3>1, <3>2
  <2>5. h = [i \in D |-> h[i]]
    OBVIOUS
  <2> HIDE DEF h
  <2>6. Good(h, n + 1)
    BY <2>4, <2>5
  <2>7. \E q : Good(q, n + 1)
    <3> HIDE DEF Good
    <3>1. QED
      BY <2>6
  <2>8. QED
    <3> HIDE DEF Good
    <3>1. QED
      BY <2>1, <2>7
<1>3. T = Nat
  <2>1. T \in SUBSET Nat
    OBVIOUS
  <2> HIDE DEF T
  <2>2. QED
    BY <1>1, <1>2, <2>1, NatBySteps
<1>4. PICK f : Good(f, Len(s))
  BY <1>3
<1>5. \A i \in D : f[i] = UpTo(s, f, i)
  BY <1>4
<1>6. f = [i \in D |-> UpTo(s, f, i)]
  BY <1>4, <1>5
<1>7. IsFlat(f, s)
  BY <1>6 DEF IsFlat, UpTo
<1>8. QED
  BY <1>7

(* It is built from the left, and is of its members' type.                 *)
LEMMA Flattening ==
    ASSUME NEW T, NEW s \in Seq(Seq(T))
    PROVE  \E f : /\ f[0] = <<>>
                  /\ \A n \in 1..Len(s) : f[n] = f[n - 1] \o s[n]
                  /\ \A n \in 0..Len(s) : f[n] \in Seq(T)
                  /\ f[Len(s)] = FlattenSeq(s)
<1>1. Len(s) \in Nat /\ \A n \in 1..Len(s) : s[n] \in Seq(T)
  OBVIOUS
<1>2. CASE Len(s) = 0
  <2>1. FlattenSeq(s) = s
    BY <1>2, Zenon DEF FlattenSeq
  <2>2. s = <<>>
    BY <1>2
  <2> DEFINE f == [n \in 0..0 |-> <<>>]
  <2>3. f[0] = <<>> /\ 1..Len(s) = {} /\ 0..Len(s) = {0} /\ <<>> \in Seq(T)
    BY <1>2
  <2> HIDE DEF f
  <2>4. QED
    BY <1>2, <2>1, <2>2, <2>3
<1>3. CASE Len(s) # 0
  <2> DEFINE q == CHOOSE h : IsFlat(h, s)
             f == [n \in 0..Len(s) |-> IF n = 0 THEN <<>> ELSE q[n]]
  <2>1. IsFlat(q, s)
    BY <1>1, FlatExists
  <2>2. FlattenSeq(s) = q[Len(s)]
    BY <1>3, FlattenIsFlat
  <2> HIDE DEF q
  <2>3. \A n \in 1..Len(s) : q[n] = IF n = 1 THEN s[n] ELSE q[n - 1] \o s[n]
    BY <2>1 DEF IsFlat
  <2>4. /\ f[0] = <<>> /\ \A n \in 1..Len(s) : f[n] = q[n]
        /\ f[Len(s)] = FlattenSeq(s)
    BY <1>1, <1>3, <2>2
  <2> HIDE DEF f
  <2>5. \A n \in 1..Len(s) : f[n] = f[n - 1] \o s[n]
    <3>1. TAKE n \in 1..Len(s)
    <3>2. CASE n = 1
      <4>1. 1 \in 1..Len(s)
        BY <3>2
      <4>2. s[1] \in Seq(T) /\ <<>> \o s[1] = s[1]
        BY <1>1, <4>1
      <4>3. f[1] = s[1] /\ f[1 - 1] = <<>>
        BY <2>3, <2>4, <4>1
      <4>4. QED
        BY <3>2, <4>2, <4>3
    <3>3. CASE n # 1
      <4>1. n - 1 \in 1..Len(s)
        BY <1>1, <3>3
      <4>2. QED
        BY <2>3, <2>4, <3>3, <4>1
    <3>4. QED
      BY <3>2, <3>3
  <2> DEFINE G == {n \in Nat : n <= Len(s) => f[n] \in Seq(T)}
  <2>6. 0 \in G
    <3>1. <<>> \in Seq(T)
      OBVIOUS
    <3>2. QED
      BY <2>4, <3>1
  <2>7. ASSUME NEW n \in G PROVE n + 1 \in G
    <3>1. SUFFICES ASSUME n + 1 <= Len(s) PROVE f[n + 1] \in Seq(T)
      OBVIOUS
    <3>2. n + 1 \in 1..Len(s) /\ (n + 1) - 1 = n /\ n <= Len(s)
      BY <1>1, <3>1
    <3>3. f[n] \in Seq(T) /\ s[n + 1] \in Seq(T) /\ f[n + 1] = f[n] \o s[n + 1]
      BY <1>1, <2>5, <3>2
    <3>4. QED
      BY <3>3
  <2>8. G = Nat
    <3>1. G \in SUBSET Nat
      OBVIOUS
    <3> HIDE DEF G
    <3>2. QED
      BY <2>6, <2>7, <3>1, NatBySteps
  <2>9. \A n \in 0..Len(s) : f[n] \in Seq(T)
    BY <1>1, <2>8
  <2>10. QED
    BY <2>4, <2>5, <2>9
<1>4. QED
  BY <1>2, <1>3

(* One more member joins at the end.                                       *)
LEMMA FlattenAppend ==
    ASSUME NEW T, NEW s \in Seq(Seq(T)), NEW x \in Seq(T)
    PROVE  /\ FlattenSeq(s) \in Seq(T)
           /\ FlattenSeq(Append(s, x)) = FlattenSeq(s) \o x
<1> DEFINE t == Append(s, x)
<1>1. /\ Len(s) \in Nat /\ t \in Seq(Seq(T)) /\ Len(t) = Len(s) + 1 /\ t[Len(s) + 1] = x
      /\ \A n \in 1..Len(s) : t[n] = s[n]
  OBVIOUS
<1> HIDE DEF t
<1>2. PICK f : /\ f[0] = <<>>
               /\ \A n \in 1..Len(s) : f[n] = f[n - 1] \o s[n]
               /\ \A n \in 0..Len(s) : f[n] \in Seq(T)
               /\ f[Len(s)] = FlattenSeq(s)
  BY Flattening
<1>3. PICK g : /\ g[0] = <<>>
               /\ \A n \in 1..Len(t) : g[n] = g[n - 1] \o t[n]
               /\ \A n \in 0..Len(t) : g[n] \in Seq(T)
               /\ g[Len(t)] = FlattenSeq(t)
  BY <1>1, Flattening
<1> DEFINE G == {n \in Nat : n <= Len(s) => g[n] = f[n]}
<1>4. 0 \in G
  BY <1>2, <1>3
<1>5. ASSUME NEW n \in G PROVE n + 1 \in G
  <2>1. SUFFICES ASSUME n + 1 <= Len(s) PROVE g[n + 1] = f[n + 1]
    OBVIOUS
  <2>2. n + 1 \in 1..Len(s) /\ n + 1 \in 1..Len(t) /\ (n + 1) - 1 = n /\ n <= Len(s)
    BY <1>1, <2>1
  <2>3. g[n] = f[n]
    BY <2>2
  <2>4. QED
    BY <1>1, <1>2, <1>3, <2>2, <2>3
<1>6. G = Nat
  <2>1. G \in SUBSET Nat
    OBVIOUS
  <2> HIDE DEF G
  <2>2. QED
    BY <1>4, <1>5, <2>1, NatBySteps
<1>7. g[Len(s)] = f[Len(s)]
  BY <1>1, <1>6
<1>8. Len(t) \in 1..Len(t) /\ Len(t) - 1 = Len(s)
  BY <1>1
<1>9. g[Len(t)] = g[Len(t) - 1] \o t[Len(t)]
  BY <1>3, <1>8
<1>10. FlattenSeq(t) = FlattenSeq(s) \o x
  BY <1>1, <1>2, <1>3, <1>7, <1>8, <1>9
<1>11. FlattenSeq(s) \in Seq(T)
  BY <1>1, <1>2
<1>12. QED
  BY <1>10, <1>11 DEF t

(* Two sequences joined.                                                   *)
LEMMA Joined ==
    ASSUME NEW T, NEW a \in Seq(T), NEW b \in Seq(T)
    PROVE  /\ a \o b \in Seq(T) /\ Len(a \o b) = Len(a) + Len(b)
           /\ \A k \in 1..Len(a) : (a \o b)[k] = a[k]
           /\ \A k \in 1..Len(b) : (a \o b)[Len(a) + k] = b[k]
  OBVIOUS

(* A bag laid out in order: every copy of every element, and no more.      *)
Laid(bag, n) == FlattenSeq([r \in 1..n |-> [i \in 1..bag[r] |-> r]])

(* It is a sequence of places, as long as the bag is large, and no element *)
(* the bag holds is left out.                                              *)
LEMMA LaidOut ==
    ASSUME NEW n \in Nat, NEW bag \in [1..n -> Nat]
    PROVE  /\ Laid(bag, n) \in Seq(1..n)
           /\ Len(Laid(bag, n)) = Total(bag)
           /\ \A r \in 1..n : bag[r] > 0 => r \in ToSet(Laid(bag, n))
<1> DEFINE s == [r \in 1..n |-> [i \in 1..bag[r] |-> r]]
<1>1. s \in Seq(Seq(1..n)) /\ Len(s) = n /\ DOMAIN s = 1..n
  <2>1. \A r \in 1..n : [i \in 1..bag[r] |-> r] \in Seq(1..n)
    OBVIOUS
  <2>2. \A r \in 1..n : s[r] \in Seq(1..n)
    BY <2>1
  <2>3. s = [r \in 1..n |-> s[r]]
    OBVIOUS
  <2> HIDE DEF s
  <2>4. QED
    BY <2>2, <2>3
<1>2. \A r \in 1..n : Len(s[r]) = bag[r] /\ s[r] = [i \in 1..bag[r] |-> r]
  OBVIOUS
<1>3. Total(bag) = Cardinality(Copies(bag, 1..n)) /\ IsFiniteSet(Copies(bag, 1..n))
  <2>1. DOMAIN bag = 1..n /\ \A x \in 1..n : bag[x] \in Nat
    OBVIOUS
  <2>2. IsFiniteSet(1..n)
    BY FS_Interval
  <2>3. QED
    BY <2>1, <2>2, FoldCounts
<1> HIDE DEF s
<1>4. CASE n = 0
  <2>1. FlattenSeq(s) = s
    BY <1>1, <1>4, Zenon DEF FlattenSeq
  <2>2. s = <<>>
    BY <1>1, <1>4
  <2>3. Copies(bag, 1..n) = {}
    BY <1>4 DEF Copies
  <2>4. Cardinality({}) = 0
    BY FS_EmptySet
  <2>5. Laid(bag, n) = <<>>
    BY <2>1, <2>2 DEF Laid, s
  <2>6. Laid(bag, n) \in Seq(1..n) /\ Len(Laid(bag, n)) = 0
    BY <2>5
  <2>7. Total(bag) = 0
    BY <1>3, <2>3, <2>4
  <2>8. Len(Laid(bag, n)) = Total(bag)
    BY <2>6, <2>7, Zenon
  <2>9. \A r \in 1..n : bag[r] > 0 => r \in ToSet(Laid(bag, n))
    BY <1>4
  <2>10. QED
    BY <2>6, <2>8, <2>9, Zenon
<1>5. CASE n # 0
  <2> DEFINE f == CHOOSE q : IsFlat(q, s)
  <2>1. IsFlat(f, s)
    BY <1>1, FlatExists
  <2>2. Laid(bag, n) = f[n]
    <3>1. FlattenSeq(s) = f[Len(s)]
      BY <1>1, <1>5, FlattenIsFlat, Zenon
    <3>2. Laid(bag, n) = FlattenSeq(s)
      BY DEF Laid, s
    <3>3. QED
      BY <1>1, <3>1, <3>2
  <2> HIDE DEF f
  <2>3. \A i \in 1..n : f[i] = IF i = 1 THEN s[i] ELSE f[i - 1] \o s[i]
    BY <1>1, <2>1 DEF IsFlat
  <2> DEFINE P(i) == /\ f[i] \in Seq(1..n)
                     /\ IsFiniteSet(Copies(bag, 1..i))
                     /\ Len(f[i]) = Cardinality(Copies(bag, 1..i))
                     /\ \A r \in 1..i : bag[r] > 0 => \E k \in 1..Len(f[i]) : f[i][k] = r
             T == {m \in Nat : m + 1 \in 1..n => P(m + 1)}
  <2>4. ASSUME NEW m \in Nat, m + 1 \in 1..n, 
               NEW old, old \in Seq(1..n), f[m + 1] = old \o s[m + 1],
               IsFiniteSet(Copies(bag, 1..m)), Len(old) = Cardinality(Copies(bag, 1..m)),
               \A r \in 1..m : bag[r] > 0 => \E k \in 1..Len(old) : old[k] = r
        PROVE  P(m + 1)
    <3> DEFINE new == f[m + 1]
    <3>1. /\ s[m + 1] \in Seq(1..n) /\ Len(s[m + 1]) = bag[m + 1] /\ bag[m + 1] \in Nat
          /\ \A i \in 1..bag[m + 1] : s[m + 1][i] = m + 1
      BY <1>1, <1>2, <2>4
    <3>2. /\ new \in Seq(1..n) /\ Len(new) = Len(old) + bag[m + 1]
          /\ \A k \in 1..Len(old) : new[k] = old[k]
          /\ \A k \in 1..bag[m + 1] : new[Len(old) + k] = s[m + 1][k]
      <4> DEFINE t == s[m + 1]
      <4>1. old \in Seq(1..n) /\ t \in Seq(1..n) /\ Len(t) = bag[m + 1] /\ new = old \o t
        BY <2>4, <3>1
      <4> HIDE DEF t, new
      <4>2. /\ new \in Seq(1..n) /\ Len(new) = Len(old) + Len(t)
            /\ \A k \in 1..Len(old) : new[k] = old[k]
            /\ \A k \in 1..Len(t) : new[Len(old) + k] = t[k]
        <5>1. old \in Seq(1..n) /\ t \in Seq(1..n) /\ new = old \o t
          BY <4>1
        <5>2. /\ old \o t \in Seq(1..n) /\ Len(old \o t) = Len(old) + Len(t)
              /\ \A k \in 1..Len(old) : (old \o t)[k] = old[k]
              /\ \A k \in 1..Len(t) : (old \o t)[Len(old) + k] = t[k]
          <6> DEFINE D == 1..n
          <6>1. old \in Seq(D) /\ t \in Seq(D)
            BY <5>1
          <6> HIDE DEF D
          <6>2. /\ old \o t \in Seq(D) /\ Len(old \o t) = Len(old) + Len(t)
                /\ \A k \in 1..Len(old) : (old \o t)[k] = old[k]
                /\ \A k \in 1..Len(t) : (old \o t)[Len(old) + k] = t[k]
            BY <6>1
          <6>3. QED
            BY <6>2 DEF D
        <5>3. QED
          BY <5>1, <5>2, Zenon
      <4>3. QED
        BY <4>1, <4>2 DEF t
    <3>3. 1..(m + 1) = 1..m \cup {m + 1} /\ m + 1 \notin 1..m
      OBVIOUS
    <3>4. /\ IsFiniteSet(Copies(bag, 1..m \cup {m + 1}))
          /\ Cardinality(Copies(bag, 1..m \cup {m + 1})) = Cardinality(Copies(bag, 1..m)) + bag[m + 1]
      <4>1. m + 1 \notin 1..m /\ bag[m + 1] \in Nat /\ IsFiniteSet(Copies(bag, 1..m))
        BY <2>4, <3>1, <3>3
      <4>2. QED
        <5> DEFINE A == 1..m
                   x == m + 1
        <5>1. x \notin A /\ bag[x] \in Nat /\ IsFiniteSet(Copies(bag, A))
          BY <4>1
        <5> HIDE DEF A, x
        <5>2. /\ IsFiniteSet(Copies(bag, A \cup {x}))
              /\ Cardinality(Copies(bag, A \cup {x})) = Cardinality(Copies(bag, A)) + bag[x]
          BY <5>1, CopiesOfOneMore
        <5>3. QED
          BY <5>2 DEF A, x
    <3>5. IsFiniteSet(Copies(bag, 1..(m + 1))) /\ Len(new) = Cardinality(Copies(bag, 1..(m + 1)))
      BY <2>4, <3>2, <3>3, <3>4
    <3>6. ASSUME NEW r \in 1..(m + 1), bag[r] > 0
          PROVE  \E k \in 1..Len(new) : new[k] = r
      <4>1. CASE r \in 1..m
        <5>1. PICK k \in 1..Len(old) : old[k] = r
          BY <2>4, <3>6, <4>1
        <5>2. k \in 1..Len(new) /\ new[k] = r
          BY <2>4, <3>1, <3>2, <5>1
        <5>3. QED
          BY <5>2
      <4>2. CASE r = m + 1
        <5>1. Len(old) + 1 \in 1..Len(new) /\ 1 \in 1..bag[m + 1]
          <6>1. /\ Len(old) \in Nat /\ Len(new) = Len(old) + bag[m + 1]
                /\ bag[m + 1] \in Nat /\ bag[m + 1] > 0
            BY <2>4, <3>1, <3>2, <3>6, <4>2
          <6>2. QED
            BY <6>1
        <5>2. new[Len(old) + 1] = r
          BY <3>1, <3>2, <4>2, <5>1
        <5>3. QED
          BY <5>1, <5>2
      <4>3. QED
        BY <3>3, <4>1, <4>2
    <3>7. QED
      BY <3>2, <3>5, <3>6
  <2>5. 0 \in T
    <3>1. f[1] = s[1] /\ 1 \in 1..n
      BY <1>5, <2>3
    <3>2. s[1] \in Seq(1..n)
      BY <1>1, <3>1
    <3>3. f[0 + 1] = <<>> \o s[0 + 1] /\ 0 + 1 \in 1..n
      <4>1. s[1] = <<>> \o s[1]
        BY <3>2
      <4>2. QED
        BY <3>1, <4>1
    <3>4. Copies(bag, 1..0) = {}
      BY DEF Copies
    <3>5. IsFiniteSet(Copies(bag, 1..0)) /\ Len(<<>>) = Cardinality(Copies(bag, 1..0))
      BY <3>4, FS_EmptySet
    <3>8. <<>> \in Seq(1..n) /\ \A r \in 1..0 : bag[r] > 0 => \E k \in 1..Len(<<>>) : <<>>[k] = r
      OBVIOUS
    <3>6. P(0 + 1)
      <4> HIDE DEF P
      <4>1. QED
        BY <2>4, <3>3, <3>5, <3>8
    <3>7. QED
      BY <3>6
  <2>6. ASSUME NEW m \in T PROVE m + 1 \in T
    <3>1. SUFFICES ASSUME (m + 1) + 1 \in 1..n PROVE P((m + 1) + 1)
      OBVIOUS
    <3>2. m \in Nat /\ m + 1 \in Nat /\ m + 1 \in 1..n
      BY <3>1
    <3>3. P(m + 1)
      BY <3>2
    <3>4. f[(m + 1) + 1] = f[m + 1] \o s[(m + 1) + 1]
      <4>1. (m + 1) + 1 # 1 /\ ((m + 1) + 1) - 1 = m + 1
        BY <3>2
      <4>2. QED
        BY <2>3, <3>1, <4>1
    <3>5. QED
      BY <2>4, <3>1, <3>2, <3>3, <3>4
  <2>7. T = Nat
    <3>1. T \in SUBSET Nat
      OBVIOUS
    <3> HIDE DEF T
    <3>2. QED
      BY <2>5, <2>6, <3>1, NatBySteps
  <2>8. P(n)
    <3>1. n - 1 \in Nat /\ (n - 1) + 1 = n /\ n \in 1..n
      BY <1>5
    <3>2. n - 1 \in T
      <4> HIDE DEF T
      <4>1. QED
        BY <2>7, <3>1
    <3>3. QED
      <4> HIDE DEF P
      <4>1. QED
        BY <3>1, <3>2
  <2>9. \A r \in 1..n : bag[r] > 0 => r \in ToSet(f[n])
    <3>1. f[n] \in Seq(1..n) /\ \A r \in 1..n : bag[r] > 0 => \E k \in 1..Len(f[n]) : f[n][k] = r
      BY <2>8
    <3> HIDE DEF P, T
    <3>2. DOMAIN f[n] = 1..Len(f[n])
      BY <3>1
    <3>3. QED
      BY <3>1, <3>2 DEF ToSet
  <2>10. f[n] \in Seq(1..n) /\ Len(f[n]) = Cardinality(Copies(bag, 1..n))
    BY <2>8
  <2>11. QED
    BY <1>3, <2>2, <2>9, <2>10
<1>6. QED
  BY <1>4, <1>5

-----------------------------------------------------------------------------
(* Places of a sequence.                                                   *)

(* The function that ElementsAt(s, places) evaluates.                      *)
StepOfPlaces(f, s, places, n) ==
    IF n = 0 THEN <<>>
    ELSE IF n \in places THEN Append(f[n - 1], s[n]) ELSE f[n - 1]
IsUpTo(f, s, places) ==
    f = [n \in 0..Len(s) |->
            IF n = 0 THEN <<>>
            ELSE IF n \in places THEN Append(f[n - 1], s[n]) ELSE f[n - 1]]

(* ElementsAt reads it at the last place.                                  *)
LEMMA ElementsAtIs ==
    ASSUME NEW s, NEW places
    PROVE  ElementsAt(s, places) = (CHOOSE f : IsUpTo(f, s, places))[Len(s)]
  BY Zenon DEF ElementsAt, IsUpTo

(* There is one.                                                           *)
LEMMA UpToExists ==
    ASSUME NEW s, Len(s) \in Nat, NEW places
    PROVE  \E f : IsUpTo(f, s, places)
<1> DEFINE D == 0..Len(s)
           Good(f, n) == /\ f = [i \in D |-> f[i]]
                         /\ \A i \in D : i <= n => f[i] = StepOfPlaces(f, s, places, i)
           T == {n \in Nat : \E f : Good(f, n)}
<1>1. 0 \in T
  <2> DEFINE f == [i \in D |-> <<>>]
  <2>1. Good(f, 0)
    <3>1. f[0] = StepOfPlaces(f, s, places, 0)
      BY DEF StepOfPlaces
    <3>2. \A i \in D : i <= 0 => i = 0
      OBVIOUS
    <3>3. f = [i \in D |-> f[i]]
      OBVIOUS
    <3> HIDE DEF f
    <3>4. QED
      BY <3>1, <3>2, <3>3
  <2>2. QED
    BY <2>1
<1>2. ASSUME NEW n \in T PROVE n + 1 \in T
  <2>1. n \in Nat
    OBVIOUS
  <2>2. PICK f : Good(f, n)
    OBVIOUS
  <2> DEFINE h == [i \in D |-> StepOfPlaces(f, s, places, i)]
  <2>3. \A i \in D : i <= n => h[i] = f[i]
    BY <2>2
  <2>4. ASSUME NEW i \in D, i <= n + 1 PROVE h[i] = StepOfPlaces(h, s, places, i)
    <3>1. CASE i = 0
      BY <3>1 DEF StepOfPlaces
    <3>2. CASE i # 0
      <4>1. i - 1 \in D /\ i - 1 <= n
        BY <2>1, <2>4, <3>2
      <4>2. h[i - 1] = f[i - 1]
        BY <2>3, <4>1
      <4>3. h[i] = StepOfPlaces(f, s, places, i)
        OBVIOUS
      <4> HIDE DEF h
      <4>4. QED
        BY <4>2, <4>3 DEF StepOfPlaces
    <3>3. QED
      BY <3>1, <3>2
  <2>5. h = [i \in D |-> h[i]]
    OBVIOUS
  <2> HIDE DEF h
  <2>6. Good(h, n + 1)
    BY <2>4, <2>5
  <2>7. \E q : Good(q, n + 1)
    <3> HIDE DEF Good
    <3>1. QED
      BY <2>6
  <2>8. QED
    <3> HIDE DEF Good
    <3>1. QED
      BY <2>1, <2>7
<1>3. T = Nat
  <2>1. T \in SUBSET Nat
    OBVIOUS
  <2> HIDE DEF T
  <2>2. QED
    BY <1>1, <1>2, <2>1, NatBySteps
<1>4. PICK f : Good(f, Len(s))
  BY <1>3
<1>5. \A i \in D : f[i] = StepOfPlaces(f, s, places, i)
  BY <1>4
<1>6. f = [i \in D |-> StepOfPlaces(f, s, places, i)]
  BY <1>4, <1>5
<1>7. IsUpTo(f, s, places)
  BY <1>6 DEF IsUpTo, StepOfPlaces
<1>8. QED
  BY <1>7

(* Sequences of a length that agree at each place are equal.               *)
LEMMA SameLengthSamePlaces ==
    ASSUME NEW Q, NEW s \in Seq(Q), NEW r \in Seq(Q), Len(s) = Len(r),
           \A k \in 1..Len(s) : s[k] = r[k]
    PROVE  s = r
<1>1. s = [k \in 1..Len(s) |-> s[k]] /\ r = [k \in 1..Len(r) |-> r[k]]
  OBVIOUS
<1>2. QED
  BY <1>1

(* A walk over the places of a sequence, from <<>> to what ElementsAt      *)
(* makes of it.                                                            *)
Walks(f, s, places) ==
    /\ f[0] = <<>>
    /\ \A n \in 1..Len(s) :
          f[n] = IF n \in places THEN Append(f[n - 1], s[n]) ELSE f[n - 1]
    /\ f[Len(s)] = ElementsAt(s, places)

(* What it does from place to place.                                       *)
LEMMA UpToSteps ==
    ASSUME NEW s, Len(s) \in Nat, NEW places
    PROVE  \E f : Walks(f, s, places)
<1> DEFINE q == CHOOSE f : IsUpTo(f, s, places)
<1>1. IsUpTo(q, s, places)
  BY UpToExists
<1>2. ElementsAt(s, places) = q[Len(s)]
  BY ElementsAtIs
<1> HIDE DEF q
<1>3. \A n \in 0..Len(s) :
          q[n] = IF n = 0 THEN <<>>
                 ELSE IF n \in places THEN Append(q[n - 1], s[n]) ELSE q[n - 1]
  BY <1>1 DEF IsUpTo
<1>4. q[0] = <<>>
  BY <1>3
<1>5. \A n \in 1..Len(s) :
          q[n] = IF n \in places THEN Append(q[n - 1], s[n]) ELSE q[n - 1]
  BY <1>3
<1>6. Walks(q, s, places)
  BY <1>2, <1>4, <1>5 DEF Walks
<1>7. QED
  BY <1>6

(* Two walks over sequences that begin alike agree as far as they do.      *)
LEMMA WalksAgree ==
    ASSUME NEW s, Len(s) \in Nat, NEW places, NEW f, Walks(f, s, places),
           NEW r, Len(r) \in Nat, NEW spots, NEW g, Walks(g, r, spots),
           NEW n \in Nat, n <= Len(s), n <= Len(r),
           \A m \in 1..n : (m \in places <=> m \in spots) /\ (m \in places => s[m] = r[m])
    PROVE  f[n] = g[n]
<1> DEFINE G == {m \in Nat : m <= n => f[m] = g[m]}
<1>1. 0 \in G
  BY DEF Walks
<1>2. ASSUME NEW m \in G PROVE m + 1 \in G
  <2>1. SUFFICES ASSUME m + 1 <= n PROVE f[m + 1] = g[m + 1]
    OBVIOUS
  <2>2. m + 1 \in 1..n /\ m + 1 \in 1..Len(s) /\ m + 1 \in 1..Len(r) /\ (m + 1) - 1 = m
        /\ f[m] = g[m]
    BY <2>1
  <2>3. f[m + 1] = IF m + 1 \in places THEN Append(f[m], s[m + 1]) ELSE f[m]
    BY <2>2 DEF Walks
  <2>4. g[m + 1] = IF m + 1 \in spots THEN Append(g[m], r[m + 1]) ELSE g[m]
    BY <2>2 DEF Walks
  <2>5. (m + 1 \in places <=> m + 1 \in spots) /\ (m + 1 \in places => s[m + 1] = r[m + 1])
    BY <2>2
  <2> HIDE DEF G
  <2>6. QED
    BY <2>2, <2>3, <2>4, <2>5
<1>3. G = Nat
  <2>1. G \in SUBSET Nat
    OBVIOUS
  <2> HIDE DEF G
  <2>2. QED
    BY <1>1, <1>2, <2>1, NatBySteps
<1>4. QED
  BY <1>3

(* Beyond the last place a walk stands still.                              *)
LEMMA WalkRests ==
    ASSUME NEW s, Len(s) \in Nat, NEW places, NEW f, Walks(f, s, places),
           NEW n \in Nat, n <= Len(s), \A m \in (n + 1)..Len(s) : m \notin places
    PROVE  f[n] = f[Len(s)]
<1> DEFINE G == {m \in Nat : n <= m /\ m <= Len(s) => f[m] = f[n]}
<1>1. 0 \in G
  OBVIOUS
<1>2. ASSUME NEW m \in G PROVE m + 1 \in G
  <2>1. SUFFICES ASSUME n <= m + 1, m + 1 <= Len(s) PROVE f[m + 1] = f[n]
    OBVIOUS
  <2>2. CASE n = m + 1
    BY <2>2
  <2>3. CASE n # m + 1
    <3>1. m + 1 \in (n + 1)..Len(s) /\ m + 1 \in 1..Len(s) /\ (m + 1) - 1 = m /\ f[m] = f[n]
      BY <2>1, <2>3
    <3>2. f[m + 1] = IF m + 1 \in places THEN Append(f[m], s[m + 1]) ELSE f[m]
      BY <3>1 DEF Walks
    <3>3. m + 1 \notin places
      BY <3>1
    <3>4. QED
      BY <3>1, <3>2, <3>3
  <2>4. QED
    BY <2>2, <2>3
<1>3. G = Nat
  <2>1. G \in SUBSET Nat
    OBVIOUS
  <2> HIDE DEF G
  <2>2. QED
    BY <1>1, <1>2, <2>1, NatBySteps
<1>4. QED
  BY <1>3

(* On its way it passes what ElementsAt makes of the places so far.        *)
LEMMA WalkPasses ==
    ASSUME NEW s, Len(s) \in Nat, NEW places, NEW f, Walks(f, s, places),
           NEW n \in Nat, n <= Len(s)
    PROVE  f[n] = ElementsAt(s, places \cap (1..n))
<1>1. PICK g : Walks(g, s, places \cap (1..n))
  BY UpToSteps
<1>2. \A m \in 1..n : (m \in places <=> m \in places \cap (1..n))
                      /\ (m \in places => s[m] = s[m])
  OBVIOUS
<1>3. f[n] = g[n]
  BY <1>1, <1>2, WalksAgree
<1>4. \A m \in (n + 1)..Len(s) : m \notin places \cap (1..n)
  OBVIOUS
<1>5. g[n] = g[Len(s)]
  BY <1>1, <1>4, WalkRests
<1>6. QED
  BY <1>1, <1>3, <1>5 DEF Walks

(* Only the places within the sequence count.                              *)
LEMMA PlacesWithin ==
    ASSUME NEW s, Len(s) \in Nat, NEW places
    PROVE  ElementsAt(s, places \cap (1..Len(s))) = ElementsAt(s, places)
<1>1. PICK f : Walks(f, s, places)
  BY UpToSteps
<1>2. f[Len(s)] = ElementsAt(s, places \cap (1..Len(s)))
  BY <1>1, WalkPasses
<1>3. QED
  BY <1>1, <1>2 DEF Walks

(* No place; one place more.                                               *)
LEMMA NoPlaces ==
    ASSUME NEW s, Len(s) \in Nat, NEW places
    PROVE  ElementsAt(s, places \cap (1..0)) = <<>>
<1>1. PICK f : Walks(f, s, places)
  BY UpToSteps
<1>2. f[0] = ElementsAt(s, places \cap (1..0))
  BY <1>1, WalkPasses
<1>3. QED
  BY <1>1, <1>2 DEF Walks

LEMMA NextPlace ==
    ASSUME NEW s, Len(s) \in Nat, NEW places, NEW n \in 1..Len(s)
    PROVE  /\ n \in places =>
                 ElementsAt(s, places \cap (1..n))
                     = Append(ElementsAt(s, places \cap (1..(n - 1))), s[n])
           /\ n \notin places =>
                 ElementsAt(s, places \cap (1..n)) = ElementsAt(s, places \cap (1..(n - 1)))
<1>1. PICK f : Walks(f, s, places)
  BY UpToSteps
<1>2. n \in Nat /\ n <= Len(s) /\ n - 1 \in Nat /\ n - 1 <= Len(s)
  OBVIOUS
<1>3. f[n] = ElementsAt(s, places \cap (1..n))
  BY <1>1, <1>2, WalkPasses
<1>4. f[n - 1] = ElementsAt(s, places \cap (1..(n - 1)))
  BY <1>1, <1>2, WalkPasses
<1>5. f[n] = IF n \in places THEN Append(f[n - 1], s[n]) ELSE f[n - 1]
  BY <1>1 DEF Walks
<1>6. QED
  BY <1>3, <1>4, <1>5

(* What is selected depends on what is at the places, and on nothing else. *)
LEMMA SamePlaces ==
    ASSUME NEW s, Len(s) \in Nat, NEW r, Len(r) = Len(s), NEW places, NEW spots,
           \A m \in 1..Len(s) : (m \in places <=> m \in spots) /\ (m \in places => s[m] = r[m])
    PROVE  ElementsAt(s, places) = ElementsAt(r, spots)
<1>1. PICK f : Walks(f, s, places)
  BY UpToSteps
<1>2. PICK g : Walks(g, r, spots)
  BY UpToSteps
<1>3. f[Len(s)] = g[Len(s)]
  BY <1>1, <1>2, WalksAgree
<1>4. QED
  BY <1>1, <1>2, <1>3 DEF Walks

(* What is selected is of the type of what is at the places.               *)
LEMMA PlacesTyped ==
    ASSUME NEW Q, NEW s, Len(s) \in Nat, NEW places,
           \A n \in 1..Len(s) : n \in places => s[n] \in Q
    PROVE  ElementsAt(s, places) \in Seq(Q)
<1>1. PICK f : Walks(f, s, places)
  BY UpToSteps
<1> DEFINE G == {m \in Nat : m <= Len(s) => f[m] \in Seq(Q)}
<1>2. 0 \in G
  <2>1. <<>> \in Seq(Q)
    OBVIOUS
  <2>2. QED
    BY <1>1, <2>1 DEF Walks
<1>3. ASSUME NEW m \in G PROVE m + 1 \in G
  <2>1. SUFFICES ASSUME m + 1 <= Len(s) PROVE f[m + 1] \in Seq(Q)
    OBVIOUS
  <2>2. m + 1 \in 1..Len(s) /\ (m + 1) - 1 = m /\ m <= Len(s)
    BY <2>1
  <2>3. f[m] \in Seq(Q)
    BY <2>2
  <2>4. f[m + 1] = IF m + 1 \in places THEN Append(f[m], s[m + 1]) ELSE f[m]
    BY <1>1, <2>2 DEF Walks
  <2>5. QED
    BY <2>2, <2>3, <2>4
<1>4. G = Nat
  <2>1. G \in SUBSET Nat
    OBVIOUS
  <2> HIDE DEF G
  <2>2. QED
    BY <1>2, <1>3, <2>1, NatBySteps
<1>5. QED
  BY <1>1, <1>4 DEF Walks

(* With every place nothing is left out.                                   *)
LEMMA EveryPlace ==
    ASSUME NEW Q, NEW s \in Seq(Q), NEW places, 1..Len(s) \subseteq places
    PROVE  ElementsAt(s, places) = s
<1>1. Len(s) \in Nat /\ \A n \in 1..Len(s) : n \in places /\ s[n] \in Q
  OBVIOUS
<1>2. PICK f : Walks(f, s, places)
  BY <1>1, UpToSteps
<1> DEFINE At(m) == /\ f[m] \in Seq(Q) /\ Len(f[m]) = m
                    /\ \A k \in 1..m : f[m][k] = s[k]
           G == {m \in Nat : m <= Len(s) => At(m)}
<1>3. 0 \in G
  <2>1. <<>> \in Seq(Q) /\ f[0] = <<>> /\ Len(<<>>) = 0 /\ 1..0 = {}
    BY <1>2 DEF Walks
  <2>2. At(0)
    BY <2>1
  <2> HIDE DEF At
  <2>3. QED
    BY <2>2
<1>4. ASSUME NEW m \in G PROVE m + 1 \in G
  <2>1. SUFFICES ASSUME m + 1 <= Len(s) PROVE At(m + 1)
    <3> HIDE DEF At
    <3>1. QED
      OBVIOUS
  <2>2. m + 1 \in 1..Len(s) /\ (m + 1) - 1 = m /\ m <= Len(s) /\ m \in Nat
    BY <1>1, <2>1
  <2>3. f[m] \in Seq(Q) /\ Len(f[m]) = m /\ \A k \in 1..m : f[m][k] = s[k]
    BY <2>2
  <2>4. f[m + 1] = Append(f[m], s[m + 1]) /\ s[m + 1] \in Q
    BY <1>1, <1>2, <2>2 DEF Walks
  <2>5. Append(f[m], s[m + 1]) \in Seq(Q) /\ Len(Append(f[m], s[m + 1])) = m + 1
    BY <2>3, <2>4
  <2>6. ASSUME NEW k \in 1..(m + 1) PROVE Append(f[m], s[m + 1])[k] = s[k]
    BY <2>3, <2>4
  <2>7. QED
    BY <2>4, <2>5, <2>6
<1>5. G = Nat
  <2>1. G \in SUBSET Nat
    OBVIOUS
  <2> HIDE DEF G, At
  <2>2. QED
    BY <1>3, <1>4, <2>1, NatBySteps
<1>6. f[Len(s)] \in Seq(Q) /\ Len(f[Len(s)]) = Len(s) /\ \A k \in 1..Len(s) : f[Len(s)][k] = s[k]
  BY <1>1, <1>5
<1>7. f[Len(s)] = s
  BY <1>6, SameLengthSamePlaces
<1>8. QED
  BY <1>2, <1>7 DEF Walks

-----------------------------------------------------------------------------
(* Selecting from images, selecting twice, and how many are selected.      *)

(* A sequence of images of the elements of another.                        *)
Maps(f, u, v) == Len(v) = Len(u) /\ \A k \in 1..Len(u) : v[k] = f[u[k]]

(* What is selected of a sequence of images is the image of what is        *)
(* selected.                                                               *)
LEMMA PlacesOfImages ==
    ASSUME NEW Q, NEW s \in Seq(Q), NEW f, NEW r, Maps(f, s, r), NEW places
    PROVE  /\ ElementsAt(s, places) \in Seq(Q)
           /\ DOMAIN ElementsAt(r, places) = 1..Len(ElementsAt(s, places))
           /\ Maps(f, ElementsAt(s, places), ElementsAt(r, places))
<1> DEFINE Image(u) == [k \in DOMAIN u |-> f[u[k]]]
           R == {f[x] : x \in Q}
<1>0. Len(s) \in Nat /\ Len(r) = Len(s) /\ \A n \in 1..Len(s) : r[n] = f[s[n]]
  BY DEF Maps
<1>1. PICK g : Walks(g, s, places)
  BY <1>0, UpToSteps
<1>2. PICK h : Walks(h, r, places)
  BY <1>0, UpToSteps
<1> DEFINE At(m) == g[m] \in Seq(Q) /\ h[m] = Image(g[m])
           G == {m \in Nat : m <= Len(s) => At(m)}
<1>3. 0 \in G
  <2>1. <<>> \in Seq(Q) /\ Image(<<>>) = <<>>
    OBVIOUS
  <2>2. QED
    BY <1>1, <1>2, <2>1 DEF Walks
<1>4. ASSUME NEW m \in G PROVE m + 1 \in G
  <2>1. SUFFICES ASSUME m + 1 <= Len(s) PROVE At(m + 1)
    <3> HIDE DEF At
    <3>1. QED
      OBVIOUS
  <2>2. m \in Nat /\ m + 1 \in 1..Len(s) /\ m + 1 \in 1..Len(r) /\ (m + 1) - 1 = m /\ m <= Len(s)
    BY <1>0, <2>1
  <2>3. g[m] \in Seq(Q) /\ h[m] = Image(g[m])
    BY <2>2
  <2> DEFINE x == s[m + 1]
             u == g[m]
  <2>4. x \in Q /\ r[m + 1] = f[x]
    BY <1>0, <2>2
  <2>5. g[m + 1] = IF m + 1 \in places THEN Append(u, x) ELSE u
    BY <1>1, <2>2 DEF Walks
  <2>6. h[m + 1] = IF m + 1 \in places THEN Append(Image(u), f[x]) ELSE Image(u)
    BY <1>2, <2>2, <2>3, <2>4 DEF Walks
  <2> HIDE DEF u, x
  <2>7. u \in Seq(Q) /\ Append(u, x) \in Seq(Q)
    BY <2>3, <2>4 DEF u
  <2>8. Append(Image(u), f[x]) = Image(Append(u, x))
    <3> DEFINE n == Len(u)
               v == Append(u, x)
               a == Image(u)
               b == Image(v)
               y == f[x]
    <3>1. n \in Nat /\ DOMAIN u = 1..n /\ \A k \in 1..n : u[k] \in Q
      BY <2>7
    <3>2. v \in Seq(Q) /\ Len(v) = n + 1 /\ DOMAIN v = 1..(n + 1) /\ v[n + 1] = x
          /\ \A k \in 1..n : v[k] = u[k]
      BY <2>4, <2>7, <3>1
    <3> HIDE DEF n, v
    <3>3. a = [k \in 1..n |-> f[u[k]]] /\ b = [k \in 1..(n + 1) |-> f[v[k]]]
      BY <3>1, <3>2
    <3>4. a \in Seq(R) /\ Len(a) = n /\ y \in R
      <4>1. \A k \in 1..n : f[u[k]] \in R
        BY <3>1
      <4> HIDE DEF R
      <4>2. y \in R
        BY <2>4 DEF R
      <4>3. QED
        BY <3>1, <3>3, <4>1, <4>2
    <3>5. b \in Seq(R) /\ Len(b) = n + 1
      <4>1. \A k \in 1..(n + 1) : f[v[k]] \in R
        BY <3>2
      <4> HIDE DEF R
      <4>2. QED
        BY <3>1, <3>3, <4>1
    <3>6. b[n + 1] = y /\ \A k \in 1..n : b[k] = a[k]
      BY <3>1, <3>2, <3>3
    <3> HIDE DEF a, b, R, y
    <3> DEFINE c == Append(a, y)
    <3>7. c \in Seq(R) /\ Len(c) = n + 1 /\ c[n + 1] = y /\ \A k \in 1..n : c[k] = a[k]
      BY <3>1, <3>4
    <3> HIDE DEF c
    <3>8. \A k \in 1..(n + 1) : c[k] = b[k]
      <4>1. \A k \in 1..(n + 1) : k \in 1..n \/ k = n + 1
        BY <3>1
      <4>2. QED
        BY <3>6, <3>7, <4>1
    <3>9. c = b
      BY <3>5, <3>7, <3>8, SameLengthSamePlaces
    <3>10. QED
      BY <3>9 DEF a, b, c, v, y
  <2> HIDE DEF Image
  <2>9. QED
    BY <2>5, <2>6, <2>7, <2>8
<1>5. G = Nat
  <2>1. G \in SUBSET Nat
    OBVIOUS
  <2> HIDE DEF G
  <2>2. QED
    BY <1>3, <1>4, <2>1, NatBySteps
<1>6. h[Len(s)] = Image(g[Len(s)])
  <2>1. At(Len(s))
    <3> HIDE DEF At
    <3>1. Len(s) \in G /\ Len(s) <= Len(s)
      BY <1>0, <1>5
    <3>2. QED
      BY <3>1
  <2>2. QED
    BY <2>1
<1>7. g[Len(s)] \in Seq(Q)
  <2>1. At(Len(s))
    <3> HIDE DEF At
    <3>1. Len(s) \in G /\ Len(s) <= Len(s)
      BY <1>0, <1>5
    <3>2. QED
      BY <3>1
  <2>2. QED
    BY <2>1
<1>8. g[Len(s)] = ElementsAt(s, places) /\ h[Len(s)] = ElementsAt(r, places)
  BY <1>0, <1>1, <1>2 DEF Walks
<1> DEFINE u == ElementsAt(s, places)
           v == ElementsAt(r, places)
<1>9. u \in Seq(Q) /\ v = Image(u)
  BY <1>6, <1>7, <1>8
<1> HIDE DEF u, v
<1>10. DOMAIN u = 1..Len(u) /\ Len(u) \in Nat
  BY <1>9
<1>11. DOMAIN v = 1..Len(u) /\ Len(v) = Len(u) /\ \A k \in 1..Len(u) : v[k] = f[u[k]]
  BY <1>9, <1>10
<1>12. QED
  BY <1>9, <1>11 DEF u, v, Maps

(* One more element, selected if it is of a set.                           *)
Within(u, R) == {k \in 1..Len(u) : u[k] \in R}
LEMMA OneMoreWithin ==
    ASSUME NEW Q, NEW u \in Seq(Q), NEW x \in Q, NEW R
    PROVE  LET v == Append(u, x)
               e == ElementsAt(u, Within(u, R))
           IN  ElementsAt(v, Within(v, R)) = IF x \in R THEN Append(e, x) ELSE e
<1> DEFINE v == Append(u, x)
           n == Len(u)
           p == Within(u, R)
           q == Within(v, R)
<1>1. n \in Nat /\ Len(v) = n + 1 /\ v[n + 1] = x /\ \A k \in 1..n : v[k] = u[k]
  OBVIOUS
<1> HIDE DEF v
<1>2. \A k \in 1..n : k \in q <=> k \in p
  BY <1>1 DEF Within
<1>3. n + 1 \in q <=> x \in R
  BY <1>1 DEF Within
<1>4. q \subseteq 1..(n + 1)
  BY <1>1 DEF Within
<1> HIDE DEF p, q
<1>5. ElementsAt(v, q \cap (1..n)) = ElementsAt(u, p)
  <2>1. PICK f : Walks(f, v, q)
    BY <1>1, UpToSteps
  <2>2. PICK g : Walks(g, u, p)
    BY <1>1, UpToSteps
  <2>3. n \in Nat /\ n <= Len(v) /\ n <= Len(u) /\ Len(u) \in Nat /\ Len(v) \in Nat
    BY <1>1
  <2> HIDE DEF n
  <2>4. f[n] = g[n]
    BY <1>1, <1>2, <2>1, <2>2, <2>3, WalksAgree
  <2>5. f[n] = ElementsAt(v, q \cap (1..n))
    BY <2>1, <2>3, WalkPasses
  <2>6. g[n] = ElementsAt(u, p)
    BY <2>2 DEF Walks, n
  <2>7. QED
    BY <2>4, <2>5, <2>6
<1>6. n + 1 \in 1..Len(v) /\ Len(v) \in Nat /\ (n + 1) - 1 = n
  BY <1>1
<1>7. /\ n + 1 \in q => ElementsAt(v, q \cap (1..(n + 1))) = Append(ElementsAt(v, q \cap (1..n)), x)
      /\ n + 1 \notin q => ElementsAt(v, q \cap (1..(n + 1))) = ElementsAt(v, q \cap (1..n))
  <2> DEFINE j == n + 1
  <2>1. j \in 1..Len(v) /\ Len(v) \in Nat /\ j - 1 = n /\ v[j] = x
    BY <1>1, <1>6
  <2>1a. j \in 1..Len(v) /\ Len(v) \in Nat
    BY <2>1
  <2> HIDE DEF j, n
  <2>2. j \in q => ElementsAt(v, q \cap (1..j)) = Append(ElementsAt(v, q \cap (1..(j - 1))), v[j])
    BY <2>1a, NextPlace
  <2>3. j \notin q => ElementsAt(v, q \cap (1..j)) = ElementsAt(v, q \cap (1..(j - 1)))
    BY <2>1a, NextPlace
  <2>4. QED
    BY <2>1, <2>2, <2>3 DEF j
<1>8. q \cap (1..(n + 1)) = q
  BY <1>4
<1>9. QED
  BY <1>3, <1>5, <1>7, <1>8 DEF p, q, v

(* Selecting twice.                                                        *)
LEMMA PlacesWithinPlaces ==
    ASSUME NEW Q, NEW s \in Seq(Q), NEW places, NEW R
    PROVE  LET e == ElementsAt(s, places)
           IN  /\ e \in Seq(Q)
               /\ ElementsAt(e, Within(e, R)) = ElementsAt(s, places \cap Within(s, R))
<1> DEFINE both == places \cap Within(s, R)
<1>0. Len(s) \in Nat
  OBVIOUS
<1>1. PICK f : Walks(f, s, places)
  BY <1>0, UpToSteps
<1>2. PICK g : Walks(g, s, both)
  BY <1>0, UpToSteps
<1> DEFINE At(m) == f[m] \in Seq(Q) /\ ElementsAt(f[m], Within(f[m], R)) = g[m]
           G == {m \in Nat : m <= Len(s) => At(m)}
<1>3. 0 \in G
  <2>1. <<>> \in Seq(Q) /\ Len(<<>>) = 0 /\ Within(<<>>, R) = Within(<<>>, R) \cap (1..0)
    BY DEF Within
  <2>2. ElementsAt(<<>>, Within(<<>>, R)) = <<>>
    <3> DEFINE p == Within(<<>>, R)
    <3>1. Len(<<>>) \in Nat /\ p = p \cap (1..0)
      BY <2>1
    <3> HIDE DEF p
    <3>2. ElementsAt(<<>>, p \cap (1..0)) = <<>>
      BY <3>1, NoPlaces
    <3>3. QED
      BY <3>1, <3>2 DEF p
  <2>3. QED
    BY <1>1, <1>2, <2>1, <2>2 DEF Walks
<1>4. ASSUME NEW m \in G PROVE m + 1 \in G
  <2>1. SUFFICES ASSUME m + 1 <= Len(s) PROVE At(m + 1)
    <3> HIDE DEF At
    <3>1. QED
      OBVIOUS
  <2>2. m \in Nat /\ m + 1 \in 1..Len(s) /\ (m + 1) - 1 = m /\ m <= Len(s)
    BY <1>0, <2>1
  <2> DEFINE x == s[m + 1]
             u == f[m]
  <2>3. u \in Seq(Q) /\ ElementsAt(u, Within(u, R)) = g[m]
    BY <2>2
  <2>4. x \in Q /\ (m + 1 \in both <=> m + 1 \in places /\ x \in R)
    BY <2>2 DEF Within
  <2>5. f[m + 1] = IF m + 1 \in places THEN Append(u, x) ELSE u
    BY <1>1, <2>2 DEF Walks
  <2>6. g[m + 1] = IF m + 1 \in both THEN Append(g[m], x) ELSE g[m]
    BY <1>2, <2>2 DEF Walks
  <2> HIDE DEF u, x, both
  <2> DEFINE v == Append(u, x)
  <2>7. v \in Seq(Q) /\ ElementsAt(v, Within(v, R)) = IF x \in R THEN Append(g[m], x) ELSE g[m]
    <3>1. v \in Seq(Q)
      BY <2>3, <2>4
    <3>2. QED
      BY <2>3, <2>4, <3>1, OneMoreWithin
  <2> HIDE DEF v
  <2>8. QED
    BY <2>3, <2>4, <2>5, <2>6, <2>7 DEF v
<1>5. G = Nat
  <2>1. G \in SUBSET Nat
    OBVIOUS
  <2> HIDE DEF G
  <2>2. QED
    BY <1>3, <1>4, <2>1, NatBySteps
<1>6. f[Len(s)] \in Seq(Q) /\ ElementsAt(f[Len(s)], Within(f[Len(s)], R)) = g[Len(s)]
  <2>1. At(Len(s))
    <3> HIDE DEF At
    <3>1. Len(s) \in G /\ Len(s) <= Len(s)
      BY <1>0, <1>5
    <3>2. QED
      BY <3>1
  <2>2. QED
    BY <2>1
<1>7. QED
  BY <1>1, <1>2, <1>6 DEF Walks

(* A series of counts, and its partial sums.                               *)
Series(g, n) == g = [i \in 1..n |-> g[i]] /\ \A i \in 1..n : g[i] \in Nat
SumsOf(t, g, n) ==
    /\ t[0] = 0
    /\ \A k \in 1..n : t[k] = t[k - 1] + g[k]

(* There are such sums, and they end in the total.                         *)
LEMMA TotalSteps ==
    ASSUME NEW n \in Nat, NEW g, Series(g, n)
    PROVE  \E t : SumsOf(t, g, n) /\ (\A k \in 0..n : t[k] \in Nat) /\ t[n] = Total(g)
<1> DEFINE upTo(k) == [i \in 1..k |-> g[i]]
           t == [k \in 0..n |-> Total(upTo(k))]
<1>0. \A i \in 1..n : g[i] \in Nat
  BY DEF Series
<1>1. t[0] = 0
  <2>1. Total([i \in {} |-> 0]) = 0
    BY SumOfNothing, FS_EmptySet
  <2>2. upTo(0) = [i \in {} |-> 0]
    <3>1. 1..0 = {} /\ [i \in {} |-> g[i]] = [i \in {} |-> 0]
      OBVIOUS
    <3>2. QED
      BY <3>1
  <2>3. 0 \in 0..n
    OBVIOUS
  <2>4. QED
    BY <2>1, <2>2, <2>3
<1>2. ASSUME NEW k \in 1..n PROVE t[k] = t[k - 1] + g[k]
  <2> DEFINE j == k - 1
             u == upTo(j)
             v == upTo(k)
  <2>1. j \in Nat /\ j + 1 = k /\ j \in 0..n /\ k \in 0..n
        /\ 1..k = 1..j \cup {k} /\ k \notin 1..j /\ \A i \in 1..k : i \in 1..n
    OBVIOUS
  <2>2. /\ DOMAIN u = 1..j /\ DOMAIN v = 1..k
        /\ \A i \in 1..j : u[i] = g[i]
        /\ \A i \in 1..k : v[i] = g[i]
    OBVIOUS
  <2>3. IsFiniteSet(1..j)
    BY <2>1, FS_Interval
  <2>4. t[k] = Total(v) /\ t[j] = Total(u)
    BY <2>1
  <2> HIDE DEF u, v, j, t
  <2>5. /\ IsFiniteSet(DOMAIN u) /\ \A x \in DOMAIN u : u[x] \in Nat
        /\ k \notin DOMAIN u /\ DOMAIN v = DOMAIN u \cup {k} /\ v[k] \in Nat
        /\ \A y \in DOMAIN u : v[y] = u[y]
    BY <1>0, <2>1, <2>2, <2>3
  <2>6. Total(v) = Total(u) + v[k]
    BY <2>5, SumOfOneMore
  <2>7. v[k] = g[k]
    BY <2>1, <2>2
  <2>8. QED
    BY <2>4, <2>6, <2>7 DEF j
<1>3. ASSUME NEW k \in 0..n PROVE t[k] \in Nat
  <2> DEFINE u == upTo(k)
  <2>1. DOMAIN u = 1..k /\ \A i \in 1..k : u[i] \in Nat
    BY <1>0
  <2>2. IsFiniteSet(1..k)
    BY FS_Interval
  <2> HIDE DEF u
  <2>3. Total(u) \in Nat
    BY <2>1, <2>2, FoldCounts
  <2>4. QED
    BY <2>3 DEF u
<1>4. t[n] = Total(g)
  <2>1. upTo(n) = g
    BY DEF Series
  <2>2. t[n] = Total(upTo(n))
    OBVIOUS
  <2>3. QED
    BY <2>1, <2>2
<1> HIDE DEF t
<1>5. SumsOf(t, g, n)
  BY <1>1, <1>2 DEF SumsOf
<1>6. QED
  BY <1>3, <1>4, <1>5

(* Whatever sums them up is the total.                                     *)
LEMMA TotalBySteps ==
    ASSUME NEW n \in Nat, NEW g, Series(g, n), NEW t, SumsOf(t, g, n)
    PROVE  Total(g) = t[n]
<1>1. PICK r : SumsOf(r, g, n) /\ r[n] = Total(g)
  BY TotalSteps
<1> DEFINE G == {k \in Nat : k <= n => r[k] = t[k]}
<1>2. 0 \in G
  BY <1>1 DEF SumsOf
<1>3. ASSUME NEW k \in G PROVE k + 1 \in G
  <2>1. SUFFICES ASSUME k + 1 <= n PROVE r[k + 1] = t[k + 1]
    OBVIOUS
  <2>2. k \in Nat /\ k + 1 \in 1..n /\ (k + 1) - 1 = k /\ r[k] = t[k]
    BY <2>1
  <2>3. r[k + 1] = r[k] + g[k + 1] /\ t[k + 1] = t[k] + g[k + 1]
    BY <1>1, <2>2 DEF SumsOf
  <2>4. QED
    BY <2>2, <2>3
<1>4. G = Nat
  <2>1. G \in SUBSET Nat
    OBVIOUS
  <2> HIDE DEF G
  <2>2. QED
    BY <1>2, <1>3, <2>1, NatBySteps
<1>5. n \in G
  BY <1>4
<1>6. QED
  BY <1>1, <1>5

(* The sum of sums.                                                        *)
LEMMA SumOfBoth ==
    ASSUME NEW n \in Nat, NEW g, Series(g, n), NEW h, Series(h, n), NEW q, Series(q, n),
           \A i \in 1..n : q[i] = g[i] + h[i]
    PROVE  Total(q) = Total(g) + Total(h)
<1>1. PICK a : SumsOf(a, g, n) /\ (\A k \in 0..n : a[k] \in Nat) /\ a[n] = Total(g)
  BY TotalSteps
<1>2. PICK b : SumsOf(b, h, n) /\ (\A k \in 0..n : b[k] \in Nat) /\ b[n] = Total(h)
  BY TotalSteps
<1> DEFINE t == [k \in 0..n |-> a[k] + b[k]]
<1>3. \A k \in 0..n : t[k] = a[k] + b[k]
  OBVIOUS
<1> HIDE DEF t
<1>4. 0 \in 0..n /\ n \in 0..n
  OBVIOUS
<1>5. t[0] = 0 /\ t[n] = Total(g) + Total(h)
  BY <1>1, <1>2, <1>3, <1>4 DEF SumsOf
<1>6. ASSUME NEW k \in 1..n PROVE t[k] = t[k - 1] + q[k]
  <2>1. k \in 0..n /\ k - 1 \in 0..n
    OBVIOUS
  <2>2. t[k] = a[k] + b[k] /\ t[k - 1] = a[k - 1] + b[k - 1]
    BY <1>3, <2>1
  <2>3. a[k - 1] \in Nat /\ b[k - 1] \in Nat /\ q[k] = g[k] + h[k] /\ g[k] \in Nat /\ h[k] \in Nat
    BY <1>1, <1>2, <2>1 DEF Series
  <2>4. a[k] = a[k - 1] + g[k] /\ b[k] = b[k - 1] + h[k]
    BY <1>1, <1>2 DEF SumsOf
  <2>5. QED
    BY <2>2, <2>3, <2>4
<1>7. SumsOf(t, q, n)
  BY <1>5, <1>6 DEF SumsOf
<1>8. Total(q) = t[n]
  BY <1>7, TotalBySteps
<1>9. QED
  BY <1>5, <1>8

(* As many elements as the sequences have together.                        *)
LEMMA LengthOfFlat ==
    ASSUME NEW T, NEW s \in Seq(Seq(T)),
           NEW g, g = [i \in 1..Len(s) |-> Len(s[i])]
    PROVE  /\ FlattenSeq(s) \in Seq(T) /\ Len(FlattenSeq(s)) = Total(g)
           /\ Series(g, Len(s))
<1> DEFINE n == Len(s)
<1>1. PICK f : /\ f[0] = <<>>
               /\ \A k \in 1..n : f[k] = f[k - 1] \o s[k]
               /\ \A k \in 0..n : f[k] \in Seq(T)
               /\ f[n] = FlattenSeq(s)
  BY Flattening
<1>2. n \in Nat /\ \A k \in 1..n : s[k] \in Seq(T)
  OBVIOUS
<1> HIDE DEF n
<1>3. \A k \in 1..n : Len(s[k]) \in Nat
  BY <1>2
<1>4. Series(g, n) /\ \A k \in 1..n : g[k] = Len(s[k])
  BY <1>3 DEF Series, n
<1> DEFINE t == [k \in 0..n |-> Len(f[k])]
<1>5. \A k \in 0..n : t[k] = Len(f[k])
  OBVIOUS
<1> HIDE DEF t
<1>6. t[0] = 0 /\ t[n] = Len(f[n])
  <2>1. 0 \in 0..n /\ n \in 0..n /\ Len(<<>>) = 0
    BY <1>2
  <2>2. QED
    BY <1>1, <1>5, <2>1
<1>7. ASSUME NEW k \in 1..n PROVE t[k] = t[k - 1] + g[k]
  <2>1. k \in 0..n /\ k - 1 \in 0..n
    BY <1>2
  <2>2. f[k] = f[k - 1] \o s[k] /\ f[k - 1] \in Seq(T) /\ s[k] \in Seq(T)
    BY <1>1, <1>2, <2>1
  <2>3. Len(f[k]) = Len(f[k - 1]) + Len(s[k])
    BY <2>2, Joined
  <2>4. QED
    BY <1>4, <1>5, <2>1, <2>3
<1>8. SumsOf(t, g, n)
  BY <1>6, <1>7 DEF SumsOf
<1>9. Total(g) = t[n]
  BY <1>2, <1>4, <1>8, TotalBySteps
<1>10. n \in 0..n
  BY <1>2
<1>11. QED
  BY <1>1, <1>4, <1>6, <1>9, <1>10 DEF n

(* Selecting by two halves is selecting as many.                           *)
LEMMA CountApart ==
    ASSUME NEW Q, NEW s \in Seq(Q), NEW p, NEW q,
           \A i \in 1..Len(s) : ~(i \in p /\ i \in q)
    PROVE  /\ Len(ElementsAt(s, p \cup q)) = Len(ElementsAt(s, p)) + Len(ElementsAt(s, q))
           /\ Len(ElementsAt(s, p)) \in Nat /\ Len(ElementsAt(s, q)) \in Nat
<1> DEFINE r == p \cup q
<1>0. Len(s) \in Nat
  OBVIOUS
<1>1. PICK f : Walks(f, s, p)
  BY <1>0, UpToSteps
<1>2. PICK g : Walks(g, s, q)
  BY <1>0, UpToSteps
<1>3. PICK h : Walks(h, s, r)
  BY <1>0, UpToSteps
<1> DEFINE At(m) == /\ f[m] \in Seq(Q) /\ g[m] \in Seq(Q) /\ h[m] \in Seq(Q)
                    /\ Len(h[m]) = Len(f[m]) + Len(g[m])
           G == {m \in Nat : m <= Len(s) => At(m)}
<1>4. 0 \in G
  <2>1. <<>> \in Seq(Q) /\ Len(<<>>) = 0
    OBVIOUS
  <2>2. f[0] = <<>> /\ g[0] = <<>> /\ h[0] = <<>>
    BY <1>1, <1>2, <1>3 DEF Walks
  <2>3. At(0)
    BY <2>1, <2>2
  <2> HIDE DEF At
  <2>4. QED
    BY <2>3
<1>5. ASSUME NEW m \in G PROVE m + 1 \in G
  <2>1. SUFFICES ASSUME m + 1 <= Len(s) PROVE At(m + 1)
    <3> HIDE DEF At
    <3>1. QED
      OBVIOUS
  <2>2. m \in Nat /\ m + 1 \in 1..Len(s) /\ (m + 1) - 1 = m /\ m <= Len(s)
    BY <1>0, <2>1
  <2> DEFINE x == s[m + 1]
             a == f[m]
             b == g[m]
             c == h[m]
  <2>3. a \in Seq(Q) /\ b \in Seq(Q) /\ c \in Seq(Q) /\ Len(c) = Len(a) + Len(b) /\ x \in Q
    <3>1. x \in Q
      BY <2>2
    <3>2. At(m)
      <4> HIDE DEF At
      <4>1. QED
        BY <2>2
    <3>3. QED
      BY <3>1, <3>2
  <2>4. f[m + 1] = IF m + 1 \in p THEN Append(a, x) ELSE a
    BY <1>1, <2>2 DEF Walks
  <2>5. g[m + 1] = IF m + 1 \in q THEN Append(b, x) ELSE b
    BY <1>2, <2>2 DEF Walks
  <2>6. h[m + 1] = IF m + 1 \in p \cup q THEN Append(c, x) ELSE c
    BY <1>3, <2>2 DEF Walks
  <2>7. ASSUME NEW u \in Seq(Q)
        PROVE  Append(u, x) \in Seq(Q) /\ Len(Append(u, x)) = Len(u) + 1 /\ Len(u) \in Nat
    <3> HIDE DEF x
    <3>1. QED
      BY <2>3
  <2>8. ~(m + 1 \in p /\ m + 1 \in q)
    BY <2>2
  <2> HIDE DEF a, b, c, x
  <2>9. CASE m + 1 \in p
    <3>1. f[m + 1] = Append(a, x) /\ g[m + 1] = b /\ h[m + 1] = Append(c, x)
      BY <2>4, <2>5, <2>6, <2>8, <2>9
    <3>2. QED
      BY <2>3, <2>7, <3>1
  <2>10. CASE m + 1 \in q
    <3>1. f[m + 1] = a /\ g[m + 1] = Append(b, x) /\ h[m + 1] = Append(c, x)
      BY <2>4, <2>5, <2>6, <2>8, <2>10
    <3>2. QED
      BY <2>3, <2>7, <3>1
  <2>11. CASE m + 1 \notin p /\ m + 1 \notin q
    <3>1. f[m + 1] = a /\ g[m + 1] = b /\ h[m + 1] = c
      BY <2>4, <2>5, <2>6, <2>11
    <3>2. QED
      BY <2>3, <3>1
  <2>12. QED
    BY <2>9, <2>10, <2>11
<1>6. G = Nat
  <2>1. G \in SUBSET Nat
    OBVIOUS
  <2> HIDE DEF G
  <2>2. QED
    BY <1>4, <1>5, <2>1, NatBySteps
<1>7. At(Len(s))
  <2> HIDE DEF At
  <2>1. Len(s) \in G /\ Len(s) <= Len(s)
    BY <1>0, <1>6
  <2>2. QED
    BY <2>1
<1>8. \A u \in Seq(Q) : Len(u) \in Nat
  OBVIOUS
<1>9. QED
  BY <1>1, <1>2, <1>3, <1>7, <1>8 DEF Walks

(* Laying images end to end is the image of what is laid end to end.       *)
LEMMA FlatOfImages ==
    ASSUME NEW T, NEW s \in Seq(Seq(T)), NEW f, NEW L, \A x \in T : f[x] \in L,
           NEW r \in Seq(Seq(L)), Len(r) = Len(s),
           \A n \in 1..Len(s) : Maps(f, s[n], r[n])
    PROVE  /\ FlattenSeq(s) \in Seq(T) /\ FlattenSeq(r) \in Seq(L)
           /\ Maps(f, FlattenSeq(s), FlattenSeq(r))
<1> DEFINE Image(u) == [k \in DOMAIN u |-> f[u[k]]]
           N == Len(s)
<1>1. ASSUME NEW u \in Seq(T) PROVE /\ Image(u) \in Seq(L) /\ Len(Image(u)) = Len(u) /\ Len(u) \in Nat
                                    /\ \A k \in 1..Len(u) : Image(u)[k] = f[u[k]]
  <2>1. DOMAIN u = 1..Len(u) /\ Len(u) \in Nat /\ \A k \in 1..Len(u) : u[k] \in T
    OBVIOUS
  <2>2. QED
    BY <2>1
<1>2. N \in Nat /\ \A n \in 1..N : s[n] \in Seq(T)
  OBVIOUS
<1>3. r \in Seq(Seq(L)) /\ Len(r) = N /\ \A n \in 1..N : r[n] = Image(s[n])
  <2>1. ASSUME NEW n \in 1..N PROVE r[n] = Image(s[n])
    <3> DEFINE v == s[n]
               w == r[n]
               i == Image(v)
    <3>1. v \in Seq(T) /\ w \in Seq(L) /\ Len(w) = Len(v) /\ \A k \in 1..Len(v) : w[k] = f[v[k]]
      BY <1>2 DEF Maps
    <3> HIDE DEF v, w
    <3>2. i \in Seq(L) /\ Len(i) = Len(v) /\ \A k \in 1..Len(v) : i[k] = f[v[k]]
      BY <1>1, <3>1
    <3> HIDE DEF i
    <3>3. w = i
      BY <3>1, <3>2, SameLengthSamePlaces
    <3>4. QED
      BY <3>3 DEF v, w, i
  <2> HIDE DEF Image
  <2>2. QED
    BY <2>1
<1> HIDE DEF Image
<1>4. PICK a : /\ a[0] = <<>>
               /\ \A n \in 1..N : a[n] = a[n - 1] \o s[n]
               /\ \A n \in 0..N : a[n] \in Seq(T)
               /\ a[N] = FlattenSeq(s)
  BY Flattening
<1>5. PICK b : /\ b[0] = <<>>
               /\ \A n \in 1..N : b[n] = b[n - 1] \o r[n]
               /\ \A n \in 0..N : b[n] \in Seq(L)
               /\ b[N] = FlattenSeq(r)
  <2> HIDE DEF N
  <2>1. QED
    BY <1>3, Flattening
<1> HIDE DEF N
<1>6. ASSUME NEW u \in Seq(T), NEW v \in Seq(T) PROVE Image(u \o v) = Image(u) \o Image(v)
  <2> DEFINE w == u \o v
             i == Image(u)
             j == Image(v)
             c == Image(w)
             d == i \o j
  <2>1. /\ w \in Seq(T) /\ Len(w) = Len(u) + Len(v)
        /\ \A k \in 1..Len(u) : w[k] = u[k]
        /\ \A k \in 1..Len(v) : w[Len(u) + k] = v[k]
    BY Joined
  <2> HIDE DEF w
  <2>2. /\ i \in Seq(L) /\ Len(i) = Len(u) /\ j \in Seq(L) /\ Len(j) = Len(v)
        /\ \A k \in 1..Len(u) : i[k] = f[u[k]]
        /\ \A k \in 1..Len(v) : j[k] = f[v[k]]
        /\ Len(u) \in Nat /\ Len(v) \in Nat
    BY <1>1
  <2>3. c \in Seq(L) /\ Len(c) = Len(w) /\ \A k \in 1..Len(w) : c[k] = f[w[k]]
    BY <1>1, <2>1
  <2> HIDE DEF i, j, c
  <2>4. /\ d \in Seq(L) /\ Len(d) = Len(i) + Len(j)
        /\ \A k \in 1..Len(i) : d[k] = i[k]
        /\ \A k \in 1..Len(j) : d[Len(i) + k] = j[k]
    <3>1. i \in Seq(L) /\ j \in Seq(L)
      BY <2>2
    <3>2. QED
      BY <3>1, Joined
  <2> HIDE DEF d
  <2> DEFINE p == Len(u)
             q == Len(v)
  <2>5. ASSUME NEW k \in 1..(p + q) PROVE c[k] = d[k]
    <3>1. k \in 1..Len(w)
      BY <2>1
    <3>2. CASE k \in 1..p
      <4>1. w[k] = u[k] /\ i[k] = f[u[k]]
        BY <2>1, <2>2, <3>2
      <4>2. d[k] = i[k]
        BY <2>2, <2>4, <3>2
      <4>3. QED
        BY <2>3, <3>1, <4>1, <4>2
    <3>3. CASE k \notin 1..p
      <4> DEFINE e == k - p
      <4>1. e \in 1..q /\ p + e = k
        <5>1. p \in Nat /\ q \in Nat
          BY <2>2
        <5> HIDE DEF p, q
        <5>2. QED
          BY <3>3, <5>1
      <4> HIDE DEF e
      <4>2. w[k] = v[e] /\ d[k] = j[e] /\ j[e] = f[v[e]]
        BY <2>1, <2>2, <2>4, <4>1
      <4>3. QED
        BY <2>3, <3>1, <4>2
    <3>4. QED
      BY <3>2, <3>3
  <2>6. Len(c) = Len(d) /\ Len(c) = p + q
    BY <2>1, <2>2, <2>3, <2>4
  <2>7. c = d
    <3>1. c \in Seq(L) /\ d \in Seq(L) /\ Len(c) = Len(d) /\ \A k \in 1..Len(c) : c[k] = d[k]
      BY <2>3, <2>4, <2>5, <2>6
    <3>2. QED
      BY <3>1, SameLengthSamePlaces
  <2>8. QED
    BY <2>7 DEF c, d, i, j, w
<1> DEFINE G == {n \in Nat : n <= N => b[n] = Image(a[n])}
<1>7. 0 \in G
  <2>1. <<>> = Image(<<>>)
    BY DEF Image
  <2>2. QED
    BY <1>4, <1>5, <2>1
<1>8. ASSUME NEW n \in G PROVE n + 1 \in G
  <2>1. SUFFICES ASSUME n + 1 <= N PROVE b[n + 1] = Image(a[n + 1])
    OBVIOUS
  <2>2. n \in Nat /\ n + 1 \in 1..N /\ (n + 1) - 1 = n /\ n \in 0..N /\ b[n] = Image(a[n])
    BY <1>2, <2>1
  <2>3. b[n + 1] = b[n] \o r[n + 1] /\ a[n + 1] = a[n] \o s[n + 1] /\ r[n + 1] = Image(s[n + 1])
    BY <1>3, <1>4, <1>5, <2>2
  <2>4. a[n] \in Seq(T) /\ s[n + 1] \in Seq(T)
    BY <1>2, <1>4, <2>2
  <2>5. Image(a[n] \o s[n + 1]) = Image(a[n]) \o Image(s[n + 1])
    BY <1>6, <2>4
  <2>6. QED
    BY <2>2, <2>3, <2>5
<1>9. G = Nat
  <2>1. G \in SUBSET Nat
    OBVIOUS
  <2> HIDE DEF G
  <2>2. QED
    BY <1>7, <1>8, <2>1, NatBySteps
<1>10. b[N] = Image(a[N])
  <2>1. N \in G /\ N <= N
    BY <1>2, <1>9
  <2>2. QED
    BY <2>1
<1>11. 0 \in 0..N /\ N \in 0..N
  BY <1>2
<1>12. a[N] \in Seq(T) /\ b[N] \in Seq(L)
  BY <1>4, <1>5, <1>11
<1>13. Len(b[N]) = Len(a[N]) /\ \A k \in 1..Len(a[N]) : b[N][k] = f[a[N][k]]
  BY <1>1, <1>10, <1>12
<1>14. QED
  BY <1>4, <1>5, <1>12, <1>13 DEF Maps
=============================================================================
