----------------------------- MODULE FoldFacts -----------------------------
(***************************************************************************)
(* Facts about the folds and sums of the community modules that the proofs *)
(* about the reshaping of rows and the parsing of keys rest on.            *)
(*                                                                         *)
(* The library's induction theorems take the property as an operator; its  *)
(* theorem about least elements, WFMin, takes a set.  So a property is put *)
(* here as the set of what has it, and induction follows from WFMin.       *)
(*                                                                         *)
(* MapThenFoldSet() is a CHOOSE of a function on the parts of a set.  Such *)
(* a function exists and is unique (FoldExists, FoldUnique), so a fold can *)
(* be followed place by place.  What is known of a fold over a sequence is *)
(* then shown as an invariant is: it holds of the base, and every step     *)
(* keeps it (FoldHasPrefixes, PrefixInduction).                            *)
(***************************************************************************)
EXTENDS SequencesExt, FiniteSetTheorems, WellFoundedInduction, TLAPS

\* Induction over the natural numbers, with the property as a set: if a number
\* were not in T, the least such could not be.
LEMMA Induction ==
    ASSUME NEW T, 0 \in T, \A n \in Nat : n \in T => n + 1 \in T
    PROVE  Nat \subseteq T
<1> DEFINE R == OpToRel(<, Nat)
           U == Nat \ T
<1>1. IsWellFoundedOn(R, Nat)
  BY NatLessThanWellFounded
<1>2. ASSUME U # {} PROVE FALSE
  <2>1. \E x \in U : \A y \in U : ~ (<<y, x>> \in R)
    <3> HIDE DEF U, R
    <3>1. U \subseteq Nat
      BY DEF U
    <3> QED
      BY <1>1, <1>2, <3>1, WFMin
  <2>2. PICK x \in U : \A y \in U : ~ (<<y, x>> \in R)
    BY <2>1
  <2>3. x \in Nat \ {0} /\ x - 1 \in Nat
    OBVIOUS
  <2>4. x - 1 \in U
    BY <2>3
  <2>5. <<x - 1, x>> \in R
    BY <2>3 DEF OpToRel
  <2> QED
    BY <2>2, <2>4, <2>5
<1> QED
  BY <1>2

\* The same up to n.
LEMMA PrefixInduction ==
    ASSUME NEW n \in Nat, NEW T, 0 \in T,
           \A i \in 1..n : i - 1 \in T => i \in T
    PROVE  \A i \in 0..n : i \in T
<1> DEFINE U == {i \in Nat : i <= n => i \in T}
<1>1. 0 \in U
  OBVIOUS
<1>2. ASSUME NEW i \in Nat, i \in U PROVE i + 1 \in U
  <2>1. CASE i + 1 <= n
    <3>1. i + 1 \in 1..n /\ (i + 1) - 1 = i /\ i \in T
      BY <1>2, <2>1
    <3> QED
      BY <3>1
  <2>2. CASE ~(i + 1 <= n)
    BY <2>2
  <2> QED
    BY <2>1, <2>2
<1>3. Nat \subseteq U
  <2> HIDE DEF U
  <2> QED
    BY <1>1, <1>2, Induction
<1> QED
  BY <1>3

\* Induction over the parts of a finite set.
LEMMA FiniteInduction ==
    ASSUME NEW D, IsFiniteSet(D), NEW T, {} \in T,
           \A E \in SUBSET D : \A x \in D \ E : E \in T => E \union {x} \in T
    PROVE  \A E \in SUBSET D : E \in T
<1> DEFINE U == {n \in Nat : \A E \in SUBSET D : Cardinality(E) = n => E \in T}
<1>1. 0 \in U
  <2>1. \A E \in SUBSET D : Cardinality(E) = 0 => E = {}
    BY FS_Subset, FS_EmptySet
  <2> QED
    BY <2>1
<1>2. ASSUME NEW n \in Nat, n \in U PROVE n + 1 \in U
  <2>1. ASSUME NEW E \in SUBSET D, Cardinality(E) = n + 1 PROVE E \in T
    <3>1. E # {} /\ IsFiniteSet(E)
      BY <2>1, FS_Subset, FS_EmptySet
    <3>2. PICK x : x \in E
      BY <3>1
    <3> DEFINE F == E \ {x}
    <3>3. Cardinality(F) = Cardinality(E) - 1
      BY <3>1, <3>2, FS_RemoveElement
    <3>4. F \in T /\ x \in D \ F /\ E = F \union {x}
      BY <3>2, <3>3, <2>1, <1>2
    <3> QED
      BY <3>4
  <2> QED
    BY <2>1
<1>3. Nat \subseteq U
  <2> HIDE DEF U
  <2> QED
    BY <1>1, <1>2, Induction
<1>4. \A E \in SUBSET D : Cardinality(E) \in Nat
  BY FS_Subset, FS_CardinalityType
<1> QED
  BY <1>3, <1>4

\* A fold over the finite set S with values in V: pick says which place of a
\* part of S comes next, step what the fold makes of it.
Foldable(S, V, base, pick, step) ==
    /\ IsFiniteSet(S)
    /\ base \in V
    /\ \A s \in SUBSET S : s # {} => pick[s] \in s
    /\ step \in [S \X V -> V]

\* g gives the fold over every part of S.
Folds(g, S, V, base, pick, step) ==
    /\ g \in [SUBSET S -> V]
    /\ \A s \in SUBSET S :
          g[s] = IF s = {} THEN base ELSE step[<<pick[s], g[s \ {pick[s]}]>>]

\* The same of an h whose values need not be known beforehand.
Follows(h, S, V, base, pick, step) ==
    /\ h[{}] = base
    /\ \A s \in SUBSET S : s # {} /\ h[s \ {pick[s]}] \in V =>
          h[s] = step[<<pick[s], h[s \ {pick[s]}]>>]

\* A fold exists: the functions that fold the parts of at most n places, for
\* every n.
LEMMA FoldExists ==
    ASSUME NEW S, NEW V, NEW base, NEW pick, NEW step,
           Foldable(S, V, base, pick, step)
    PROVE  \E g : Folds(g, S, V, base, pick, step)
<1> USE DEF Foldable, Folds
<1> DEFINE Good(g, s) == g[s] = IF s = {} THEN base ELSE step[<<pick[s], g[s \ {pick[s]}]>>]
           Upto(g, n) == \A s \in SUBSET S : Cardinality(s) <= n => Good(g, s)
           T == {n \in Nat : \E g \in [SUBSET S -> V] : Upto(g, n)}
<1>1. 0 \in T
  <2>1. [s \in SUBSET S |-> base] \in [SUBSET S -> V]
    OBVIOUS
  <2>2. \A s \in SUBSET S : Cardinality(s) <= 0 => s = {}
    BY FS_Subset, FS_EmptySet, FS_CardinalityType
  <2> QED
    BY <2>1, <2>2
<1>2. ASSUME NEW n \in Nat, n \in T PROVE n + 1 \in T
  <2>1. PICK g \in [SUBSET S -> V] : \A s \in SUBSET S : Cardinality(s) <= n => Good(g, s)
    BY <1>2
  <2> DEFINE h == [s \in SUBSET S |-> IF s = {} THEN base ELSE step[<<pick[s], g[s \ {pick[s]}]>>]]
  <2>2. h \in [SUBSET S -> V]
    OBVIOUS
  <2>3. ASSUME NEW s \in SUBSET S, Cardinality(s) <= n + 1 PROVE Good(h, s)
    <3>1. CASE s = {}
      BY <3>1
    <3>2. CASE s # {}
      <4> DEFINE t == s \ {pick[s]}
      <4>1. t \in SUBSET S /\ pick[s] \in s
        BY <3>2
      <4>2. Cardinality(t) <= n
        BY <4>1, <2>3, FS_Subset, FS_RemoveElement, FS_CardinalityType
      <4>3. h[t] = g[t]
        BY <4>1, <4>2, <2>1
      <4> QED
        BY <4>3, <3>2
    <3> QED
      BY <3>1, <3>2
  <2>4. Upto(h, n + 1)
    BY <2>3
  <2> HIDE DEF h, Upto
  <2> QED
    BY <2>2, <2>4
<1>3. Cardinality(S) \in T
  <2> HIDE DEF T
  <2>1. Nat \subseteq T
    BY <1>1, <1>2, Induction
  <2> QED
    BY <2>1, FS_CardinalityType
<1>4. \A s \in SUBSET S : Cardinality(s) <= Cardinality(S)
  BY FS_Subset
<1> QED
  BY <1>3, <1>4

\* And is unique: what follows its equation agrees with it.
LEMMA FoldUnique ==
    ASSUME NEW S, NEW V, NEW base, NEW pick, NEW step, NEW g, NEW h,
           Foldable(S, V, base, pick, step),
           Folds(g, S, V, base, pick, step),
           Follows(h, S, V, base, pick, step)
    PROVE  \A s \in SUBSET S : h[s] = g[s]
<1> USE DEF Foldable, Folds, Follows
<1> DEFINE T == {n \in Nat : \A s \in SUBSET S : Cardinality(s) = n => h[s] = g[s]}
<1>1. 0 \in T
  <2>1. \A s \in SUBSET S : Cardinality(s) = 0 => s = {}
    BY FS_Subset, FS_EmptySet
  <2> QED
    BY <2>1
<1>2. ASSUME NEW n \in Nat, n \in T PROVE n + 1 \in T
  <2>1. ASSUME NEW s \in SUBSET S, Cardinality(s) = n + 1 PROVE h[s] = g[s]
    <3>1. s # {} /\ IsFiniteSet(s)
      BY <2>1, FS_Subset, FS_EmptySet
    <3> DEFINE t == s \ {pick[s]}
    <3>2. t \in SUBSET S /\ pick[s] \in s
      BY <3>1
    <3>3. \A x \in s : Cardinality(s \ {x}) = Cardinality(s) - 1
      BY <3>1, FS_RemoveElement
    <3>4. h[t] = g[t] /\ g[t] \in V
      BY <3>2, <3>3, <2>1, <1>2
    <3> QED
      BY <3>1, <3>4
  <2> QED
    BY <2>1
<1>3. Nat \subseteq T
  <2> HIDE DEF T
  <2> QED
    BY <1>1, <1>2, Induction
<1>4. \A s \in SUBSET S : Cardinality(s) \in Nat
  BY FS_Subset, FS_CardinalityType
<1> QED
  BY <1>3, <1>4

-----------------------------------------------------------------------------
\* The sum of the amounts of a table, as SumOver of CardRpcs and Total of
\* CardReshape take it.
TableSum(f) == MapThenSumSet(LAMBDA x : f[x], DOMAIN f)

\* f is a finite table of numbers.
Amounts(f, D) == IsFiniteSet(D) /\ f \in [D -> Int]

\* g gives the sum of every part of D, in the order CHOOSE picks.
AddsUp(g, f, D) ==
    /\ g \in [SUBSET D -> Int]
    /\ \A s \in SUBSET D :
          g[s] = IF s = {} THEN 0
                 ELSE f[CHOOSE x \in s : TRUE] + g[s \ {CHOOSE x \in s : TRUE}]

\* The sum of the library is such a g.
LEMMA TableSumAddsUp ==
    ASSUME NEW D, NEW f, Amounts(f, D)
    PROVE  \E g : AddsUp(g, f, D) /\ TableSum(f) = g[D]
<1> DEFINE First(s) == CHOOSE x \in s : TRUE
           pick == [s \in SUBSET D |-> First(s)]
           step == [p \in D \X Int |-> f[p[1]] + p[2]]
           Eq(h) == [s \in SUBSET D |->
                       IF s = {} THEN 0 ELSE f[First(s)] + h[s \ {First(s)}]]
           c == CHOOSE h : h = Eq(h)
<1>1. Foldable(D, Int, 0, pick, step)
  <2>1. \A s \in SUBSET D : s # {} => pick[s] \in s
    OBVIOUS
  <2>2. step \in [D \X Int -> Int]
    BY DEF Amounts
  <2> HIDE DEF step, pick
  <2> QED
    BY <2>1, <2>2 DEF Foldable, Amounts
<1>2. PICK g : Folds(g, D, Int, 0, pick, step)
  BY <1>1, FoldExists
<1>3. ASSUME NEW s \in SUBSET D, s # {}, NEW h, h[s \ {pick[s]}] \in Int
      PROVE  step[<<pick[s], h[s \ {pick[s]}]>>] = f[First(s)] + h[s \ {First(s)}]
  <2>1. <<pick[s], h[s \ {pick[s]}]>> \in D \X Int
    BY <1>3
  <2> QED
    BY <2>1
<1>4. /\ g \in [SUBSET D -> Int]
      /\ \A s \in SUBSET D :
            g[s] = IF s = {} THEN 0 ELSE f[First(s)] + g[s \ {First(s)}]
  <2>1. g \in [SUBSET D -> Int]
    BY <1>2 DEF Folds
  <2>2. \A s \in SUBSET D : g[s \ {pick[s]}] \in Int
    BY <2>1
  <2>3. \A s \in SUBSET D :
            g[s] = IF s = {} THEN 0 ELSE step[<<pick[s], g[s \ {pick[s]}]>>]
    BY <1>2 DEF Folds
  <2> HIDE DEF step, pick
  <2> QED
    BY <1>3, <2>1, <2>2, <2>3
<1>5. c = Eq(c)
  <2>1. g = Eq(g)
    BY <1>4
  <2> HIDE DEF Eq
  <2> QED
    BY <2>1
<1>6. Follows(c, D, Int, 0, pick, step)
  <2> HIDE DEF c
  <2>1. c[{}] = 0
    BY <1>5
  <2>2. \A s \in SUBSET D : s # {} => c[s] = f[First(s)] + c[s \ {First(s)}]
    BY <1>5
  <2> HIDE DEF step, pick
  <2>3. ASSUME NEW s \in SUBSET D, s # {}, c[s \ {pick[s]}] \in Int
        PROVE  c[s] = step[<<pick[s], c[s \ {pick[s]}]>>]
    <3>1. step[<<pick[s], c[s \ {pick[s]}]>>] = f[First(s)] + c[s \ {First(s)}]
      BY <1>3, <2>3
    <3> QED
      BY <2>2, <2>3, <3>1
  <2> QED
    BY <2>1, <2>3 DEF Follows
<1>7. \A s \in SUBSET D : c[s] = g[s]
  <2> HIDE DEF c, step, pick
  <2> QED
    BY <1>1, <1>2, <1>6, FoldUnique
<1>8. TableSum(f) = c[D]
  <2>1. DOMAIN f = D
    BY DEF Amounts
  <2> QED
    BY <2>1 DEF TableSum, MapThenSumSet, MapThenFoldSet
<1>9. AddsUp(g, f, D)
  BY <1>4 DEF AddsUp
<1> QED
  BY <1>7, <1>8, <1>9

\* The same, whatever place is taken out first.
AddsUpAnyhow(g, f, D) ==
    \A s \in SUBSET D : \A x \in s : g[s] = f[x] + g[s \ {x}]

\* Numbers can be added in any order.
LEMMA AddsUpInAnyOrder ==
    ASSUME NEW D, NEW f, NEW g, Amounts(f, D), AddsUp(g, f, D)
    PROVE  AddsUpAnyhow(g, f, D)
<1> USE DEF Amounts, AddsUp, AddsUpAnyhow
<1> DEFINE T == {n \in Nat : \A s \in SUBSET D : Cardinality(s) = n =>
                                \A x \in s : g[s] = f[x] + g[s \ {x}]}
<1>1. 0 \in T
  <2>1. \A s \in SUBSET D : Cardinality(s) = 0 => s = {}
    BY FS_Subset, FS_EmptySet
  <2> QED
    BY <2>1
<1>2. ASSUME NEW n \in Nat, n \in T PROVE n + 1 \in T
  <2>1. ASSUME NEW s \in SUBSET D, Cardinality(s) = n + 1, NEW x \in s
        PROVE  g[s] = f[x] + g[s \ {x}]
    <3> DEFINE y == CHOOSE z \in s : TRUE
    <3>1. y \in s
      OBVIOUS
    <3>2. g[s] = f[y] + g[s \ {y}]
      OBVIOUS
    <3> HIDE DEF y
    <3>3. CASE x = y
      BY <3>2, <3>3
    <3>4. CASE x # y
      <4>1. \A z \in s : Cardinality(s \ {z}) = Cardinality(s) - 1
        BY FS_Subset, FS_RemoveElement
      <4>2. Cardinality(s \ {y}) = n /\ Cardinality(s \ {x}) = n
        BY <4>1, <3>1, <2>1
      <4>3. g[s \ {y}] = f[x] + g[(s \ {y}) \ {x}]
        BY <4>2, <1>2, <3>4
      <4>4. g[s \ {x}] = f[y] + g[(s \ {x}) \ {y}]
        BY <4>2, <1>2, <3>4, <3>1
      <4>5. (s \ {y}) \ {x} = (s \ {x}) \ {y}
        OBVIOUS
      <4>6. f[x] \in Int /\ f[y] \in Int /\ g[(s \ {x}) \ {y}] \in Int
        BY <3>1
      <4>7. \A a, b, d \in Int : a + (b + d) = b + (a + d)
        OBVIOUS
      <4> DEFINE u == f[x]
                 v == f[y]
                 w == g[(s \ {x}) \ {y}]
      <4>8. g[s] = v + (u + w) /\ u + (v + w) = f[x] + g[s \ {x}]
        BY <3>2, <4>3, <4>4, <4>5
      <4>9. u \in Int /\ v \in Int /\ w \in Int
        BY <4>6
      <4> HIDE DEF u, v, w
      <4> QED
        BY <4>7, <4>8, <4>9
    <3> QED
      BY <3>3, <3>4
  <2> QED
    BY <2>1
<1>3. Nat \subseteq T
  <2> HIDE DEF T
  <2> QED
    BY <1>1, <1>2, Induction
<1>4. \A s \in SUBSET D : Cardinality(s) \in Nat
  BY FS_Subset, FS_CardinalityType
<1> QED
  BY <1>3, <1>4

\* The sum of a part depends on the amounts of that part alone.
LEMMA AddsUpAgree ==
    ASSUME NEW D, NEW f, NEW E \in SUBSET D, NEW e, NEW g, NEW h,
           Amounts(f, D), AddsUp(g, f, D), e = [x \in E |-> f[x]], AddsUp(h, e, E)
    PROVE  h[E] = g[E]
<1> DEFINE T == {s \in SUBSET E : h[s] = g[s]}
<1>1. Amounts(e, E)
  BY FS_Subset DEF Amounts
<1>2. AddsUpAnyhow(g, f, D)
  BY AddsUpInAnyOrder
<1>3. AddsUpAnyhow(h, e, E)
  BY <1>1, AddsUpInAnyOrder
<1>4. {} \in T
  BY DEF AddsUp
<1>5. ASSUME NEW s \in SUBSET E, NEW x \in E \ s, s \in T PROVE s \union {x} \in T
  <2>1. (s \union {x}) \ {x} = s /\ s \union {x} \in SUBSET E /\ s \union {x} \in SUBSET D
    BY <1>5
  <2>2. g[s \union {x}] = f[x] + g[s]
    BY <1>2, <2>1 DEF AddsUpAnyhow
  <2>3. h[s \union {x}] = f[x] + h[s]
    BY <1>3, <2>1 DEF AddsUpAnyhow
  <2> QED
    BY <2>1, <2>2, <2>3, <1>5
<1>6. \A s \in SUBSET E : s \in T
  <2>1. IsFiniteSet(E)
    BY <1>1 DEF Amounts
  <2> HIDE DEF T
  <2> QED
    BY <1>4, <1>5, <2>1, FiniteInduction
<1> QED
  BY <1>6

\* A sum is a number; that of no amounts is 0, and any one amount can be taken
\* out of it.
LEMMA TableSumNumber ==
    ASSUME NEW D, NEW f, Amounts(f, D)
    PROVE  TableSum(f) \in Int
<1>1. PICK g : AddsUp(g, f, D) /\ TableSum(f) = g[D]
  BY TableSumAddsUp
<1> QED
  BY <1>1 DEF AddsUp

\* The sum of no amounts.
LEMMA TableSumEmpty ==
    ASSUME NEW f, Amounts(f, {})
    PROVE  TableSum(f) = 0
<1>1. PICK g : AddsUp(g, f, {}) /\ TableSum(f) = g[{}]
  BY TableSumAddsUp
<1> QED
  BY <1>1 DEF AddsUp

\* Any one amount can be taken out of a sum.
LEMMA TableSumStep ==
    ASSUME NEW D, NEW f, Amounts(f, D), NEW x \in D
    PROVE  TableSum(f) = f[x] + TableSum([y \in D \ {x} |-> f[y]])
<1> DEFINE E == D \ {x}
           e == [y \in E |-> f[y]]
<1>1. Amounts(e, E)
  BY FS_RemoveElement DEF Amounts
<1>2. PICK g : AddsUp(g, f, D) /\ TableSum(f) = g[D]
  BY TableSumAddsUp
<1>3. PICK h : AddsUp(h, e, E) /\ TableSum(e) = h[E]
  BY <1>1, TableSumAddsUp
<1>4. E \in SUBSET D
  OBVIOUS
<1>5. h[E] = g[E]
  <2>1. e = [y \in E |-> f[y]]
    OBVIOUS
  <2> HIDE DEF e, E
  <2> QED
    BY <1>2, <1>3, <1>4, <2>1, AddsUpAgree
<1>6. AddsUpAnyhow(g, f, D)
  BY <1>2, AddsUpInAnyOrder
<1>7. g[D] = f[x] + g[D \ {x}]
  BY <1>6 DEF AddsUpAnyhow
<1> QED
  BY <1>2, <1>3, <1>5, <1>7

\* The same of sums over a part of a table.
LEMMA PartAmounts ==
    ASSUME NEW D, NEW f, Amounts(f, D), NEW E \in SUBSET D
    PROVE  Amounts(Restrict(f, E), E)
BY FS_Subset DEF Amounts, Restrict

\* The sum over a part is a number.
LEMMA PartSumNumber ==
    ASSUME NEW D, NEW f, Amounts(f, D), NEW E \in SUBSET D
    PROVE  TableSum(Restrict(f, E)) \in Int
BY PartAmounts, TableSumNumber

\* One more place adds its amount.
LEMMA PartSumAdd ==
    ASSUME NEW D, NEW f, Amounts(f, D), NEW E \in SUBSET D, NEW x \in D \ E
    PROVE  TableSum(Restrict(f, E \union {x})) = f[x] + TableSum(Restrict(f, E))
<1> DEFINE F == E \union {x}
           e == Restrict(f, F)
<1>1. Amounts(e, F) /\ x \in F
  BY PartAmounts
<1>2. TableSum(e) = e[x] + TableSum([y \in F \ {x} |-> e[y]])
  <2> HIDE DEF e, F
  <2> QED
    BY <1>1, TableSumStep
<1>3. [y \in F \ {x} |-> e[y]] = Restrict(f, E) /\ e[x] = f[x]
  BY DEF Restrict
<1> QED
  BY <1>2, <1>3

\* No place adds nothing.
LEMMA PartSumEmpty ==
    ASSUME NEW D, NEW f, Amounts(f, D)
    PROVE  TableSum(Restrict(f, {})) = 0
BY PartAmounts, TableSumEmpty

\* The whole table is a part of itself.
LEMMA WholeIsPart ==
    ASSUME NEW D, NEW f, Amounts(f, D)
    PROVE  Restrict(f, D) = f
BY DEF Amounts, Restrict

\* Two tables whose amounts correspond one to one have one sum.
Corresponds(h, f, D, g, E) ==
    /\ \A x \in D : h[x] \in E /\ f[x] = g[h[x]]
    /\ \A x, y \in D : h[x] = h[y] => x = y
    /\ \A z \in E : \E x \in D : h[x] = z

\* A correspondence keeps the sum.
LEMMA TableSumSame ==
    ASSUME NEW D, NEW E, NEW f, NEW g, NEW h,
           Amounts(f, D), Amounts(g, E), Corresponds(h, f, D, g, E)
    PROVE  TableSum(f) = TableSum(g)
<1> DEFINE Image(s) == {h[x] : x \in s}
           T == {s \in SUBSET D : TableSum(Restrict(f, s)) = TableSum(Restrict(g, Image(s)))}
<1>1. {} \in T
  <2>1. Image({}) = {}
    OBVIOUS
  <2> QED
    BY <2>1, PartSumEmpty
<1>2. ASSUME NEW s \in SUBSET D, NEW x \in D \ s, s \in T PROVE s \union {x} \in T
  <2>1. /\ Image(s) \in SUBSET E /\ h[x] \in E \ Image(s) /\ f[x] = g[h[x]]
        /\ Image(s \union {x}) = Image(s) \union {h[x]}
    BY DEF Corresponds
  <2>2. TableSum(Restrict(f, s \union {x})) = f[x] + TableSum(Restrict(f, s))
    BY PartSumAdd
  <2>3. TableSum(Restrict(g, Image(s) \union {h[x]})) = g[h[x]] + TableSum(Restrict(g, Image(s)))
    <3> HIDE DEF Image
    <3> QED
      BY <2>1, PartSumAdd
  <2> HIDE DEF Image
  <2> QED
    BY <1>2, <2>1, <2>2, <2>3
<1>3. D \in T
  <2>1. IsFiniteSet(D)
    BY DEF Amounts
  <2> HIDE DEF T
  <2> QED
    BY <1>1, <1>2, <2>1, FiniteInduction
<1>4. Image(D) = E
  BY DEF Corresponds
<1> HIDE DEF Image
<1> QED
  BY <1>3, <1>4, WholeIsPart

\* Amounts of 0 can be left out.
LEMMA TableSumWithoutZeros ==
    ASSUME NEW D, NEW f, Amounts(f, D), NEW E \in SUBSET D, \A x \in D \ E : f[x] = 0
    PROVE  TableSum(f) = TableSum(Restrict(f, E))
<1> DEFINE Z == D \ E
           Sum(s) == TableSum(Restrict(f, E \union s))
           T == {s \in SUBSET Z : Sum(s) = Sum({})}
<1>1. {} \in T
  OBVIOUS
<1>2. ASSUME NEW s \in SUBSET Z, NEW x \in Z \ s, s \in T PROVE s \union {x} \in T
  <2>1. E \union s \in SUBSET D /\ x \in D \ (E \union s) /\ f[x] = 0
    OBVIOUS
  <2>2. TableSum(Restrict(f, (E \union s) \union {x})) = f[x] + Sum(s)
    BY <2>1, PartSumAdd
  <2>3. (E \union s) \union {x} = E \union (s \union {x})
    OBVIOUS
  <2>4. Sum(s) \in Int
    BY <2>1, PartSumNumber
  <2>5. Sum(s \union {x}) = f[x] + Sum(s)
    BY <2>2, <2>3
  <2>6. Sum(s) = Sum({}) /\ s \union {x} \in SUBSET Z
    BY <1>2
  <2> HIDE DEF Sum
  <2> QED
    BY <2>1, <2>4, <2>5, <2>6
<1>3. Z \in T
  <2>1. IsFiniteSet(Z)
    BY FS_Subset DEF Amounts
  <2> HIDE DEF T, Z, Sum
  <2>2. \A s \in SUBSET Z : s \in T
    BY <1>1, <1>2, <2>1, FiniteInduction
  <2> QED
    BY <2>2
<1>4. E \union Z = D /\ E \union {} = E
  OBVIOUS
<1>5. TableSum(Restrict(f, D)) = TableSum(Restrict(f, E))
  BY <1>3, <1>4
<1> QED
  BY <1>5, WholeIsPart

\* The sum of the differences is the difference of the sums.
LEMMA TableSumMinus ==
    ASSUME NEW D, NEW f, NEW g, NEW d, Amounts(f, D), Amounts(g, D), Amounts(d, D),
           \A x \in D : d[x] = g[x] - f[x]
    PROVE  TableSum(d) = TableSum(g) - TableSum(f)
<1> DEFINE Sum(e, s) == TableSum(Restrict(e, s))
           T == {s \in SUBSET D : Sum(d, s) = Sum(g, s) - Sum(f, s)}
<1>1. {} \in T
  <2>1. Sum(d, {}) = 0 /\ Sum(f, {}) = 0 /\ Sum(g, {}) = 0
    BY PartSumEmpty
  <2> HIDE DEF Sum
  <2> QED
    BY <2>1
<1>2. ASSUME NEW s \in SUBSET D, NEW x \in D \ s, s \in T PROVE s \union {x} \in T
  <2>1. /\ Sum(d, s \union {x}) = d[x] + Sum(d, s)
        /\ Sum(f, s \union {x}) = f[x] + Sum(f, s)
        /\ Sum(g, s \union {x}) = g[x] + Sum(g, s)
    BY PartSumAdd
  <2>2. Sum(d, s) \in Int /\ Sum(f, s) \in Int /\ Sum(g, s) \in Int
    BY PartSumNumber
  <2>3. f[x] \in Int /\ g[x] \in Int /\ d[x] = g[x] - f[x]
    BY DEF Amounts
  <2>4. Sum(d, s) = Sum(g, s) - Sum(f, s)
    BY <1>2
  <2>5. s \union {x} \in SUBSET D
    OBVIOUS
  <2> HIDE DEF Sum
  <2>6. Sum(d, s \union {x}) = Sum(g, s \union {x}) - Sum(f, s \union {x})
    BY <2>1, <2>2, <2>3, <2>4
  <2> QED
    BY <2>5, <2>6
<1>3. D \in T
  <2>1. IsFiniteSet(D)
    BY DEF Amounts
  <2> HIDE DEF T
  <2> QED
    BY <1>1, <1>2, <2>1, FiniteInduction
<1> QED
  BY <1>3, WholeIsPart

-----------------------------------------------------------------------------
\* Some places of a sequence have a last one.
LEMMA PlacesHaveMax ==
    ASSUME NEW n \in Nat, NEW s \in SUBSET (1..n), s # {}
    PROVE  Max(s) \in s /\ \A i \in s : i <= Max(s)
<1> DEFINE T == {i \in 0..n : s \intersect (1..i) # {} =>
                                \E m \in s \intersect (1..i) : \A j \in s \intersect (1..i) : m >= j}
<1>1. 0 \in T
  OBVIOUS
<1>2. ASSUME NEW i \in 1..n, i - 1 \in T PROVE i \in T
  <2>1. CASE i \in s
    BY <2>1
  <2>2. CASE i \notin s
    <3>1. s \intersect (1..i) = s \intersect (1..(i - 1))
      BY <2>2
    <3> QED
      BY <1>2, <3>1
  <2> QED
    BY <2>1, <2>2
<1>3. n \in T
  <2> HIDE DEF T
  <2> QED
    BY <1>1, <1>2, PrefixInduction
<1>4. s \intersect (1..n) = s
  OBVIOUS
<1>5. \E m \in s : \A j \in s : m >= j
  BY <1>3, <1>4
<1> QED
  BY <1>5 DEF Max

\* And a first one.
LEMMA PlacesHaveMin ==
    ASSUME NEW n \in Nat, NEW s \in SUBSET (1..n), s # {}
    PROVE  Min(s) \in s
<1> DEFINE T == {i \in 0..n : s \intersect (1..i) # {} =>
                                \E m \in s \intersect (1..i) : \A j \in s \intersect (1..i) : m <= j}
<1>1. 0 \in T
  OBVIOUS
<1>2. ASSUME NEW i \in 1..n, i - 1 \in T PROVE i \in T
  <2>1. CASE s \intersect (1..(i - 1)) = {}
    <3>1. \A j \in s \intersect (1..i) : j = i
      BY <2>1
    <3> QED
      BY <3>1
  <2>2. CASE s \intersect (1..(i - 1)) # {}
    <3>1. PICK m \in s \intersect (1..(i - 1)) : \A j \in s \intersect (1..(i - 1)) : m <= j
      BY <1>2, <2>2
    <3>2. \A j \in s \intersect (1..i) : m <= j
      BY <3>1
    <3> QED
      BY <3>1, <3>2
  <2> QED
    BY <2>1, <2>2
<1>3. n \in T
  <2> HIDE DEF T
  <2> QED
    BY <1>1, <1>2, PrefixInduction
<1>4. s \intersect (1..n) = s
  OBVIOUS
<1>5. \E m \in s : \A j \in s : m <= j
  BY <1>3, <1>4
<1> QED
  BY <1>5 DEF Min

\* A sequence has finitely many values.
LEMMA FiniteValues ==
    ASSUME NEW n \in Nat, NEW v
    PROVE  IsFiniteSet({v[i] : i \in 1..n})
<1> DEFINE S == 1..n
           R == {v[i] : i \in S}
           f == [i \in S |-> v[i]]
<1>1. f \in Surjection(S, R)
  BY DEF Surjection
<1>2. IsFiniteSet(S)
  BY FS_Interval
<1>3. IsFiniteSet(R)
  <2> HIDE DEF S, R, f
  <2> QED
    BY <1>1, <1>2, FS_Surjection
<1> QED
  BY <1>3

\* A fold over a sequence from its left: step[<<i, v>>] is what becomes of v
\* at place i.
Steps(n, V, base, step) ==
    n \in Nat /\ base \in V /\ step \in [(1..n) \X V -> V]

\* FoldLeft of the community modules folds the set of places, the last first.
LastPlaces(n) == [s \in SUBSET (1..n) |-> Max(s)]

\* h gives the fold over every prefix.
FoldPrefixes(h, n, V, base, step) ==
    /\ h \in [0..n -> V]
    /\ h[0] = base
    /\ \A i \in 1..n : h[i] = step[<<i, h[i - 1]>>]

\* Such a fold is a fold over the set of places.
LEMMA StepsFold ==
    ASSUME NEW n, NEW V, NEW base, NEW step, Steps(n, V, base, step)
    PROVE  Foldable(1..n, V, base, LastPlaces(n), step)
<1>1. \A s \in SUBSET (1..n) : s # {} => LastPlaces(n)[s] \in s
  BY PlacesHaveMax DEF LastPlaces, Steps
<1>2. IsFiniteSet(1..n)
  BY FS_Interval DEF Steps
<1> QED
  BY <1>1, <1>2 DEF Foldable, Steps

\* What FoldLeft computes is the last of the folds over the prefixes: a fact
\* about a fold is then an invariant of its steps.
LEMMA FoldHasPrefixes ==
    ASSUME NEW n, NEW V, NEW base, NEW step, NEW g, NEW c,
           Steps(n, V, base, step),
           Folds(g, 1..n, V, base, LastPlaces(n), step),
           Follows(c, 1..n, V, base, LastPlaces(n), step)
    PROVE  \E h : FoldPrefixes(h, n, V, base, step) /\ h[n] = c[1..n]
<1> DEFINE h == [i \in 0..n |-> g[1..i]]
<1>1. \A i \in 0..n : (1..i) \in SUBSET (1..n)
  BY DEF Steps
<1>2. h \in [0..n -> V]
  BY <1>1 DEF Folds
<1>3. h[0] = base
  <2>1. 1..0 = {} /\ 0 \in 0..n
    BY DEF Steps
  <2> QED
    BY <2>1 DEF Folds
<1>4. ASSUME NEW i \in 1..n PROVE h[i] = step[<<i, h[i - 1]>>]
  <2>1. n \in Nat /\ i \in 0..n /\ i - 1 \in 0..n /\ 1..i # {}
    BY DEF Steps
  <2>2. Max(1..i) \in 1..i /\ \A j \in 1..i : j <= Max(1..i)
    BY <1>1, <2>1, PlacesHaveMax
  <2>3. Max(1..i) = i
    BY <2>2
  <2>4. (1..i) \ {i} = 1..(i - 1)
    OBVIOUS
  <2>5. LastPlaces(n)[1..i] = i
    BY <1>1, <2>1, <2>3 DEF LastPlaces
  <2>6. g[1..i] = step[<<i, g[1..(i - 1)]>>]
    BY <1>1, <2>1, <2>4, <2>5 DEF Folds
  <2> QED
    BY <2>1, <2>6
<1>5. c[1..n] = g[1..n]
  <2>1. Foldable(1..n, V, base, LastPlaces(n), step)
    BY StepsFold
  <2> DEFINE S == 1..n
  <2>2. /\ Foldable(S, V, base, LastPlaces(n), step)
        /\ Folds(g, S, V, base, LastPlaces(n), step)
        /\ Follows(c, S, V, base, LastPlaces(n), step)
    BY <2>1
  <2>3. \A s \in SUBSET S : c[s] = g[s]
    <3> HIDE DEF S, h
    <3> QED
      BY <2>2, FoldUnique
  <2> QED
    BY <2>3
<1>6. h[n] = g[1..n]
  BY DEF Steps
<1>7. FoldPrefixes(h, n, V, base, step)
  BY <1>2, <1>3, <1>4 DEF FoldPrefixes
<1> HIDE DEF h
<1> QED
  BY <1>5, <1>6, <1>7

\* The sum of the amounts of P among the first i places.
UpTo(f, P, i) == TableSum(Restrict(f, P \intersect (1..i)))

\* No place adds nothing.
LEMMA UpToNone ==
    ASSUME NEW D, NEW f, Amounts(f, D), NEW P
    PROVE  UpTo(f, P, 0) = 0
<1>1. P \intersect (1..0) = {}
  OBVIOUS
<1> QED
  BY <1>1, PartSumEmpty DEF UpTo

\* It is a number.
LEMMA UpToNumber ==
    ASSUME NEW D, NEW f, Amounts(f, D), NEW P \in SUBSET D, NEW i
    PROVE  UpTo(f, P, i) \in Int
<1>1. P \intersect (1..i) \in SUBSET D
  OBVIOUS
<1> QED
  BY <1>1, PartSumNumber DEF UpTo

\* Place i adds its amount if it is one of P.
LEMMA UpToStep ==
    ASSUME NEW n \in Nat, NEW D \in SUBSET (1..n), NEW f, Amounts(f, D), NEW P \in SUBSET D,
           NEW i \in 1..n
    PROVE  UpTo(f, P, i) = UpTo(f, P, i - 1) + (IF i \in P THEN f[i] ELSE 0)
<1> DEFINE E == P \intersect (1..(i - 1))
           F == P \intersect (1..i)
<1>1. UpTo(f, P, i - 1) \in Int
  BY UpToNumber
<1>2. CASE i \in P
  <2>1. E \in SUBSET D /\ i \in D \ E /\ F = E \union {i} /\ f[i] \in Int
    BY <1>2 DEF Amounts
  <2>2. TableSum(Restrict(f, E \union {i})) = f[i] + TableSum(Restrict(f, E))
    <3> HIDE DEF E
    <3> QED
      BY <2>1, PartSumAdd
  <2>3. UpTo(f, P, i) = TableSum(Restrict(f, F)) /\ UpTo(f, P, i - 1) = TableSum(Restrict(f, E))
    BY DEF UpTo
  <2> DEFINE a == f[i]
             b == UpTo(f, P, i - 1)
  <2>4. UpTo(f, P, i) = a + b /\ a \in Int /\ b \in Int
    <3> HIDE DEF E, F
    <3> QED
      BY <1>1, <2>1, <2>2, <2>3
  <2> HIDE DEF a, b
  <2>5. UpTo(f, P, i) = b + a
    BY <2>4
  <2> QED
    BY <1>2, <2>5 DEF a, b
<1>3. CASE i \notin P
  <2>1. F = E
    BY <1>3
  <2>2. UpTo(f, P, i) = UpTo(f, P, i - 1)
    BY <2>1 DEF UpTo
  <2> QED
    BY <1>1, <1>3, <2>2
<1> QED
  BY <1>2, <1>3

\* After all places it is the whole sum.
LEMMA UpToAll ==
    ASSUME NEW n \in Nat, NEW f, NEW P \in SUBSET (1..n)
    PROVE  UpTo(f, P, n) = TableSum(Restrict(f, P))
<1>1. P \intersect (1..n) = P
  OBVIOUS
<1> QED
  BY <1>1 DEF UpTo

\* The sum of a sequence of amounts, added one by one.
Plus(f, n) == [p \in (1..n) \X Int |-> p[2] + f[p[1]]]

\* Adding one by one from the left gives the sum.
LEMMA PrefixesAddUp ==
    ASSUME NEW n \in Nat, NEW f, NEW h, Amounts(f, 1..n), FoldPrefixes(h, n, Int, 0, Plus(f, n))
    PROVE  h[n] = TableSum(f)
<1> DEFINE D == 1..n
           T == {i \in 0..n : h[i] = UpTo(f, D, i)}
<1>0. D \in SUBSET (1..n) /\ Amounts(f, D) /\ D \in SUBSET D
  OBVIOUS
<1>1. 0 \in T
  <2>1. UpTo(f, D, 0) = 0
    <3> HIDE DEF D
    <3> QED
      BY <1>0, UpToNone
  <2> QED
    BY <2>1 DEF FoldPrefixes
<1>2. ASSUME NEW i \in 1..n, i - 1 \in T PROVE i \in T
  <2>1. UpTo(f, D, i) = UpTo(f, D, i - 1) + (IF i \in D THEN f[i] ELSE 0)
    <3> HIDE DEF D
    <3> QED
      BY <1>0, UpToStep
  <2>2. h[i - 1] = UpTo(f, D, i - 1) /\ i - 1 \in 0..n /\ i \in 0..n /\ i \in D
    BY <1>2
  <2>3. h[i] = Plus(f, n)[<<i, h[i - 1]>>] /\ h[i - 1] \in Int
    BY <2>2 DEF FoldPrefixes
  <2>4. h[i] = h[i - 1] + f[i]
    BY <2>3 DEF Plus
  <2> QED
    BY <2>1, <2>2, <2>4
<1>3. n \in T
  <2> HIDE DEF T
  <2> QED
    BY <1>1, <1>2, PrefixInduction
<1>4. UpTo(f, D, n) = TableSum(Restrict(f, D)) /\ Restrict(f, D) = f
  <2> HIDE DEF D
  <2> QED
    BY <1>0, UpToAll, WholeIsPart
<1> QED
  BY <1>3, <1>4

-----------------------------------------------------------------------------
(***************************************************************************)
(* Tables: functions from some of the keys of K to values of A, as a dict  *)
(* that is filled entry by entry.                                          *)
(***************************************************************************)
Tables(K, A) == UNION {[D -> A] : D \in SUBSET K}

\* Being a table, by its keys and values.
LEMMA TableType ==
    ASSUME NEW K, NEW A, NEW t
    PROVE  t \in Tables(K, A) <=> DOMAIN t \in SUBSET K /\ t \in [DOMAIN t -> A]
<1>1. ASSUME t \in Tables(K, A) PROVE DOMAIN t \in SUBSET K /\ t \in [DOMAIN t -> A]
  <2>1. PICK D \in SUBSET K : t \in [D -> A]
    BY <1>1 DEF Tables
  <2> QED
    BY <2>1
<1> QED
  BY <1>1 DEF Tables

\* The empty dict is a table.
LEMMA EmptyTable ==
    ASSUME NEW K, NEW A
    PROVE  << >> \in Tables(K, A) /\ DOMAIN << >> = {}
<1>1. << >> \in [{} -> A] /\ DOMAIN << >> = {}
  OBVIOUS
<1> QED
  BY <1>1, TableType

\* table[k] = a
Puts(u, t, k, a) == u = [x \in DOMAIN t \union {k} |-> IF x = k THEN a ELSE t[x]]

\* A table with an entry put is a table.
LEMMA TablePut ==
    ASSUME NEW K, NEW A, NEW t \in Tables(K, A), NEW k \in K, NEW a \in A, NEW u, Puts(u, t, k, a)
    PROVE  u \in Tables(K, A)
<1>1. DOMAIN t \in SUBSET K /\ t \in [DOMAIN t -> A]
  BY TableType
<1>2. u = [x \in DOMAIN t \union {k} |-> IF x = k THEN a ELSE t[x]]
  BY DEF Puts
<1>3. DOMAIN u \in SUBSET K /\ u \in [DOMAIN u -> A]
  BY <1>1, <1>2
<1> QED
  BY <1>3, TableType

\* table[k] = table.get(k, 0) + a
LEMMA TableSumPut ==
    ASSUME NEW K, IsFiniteSet(K), NEW t \in Tables(K, Int), NEW k \in K, NEW a \in Int, NEW b \in Int,
           b = (IF k \in DOMAIN t THEN t[k] ELSE 0) + a, NEW u, Puts(u, t, k, b)
    PROVE  TableSum(u) = TableSum(t) + a
<1> DEFINE D == DOMAIN t
           E == D \ {k}
<1>1. D \in SUBSET K /\ t \in [D -> Int] /\ IsFiniteSet(D)
  BY TableType, FS_Subset
<1>2. DOMAIN u = E \union {k} /\ u[k] = b /\ (\A x \in E : u[x] = t[x]) /\ u \in Tables(K, Int)
  <2>1. u \in Tables(K, Int)
    BY TablePut
  <2>2. DOMAIN u = DOMAIN t \union {k} /\ u[k] = b /\ (\A x \in DOMAIN t : x # k => u[x] = t[x])
    BY DEF Puts
  <2> QED
    BY <2>1, <2>2
<1>3. Amounts(t, D) /\ Amounts(u, E \union {k})
  <2>1. u \in [DOMAIN u -> Int] /\ DOMAIN u \in SUBSET K
    BY <1>2, TableType
  <2>2. IsFiniteSet(DOMAIN u)
    BY <2>1, FS_Subset
  <2> QED
    BY <1>1, <1>2, <2>1, <2>2 DEF Amounts
<1>4. Restrict(u, E) = Restrict(t, E)
  BY <1>2 DEF Restrict
<1> DEFINE rest == TableSum(Restrict(t, E))
<1>5. TableSum(u) = b + rest
  <2>1. TableSum(Restrict(u, E \union {k})) = u[k] + TableSum(Restrict(u, E))
    <3>1. E \in SUBSET (E \union {k}) /\ k \in (E \union {k}) \ E
      OBVIOUS
    <3> HIDE DEF E
    <3> QED
      BY <1>3, <3>1, PartSumAdd
  <2>2. Restrict(u, E \union {k}) = u
    <3> HIDE DEF E
    <3> QED
      BY <1>3, WholeIsPart
  <2> QED
    BY <1>2, <1>4, <2>1, <2>2
<1>6. rest \in Int
  <2>1. E \in SUBSET D
    OBVIOUS
  <2> HIDE DEF D, E
  <2> QED
    BY <1>3, <2>1, PartSumNumber
<1>7. Restrict(t, D) = t
  <2> HIDE DEF D
  <2> QED
    BY <1>3, WholeIsPart
<1> HIDE DEF rest
<1>8. CASE k \in D
  <2>1. TableSum(Restrict(t, E \union {k})) = t[k] + rest
    <3>1. E \in SUBSET D /\ k \in D \ E
      BY <1>8
    <3> HIDE DEF D, E
    <3> QED
      BY <1>3, <3>1, PartSumAdd DEF rest
  <2>2. E \union {k} = D
    BY <1>8
  <2>3. TableSum(t) = t[k] + rest /\ t[k] \in Int /\ b = t[k] + a
    BY <1>1, <1>7, <1>8, <2>1, <2>2
  <2> QED
    BY <1>5, <1>6, <2>3
<1>9. CASE k \notin D
  <2>1. E = D /\ b = a
    BY <1>9
  <2>2. TableSum(t) = rest
    BY <1>7, <2>1 DEF rest
  <2> QED
    BY <1>5, <1>6, <2>1, <2>2
<1> QED
  BY <1>8, <1>9
=============================================================================
