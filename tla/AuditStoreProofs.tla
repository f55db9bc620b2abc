-------------------------- MODULE AuditStoreProofs --------------------------
(***************************************************************************)
(* Both audit stores implement AuditLog, for any rows and queries, as long *)
(* as the bounds SQLite is given are in UTC.  Three arguments carry it:    *)
(* isoformat() strings of UTC datetimes sort as the instants they denote;  *)
(* a store lists the rows a query matches in a strict order, so their      *)
(* positions are 0 .. n-1 each once; and a slice of positions is a page.   *)
(* And a walk over the log misses nothing and repeats no more than what    *)
(* arrived, for any filter, page size, clock and number of rows: an        *)
(* arrival pushes a row down by one at most, pruning leaves it in place.   *)
(***************************************************************************)
EXTENDS AuditPaging, FiniteSetTheorems, TLAPS

\* Bounds as Python makes them of "...Z" or "...+00:00".
UtcBound(b) == b.zone = 0 /\ b.aware

UtcQuery(q) ==
    /\ q.start # None => UtcBound(q.start)
    /\ q.end # None => UtcBound(q.end)

-----------------------------------------------------------------------------
(***************************************************************************)
(* Strings and instants.                                                   *)
(***************************************************************************)
LEMMA DivMod ==
    ASSUME NEW a \in Nat, NEW p \in Nat \ {0}
    PROVE  /\ a \div p \in Nat
           /\ a % p \in 0 .. p - 1
           /\ a = p * (a \div p) + (a % p)
  BY SMT

LEMMA Multiples ==
    ASSUME NEW p \in Nat \ {0}, NEW m \in Nat, NEW n \in Nat, m < n
    PROVE  p * m + p <= p * n
  <1>1. PICK d \in Nat : n = m + 1 + d
    BY SMT
  <1>2. p * n = p * m + p + p * d
    BY <1>1, SMT
  <1>3. p * d >= 0
    BY SMT
  <1> QED
    BY <1>2, <1>3, SMT

\* Comparing two isoformat() strings of UTC datetimes is comparing instants:
\* the fraction is left out when it is zero, and '+' sorts before '.'.
THEOREM StampOrder ==
    ASSUME NEW a \in Instants, NEW b \in Instants
    PROVE  AtMost(Stamp(a), Stamp(b)) <=> a <= b
  <1> DEFINE p  == PerSecond
             qa == a \div p
             ra == a % p
             qb == b \div p
             rb == b % p
  <1>1. a \in Nat /\ b \in Nat /\ p \in Nat \ {0}
    BY ClockAssumption
  <1>2. /\ qa \in Nat /\ ra \in 0 .. p - 1 /\ a = p * qa + ra
        /\ qb \in Nat /\ rb \in 0 .. p - 1 /\ b = p * qb + rb
    BY <1>1, DivMod
  <1>3. b < a <=> qb < qa \/ (qb = qa /\ rb < ra)
    <2>1. qb < qa => b < a
      <3> SUFFICES ASSUME qb < qa PROVE b < a
        OBVIOUS
      <3>1. p * qb + p <= p * qa
        BY <1>1, <1>2, Multiples
      <3> QED
        BY <3>1, <1>1, <1>2, SMT
    <2>2. qa < qb => a < b
      <3> SUFFICES ASSUME qa < qb PROVE a < b
        OBVIOUS
      <3>1. p * qa + p <= p * qb
        BY <1>1, <1>2, Multiples
      <3> QED
        BY <3>1, <1>1, <1>2, SMT
    <2>3. qa = qb => (b < a <=> rb < ra)
      BY <1>1, <1>2, SMT
    <2> QED
      BY <2>1, <2>2, <2>3, <1>1, <1>2, SMT
  <1>4. /\ Isoformat(Stamp(a)) = <<qa, IF ra = 0 THEN 1 ELSE 3, ra, 1, 0>>
        /\ Isoformat(Stamp(b)) = <<qb, IF rb = 0 THEN 1 ELSE 3, rb, 1, 0>>
    <2> HIDE DEF qa, qb, ra, rb
    <2>1. qa + 0 = qa /\ qb + 0 = qb
      BY <1>2, SMT
    <2> QED
      BY <2>1 DEF Isoformat, Stamp, OffsetMark, qa, qb, ra, rb
  <1>5. TextLess(Isoformat(Stamp(b)), Isoformat(Stamp(a))) <=>
            qb < qa \/ (qb = qa /\ rb < ra)
    <2> HIDE DEF qa, qb, ra, rb, p
    <2> QED
      BY <1>2, <1>4, SMTT(30) DEF TextLess
  <1> QED
    <2> HIDE DEF qa, qb, ra, rb, p
    <2> QED
      BY <1>1, <1>3, <1>5, SMT DEF AtMost, Stamp

\* A bound given in UTC is the stamp of its instant.
LEMMA UtcBoundIsStamp ==
    ASSUME NEW b \in Bounds, UtcBound(b)
    PROVE  b.utc \in Instants /\ b = Stamp(b.utc)
  BY DEF Bounds, UtcBound, Stamp

\* SQLite selects by strings what the protocol selects by instants.
LEMMA MatchesIsWithin ==
    ASSUME NEW q \in Queries, NEW r \in Row, UtcQuery(q)
    PROVE  Matches(q, r) <=> Promise!Within(q, r)
  <1>1. r.at \in Instants
    BY DEF Row
  <1>2. q.start # None =>
            (AtMost(q.start, Stamp(r.at)) <=> q.start.utc <= r.at)
    <2> SUFFICES ASSUME q.start # None
                 PROVE  AtMost(q.start, Stamp(r.at)) <=> q.start.utc <= r.at
      OBVIOUS
    <2>1. q.start \in Bounds /\ UtcBound(q.start)
      BY QueriesAssumption DEF UtcQuery, AuditQuery
    <2>2. q.start.utc \in Instants /\ q.start = Stamp(q.start.utc)
      BY <2>1, UtcBoundIsStamp
    <2>3. AtMost(Stamp(q.start.utc), Stamp(r.at)) <=> q.start.utc <= r.at
      BY <1>1, <2>2, StampOrder
    <2> QED
      BY <2>2, <2>3
  <1>3. q.end # None =>
            (AtMost(Stamp(r.at), q.end) <=> r.at <= q.end.utc)
    <2> SUFFICES ASSUME q.end # None
                 PROVE  AtMost(Stamp(r.at), q.end) <=> r.at <= q.end.utc
      OBVIOUS
    <2>1. q.end \in Bounds /\ UtcBound(q.end)
      BY QueriesAssumption DEF UtcQuery, AuditQuery
    <2>2. q.end.utc \in Instants /\ q.end = Stamp(q.end.utc)
      BY <2>1, UtcBoundIsStamp
    <2>3. AtMost(Stamp(r.at), Stamp(q.end.utc)) <=> r.at <= q.end.utc
      BY <1>1, <2>2, StampOrder
    <2> QED
      BY <2>2, <2>3
  <1> QED
    BY <1>2, <1>3 DEF Matches, Promise!Within

-----------------------------------------------------------------------------
(***************************************************************************)
(* Order and positions.                                                    *)
(***************************************************************************)
Matching(q) == {r \in table : Matches(q, r)}
Ahead(q, r) == {s \in table : Matches(q, s) /\ Before(q, s, r)}

\* Before() by instants, the ties by the order of insertion.
LEMMA BeforeByInstant ==
    ASSUME NEW q, NEW r \in Row, NEW s \in Row
    PROVE  Before(q, r, s) <=>
               \/ r.at > s.at
               \/ r.at = s.at /\ (IF OldestFirst(q) THEN r.id < s.id
                                                    ELSE r.id > s.id)
  <1>1. r.at \in Instants /\ s.at \in Instants
    BY DEF Row
  <1>2. AtMost(Stamp(r.at), Stamp(s.at)) <=> r.at <= s.at
    BY <1>1, StampOrder
  <1>3. r.at \in Nat /\ s.at \in Nat
    BY <1>1, ClockAssumption
  <1> QED
    BY <1>2, <1>3, SMT DEF Before

\* Before() is a strict order of the rows of a table.
LEMMA BeforeIsStrict ==
    ASSUME NEW q, NEW r \in Row, NEW s \in Row, NEW t \in Row
    PROVE  /\ ~Before(q, r, r)
           /\ Before(q, r, s) /\ Before(q, s, t) => Before(q, r, t)
           /\ r.id # s.id => Before(q, r, s) \/ Before(q, s, r)
           /\ Before(q, r, s) => r.at >= s.at
  <1>1. \A x \in Row : x.at \in Nat /\ x.id \in Nat
    <2> SUFFICES ASSUME NEW x \in Row PROVE x.at \in Nat /\ x.id \in Nat
      OBVIOUS
    <2>1. x.at \in Instants /\ x.id \in 1 .. MaxRows
      BY DEF Row
    <2>2. MaxRows \in Nat
      BY QueriesAssumption
    <2>3. x.at \in Nat
      BY <2>1, ClockAssumption
    <2>4. x.id \in Nat
      BY <2>1, <2>2, SMT
    <2> QED
      BY <2>3, <2>4
  <1> QED
    BY <1>1, BeforeByInstant, SMT

\* Ids are given once, so a table is no longer than the ids.
LEMMA IdsCount ==
    ASSUME NEW T \in SUBSET Row, \A r, s \in T : r.id = s.id => r = s
    PROVE  IsFiniteSet(T) /\ Cardinality(T) \in 0 .. MaxRows
  <1> DEFINE f == [r \in T |-> r.id]
  <1>1. f \in Injection(T, 1 .. MaxRows)
    <2>1. f \in [T -> 1 .. MaxRows]
      BY DEF Row
    <2>2. \A r, s \in T : f[r] = f[s] => r = s
      OBVIOUS
    <2> QED
      BY <2>1, <2>2 DEF Injection, IsInjective
  <1>2. IsFiniteSet(1 .. MaxRows) /\ Cardinality(1 .. MaxRows) = MaxRows
    BY QueriesAssumption, FS_Interval, SMT
  <1> HIDE DEF f
  <1>3. IsFiniteSet(T) /\ Cardinality(T) <= MaxRows
    BY <1>1, <1>2, FS_Injection
  <1> QED
    BY <1>3, FS_CardinalityType, QueriesAssumption, SMT

LEMMA TableFinite ==
    ASSUME TypeOK
    PROVE  IsFiniteSet(table) /\ Cardinality(table) \in 0 .. MaxRows
  <1>1. table \in SUBSET Row /\ \A r, s \in table : r.id = s.id => r = s
    BY DEF TypeOK
  <1> QED
    BY <1>1, IdsCount

\* What is ahead of an earlier row is ahead of a later one, and so is the
\* earlier row itself.
LEMMA AheadGrows ==
    ASSUME TypeOK, NEW q, NEW r \in Matching(q), NEW s \in Matching(q),
           Before(q, r, s)
    PROVE  Position(q, r) < Position(q, s)
  <1>1. r \in Row /\ s \in Row /\ table \subseteq Row
    BY DEF TypeOK, Matching
  <1>2. Ahead(q, r) \subseteq Ahead(q, s)
    BY <1>1, BeforeIsStrict DEF Ahead
  <1>3. r \in Ahead(q, s) \ Ahead(q, r)
    BY <1>1, BeforeIsStrict DEF Ahead, Matching
  <1>4. IsFiniteSet(Ahead(q, s)) /\ IsFiniteSet(Ahead(q, r))
    BY TableFinite, FS_Subset DEF Ahead
  <1>5. Cardinality(Ahead(q, r)) <= Cardinality(Ahead(q, s))
    BY <1>2, <1>4, FS_Subset
  <1>6. Cardinality(Ahead(q, r)) # Cardinality(Ahead(q, s))
    BY <1>2, <1>3, <1>4, FS_Subset
  <1>7. Cardinality(Ahead(q, r)) \in Nat /\ Cardinality(Ahead(q, s)) \in Nat
    BY <1>4, FS_CardinalityType
  <1> QED
    BY <1>5, <1>6, <1>7, SMT DEF Position, Ahead

\* The matching rows are listed at 0 .. n-1, one at each.
LEMMA PositionsAreBijective ==
    ASSUME TypeOK, NEW q
    PROVE  LET n == Cardinality(Matching(q))
           IN  /\ IsFiniteSet(Matching(q))
               /\ n \in Nat
               /\ [r \in Matching(q) |-> Position(q, r)]
                      \in Bijection(Matching(q), 0 .. n - 1)
  <1> DEFINE R == Matching(q)
             n == Cardinality(R)
             f == [r \in R |-> Position(q, r)]
  <1>1. IsFiniteSet(R) /\ n \in Nat
    BY TableFinite, FS_Subset, FS_CardinalityType DEF Matching
  <1>2. \A r \in R : Position(q, r) \in 0 .. n - 1
    <2> SUFFICES ASSUME NEW r \in R PROVE Position(q, r) \in 0 .. n - 1
      OBVIOUS
    <2>1. r \in Row
      BY DEF TypeOK, Matching
    <2>2. Ahead(q, r) \subseteq R \ {r}
      BY <2>1, BeforeIsStrict DEF Ahead, Matching
    <2>3. IsFiniteSet(R \ {r}) /\ Cardinality(R \ {r}) = n - 1
      BY <1>1, FS_RemoveElement
    <2>4. IsFiniteSet(Ahead(q, r)) /\ Cardinality(Ahead(q, r)) <= n - 1
      BY <2>2, <2>3, FS_Subset
    <2>5. Cardinality(Ahead(q, r)) \in Nat
      BY <2>4, FS_CardinalityType
    <2> HIDE DEF n, R
    <2> QED
      BY <1>1, <2>4, <2>5, SMT DEF Position, Ahead
  <1>3. \A r, s \in R : Position(q, r) = Position(q, s) => r = s
    <2> SUFFICES ASSUME NEW r \in R, NEW s \in R, r # s
                 PROVE  Position(q, r) # Position(q, s)
      OBVIOUS
    <2>1. r \in Row /\ s \in Row /\ r.id # s.id
      BY DEF TypeOK, Matching
    <2>2. Before(q, r, s) \/ Before(q, s, r)
      BY <2>1, BeforeIsStrict
    <2>3. Position(q, r) < Position(q, s) \/ Position(q, s) < Position(q, r)
      BY <2>2, AheadGrows
    <2>4. Position(q, r) \in Int /\ Position(q, s) \in Int
      BY <1>1, <1>2, SMT
    <2> QED
      BY <2>3, <2>4, SMT
  <1>4. f \in Injection(R, 0 .. n - 1)
    <2> HIDE DEF n, R
    <2>1. f \in [R -> 0 .. n - 1]
      BY <1>2
    <2> QED
      BY <2>1, <1>3 DEF Injection, IsInjective
  <1>5. IsFiniteSet(0 .. n - 1) /\ Cardinality(0 .. n - 1) = n
    <2> HIDE DEF n
    <2> QED
      BY <1>1, FS_Interval, SMT
  <1>6. f \in Surjection(R, 0 .. n - 1)
    <2> HIDE DEF f, R
    <2> QED
      BY <1>4, <1>5, FS_Injection
  <1> QED
    BY <1>1, <1>4, <1>6 DEF Bijection

LEMMA PositionsInRange ==
    ASSUME TypeOK, NEW q, NEW r \in Matching(q)
    PROVE  Position(q, r) \in 0 .. Cardinality(Matching(q)) - 1
  <1> DEFINE R == Matching(q)
             n == Cardinality(R)
             f == [x \in R |-> Position(q, x)]
  <1>1. f \in [R -> 0 .. n - 1]
    BY PositionsAreBijective DEF Bijection, Injection
  <1>2. f[r] \in 0 .. n - 1
    <2> HIDE DEF f, n
    <2> QED
      BY <1>1
  <1> QED
    BY <1>2

LEMMA PositionsDiffer ==
    ASSUME TypeOK, NEW q, NEW r \in Matching(q), NEW s \in Matching(q),
           Position(q, r) = Position(q, s)
    PROVE  r = s
  <1> DEFINE R == Matching(q)
             f == [x \in R |-> Position(q, x)]
  <1>1. \A x, y \in R : f[x] = f[y] => x = y
    BY PositionsAreBijective DEF Bijection, Injection, IsInjective
  <1> QED
    BY <1>1

\* A slice of the positions holds as many rows as it is long.
LEMMA SliceSize ==
    ASSUME TypeOK, NEW q, NEW a \in Nat, NEW b \in Nat,
           a <= b, b <= Cardinality(Matching(q))
    PROVE  LET S == {r \in Matching(q) : Position(q, r) \in a .. b - 1}
           IN  IsFiniteSet(S) /\ Cardinality(S) = b - a
  <1> DEFINE R == Matching(q)
             n == Cardinality(R)
             S == {r \in R : Position(q, r) \in a .. b - 1}
             f == [r \in R |-> Position(q, r)]
             g == [r \in S |-> Position(q, r)]
  <1>1. IsFiniteSet(R) /\ n \in Nat /\ f \in Bijection(R, 0 .. n - 1)
    BY PositionsAreBijective
  <1>2. \A r, s \in R : Position(q, r) = Position(q, s) => r = s
    <2> HIDE DEF R
    <2> QED
      BY <1>1 DEF Bijection, Injection, IsInjective
  <1>3. \A k \in 0 .. n - 1 : \E r \in R : Position(q, r) = k
    <2> HIDE DEF R, n
    <2> QED
      BY <1>1 DEF Bijection, Surjection
  <1>4. g \in Injection(S, a .. b - 1)
    <2>1. g \in [S -> a .. b - 1]
      OBVIOUS
    <2>2. \A r, s \in S : g[r] = g[s] => r = s
      BY <1>2
    <2> QED
      BY <2>1, <2>2 DEF Injection, IsInjective
  <1>5. g \in Surjection(S, a .. b - 1)
    <2>1. g \in [S -> a .. b - 1]
      OBVIOUS
    <2>2. a .. b - 1 \subseteq 0 .. n - 1
      <3> HIDE DEF n
      <3> QED
        BY <1>1, SMT DEF n
    <2>3. \A k \in a .. b - 1 : \E r \in S : g[r] = k
      BY <1>3, <2>2
    <2> QED
      BY <2>1, <2>3 DEF Surjection
  <1>6. IsFiniteSet(a .. b - 1) /\ Cardinality(a .. b - 1) = b - a
    <2>1. a \in Int /\ b - 1 \in Int
      BY SMT
    <2>2. /\ IsFiniteSet(a .. b - 1)
          /\ Cardinality(a .. b - 1) = IF a > b - 1 THEN 0 ELSE (b - 1) - a + 1
      BY <2>1, FS_Interval
    <2>3. a <= b
      OBVIOUS
    <2> HIDE DEF R, S, f, g
    <2> QED
      BY <2>2, <2>3, SMT
  <1> HIDE DEF g
  <1> QED
    BY <1>4, <1>5, <1>6, FS_Injection

-----------------------------------------------------------------------------
(***************************************************************************)
(* Pages.                                                                  *)
(***************************************************************************)
\* Rows listed at lower positions are at least as new.
LEMMA LowerIsNewer ==
    ASSUME TypeOK, NEW q, NEW r \in Matching(q), NEW s \in Matching(q),
           Position(q, r) < Position(q, s)
    PROVE  r.at >= s.at
  <1>1. r \in Row /\ s \in Row
    BY DEF TypeOK, Matching
  <1>2. Position(q, r) \in Int /\ Position(q, s) \in Int
    BY PositionsInRange
  <1>3. ~(Position(q, s) < Position(q, r)) /\ r # s
    BY <1>2, SMT
  <1>4. ~Before(q, s, r)
    BY <1>3, AheadGrows
  <1>5. r.id # s.id
    BY <1>3 DEF TypeOK, Matching
  <1> QED
    BY <1>1, <1>4, <1>5, BeforeIsStrict

\* The abstract module has a Cardinality of its own, which is the same.
LEMMA SameCardinality ==
    ASSUME NEW S
    PROVE  Promise!Cardinality(S) = Cardinality(S)
  BY DEF Promise!Cardinality, Cardinality

\* What query() returns is a page of the matching rows in the sense of the
\* protocol: the rows skipped are as new as any, and the page holds the newest
\* of the rest.
LEMMA PageIsPage ==
    ASSUME TypeOK, NEW q \in Queries
    PROVE  Promise!IsPage(Page(q), Matching(q), q.offset, q.limit)
  <1> DEFINE R == Matching(q)
             n == Cardinality(R)
             k == Promise!Least(q.offset, n)
             m == Promise!Least(q.offset + q.limit, n)
             skipped == {r \in R : Position(q, r) \in 0 .. k - 1}
             rest == R \ skipped
  <1>1. IsFiniteSet(R) /\ n \in Nat
    BY PositionsAreBijective
  <1>2. q.offset \in Nat /\ q.limit \in Nat \ {0}
    BY QueriesAssumption DEF AuditQuery
  <1>3. k \in Nat /\ m \in Nat /\ k <= m /\ m <= n
    <2> HIDE DEF n, R
    <2> QED
      BY <1>1, <1>2, SMT DEF Promise!Least
  <1>4. \A r \in R : Position(q, r) \in 0 .. n - 1
    BY PositionsInRange
  <1>5. Page(q) = {r \in R : Position(q, r) \in k .. m - 1}
    <2>1. \A r \in R : Position(q, r) \in q.offset .. q.offset + q.limit - 1
                           <=> Position(q, r) \in k .. m - 1
      <3> HIDE DEF n, R
      <3> QED
        BY <1>1, <1>2, <1>4, SMT DEF Promise!Least
    <2> HIDE DEF k, m, n
    <2> QED
      BY <2>1 DEF Page, Matching
  <1>6. IsFiniteSet(skipped) /\ Cardinality(skipped) = k
    <2>1. 0 \in Nat /\ 0 <= k /\ k <= n /\ k - 0 = k
      <3> HIDE DEF k, m, n
      <3> QED
        BY <1>1, <1>3, SMT
    <2> HIDE DEF k
    <2> QED
      BY <1>3, <2>1, SliceSize
  <1>7. Cardinality(Page(q)) = m - k
    <2> HIDE DEF k, m
    <2> QED
      BY <1>3, <1>5, SliceSize
  <1>8. Promise!Newest(skipped, R)
    <2> SUFFICES ASSUME NEW r \in skipped, NEW s \in R \ skipped
                 PROVE  r.at >= s.at
      BY DEF Promise!Newest
    <2>1. Position(q, r) < Position(q, s)
      <3> HIDE DEF k, m, n, R
      <3> QED
        BY <1>1, <1>3, <1>4, SMT
    <2> QED
      BY <2>1, LowerIsNewer
  <1>9. Page(q) \subseteq rest
    <2> HIDE DEF k, m, n, R
    <2> QED
      BY <1>1, <1>3, <1>4, <1>5, SMT
  <1>10. Promise!Newest(Page(q), rest)
    <2> SUFFICES ASSUME NEW r \in Page(q), NEW s \in rest \ Page(q)
                 PROVE  r.at >= s.at
      BY DEF Promise!Newest
    <2>1. r \in R /\ s \in R
      BY <1>9
    <2>2. Position(q, r) < Position(q, s)
      <3> HIDE DEF k, m, n, R
      <3> QED
        BY <2>1, <1>1, <1>3, <1>4, <1>5, SMT
    <2> QED
      BY <2>1, <2>2, LowerIsNewer
  <1>11. Cardinality(rest) = n - k
    <2>1. R \intersect skipped = skipped
      OBVIOUS
    <2> HIDE DEF k, R, skipped
    <2> QED
      BY <1>1, <1>6, <2>1, FS_Difference
  <1>12. Cardinality(Page(q)) = Promise!Least(q.limit, Cardinality(rest))
    <2> HIDE DEF n, R, rest
    <2> QED
      BY <1>1, <1>2, <1>7, <1>11, SMT DEF Promise!Least
  <1> HIDE DEF n, k, m, skipped, rest
  <1> SUFFICES \E S \in SUBSET R :
                   /\ Promise!Newest(S, R)
                   /\ Cardinality(S) = Promise!Least(q.offset, Cardinality(R))
                   /\ Page(q) \subseteq R \ S
                   /\ Promise!Newest(Page(q), R \ S)
                   /\ Cardinality(Page(q)) =
                          Promise!Least(q.limit, Cardinality(R \ S))
    BY SameCardinality DEF Promise!IsPage
  <1>13. skipped \in SUBSET R
    BY DEF skipped
  <1> WITNESS skipped \in SUBSET R
  <1> QED
    BY <1>6, <1>8, <1>9, <1>10, <1>12 DEF k, n, rest

-----------------------------------------------------------------------------
(***************************************************************************)
(* Type correctness.                                                       *)
(***************************************************************************)
LEMMA InsertKeepsRows ==
    ASSUME TypeOK, NEW at \in Instants, NEW c \in Callers, Insert(at, c)
    PROVE  /\ last + 1 \in 1 .. MaxRows
           /\ last' = last + 1
           /\ \A r \in table : r.id # last + 1
           /\ table' \subseteq Row
           /\ \A r, s \in table' : r.id <= last' /\ (r.id = s.id => r = s)
  <1> DEFINE new == [id |-> last + 1, at |-> at, caller |-> c]
  <1>1. /\ last \in Nat /\ last < MaxRows /\ last' = last + 1
        /\ table' = table \union {new}
    BY QueriesAssumption, SMT DEF TypeOK, Insert
  <1>2. last + 1 \in 1 .. MaxRows
    BY <1>1, QueriesAssumption, SMT
  <1>3. \A r \in table : r.id \in Int /\ r.id <= last
    BY DEF TypeOK, Row
  <1>4. \A r \in table : r.id # last + 1
    BY <1>1, <1>3, SMT
  <1>5. new \in Row /\ new.id = last + 1
    BY <1>2 DEF Row
  <1>6. table' \subseteq Row
    BY <1>1, <1>5 DEF TypeOK
  <1>7. \A r \in table' : r.id <= last'
    <2> HIDE DEF new
    <2> QED
      BY <1>1, <1>3, <1>5, SMT
  <1>8. \A r, s \in table' : r.id = s.id => r = s
    <2> HIDE DEF new
    <2> QED
      BY <1>1, <1>4, <1>5 DEF TypeOK
  <1> QED
    BY <1>1, <1>2, <1>4, <1>6, <1>7, <1>8

LEMMA PruneKeepsRows ==
    ASSUME TypeOK, table' \subseteq table
    PROVE  /\ table' \subseteq Row
           /\ \A r, s \in table' : r.id <= last /\ (r.id = s.id => r = s)
           /\ Cardinality(table \ table') \in 0 .. MaxRows
  <1>1. table \ table' \in SUBSET table
    OBVIOUS
  <1>2. /\ IsFiniteSet(table \ table')
        /\ Cardinality(table \ table') <= Cardinality(table)
    BY <1>1, TableFinite, FS_Subset
  <1>3. Cardinality(table \ table') \in Nat
    BY <1>2, FS_CardinalityType
  <1>4. Cardinality(table \ table') \in 0 .. MaxRows
    BY <1>2, <1>3, TableFinite, QueriesAssumption, SMT
  <1> QED
    BY <1>4 DEF TypeOK

LEMMA StoreTypeStep ==
    ASSUME TypeOK, [Next]_store
    PROVE  TypeOK'
  <1>1. ASSUME NEW at \in Instants, NEW c \in Callers, Write(at, c)
        PROVE  TypeOK'
    <2>1. result' = [op |-> "write"] /\ closed' = closed /\ Insert(at, c)
      BY <1>1 DEF Write
    <2>2. last' \in 0 .. MaxRows
      BY <2>1, InsertKeepsRows, SMT
    <2> QED
      BY <2>1, <2>2, InsertKeepsRows DEF TypeOK
  <1>2. ASSUME NEW q \in Queries, Query(q)
        PROVE  TypeOK'
    BY <1>2 DEF TypeOK, Query, Page
  <1>3. ASSUME NEW cutoff \in Instants, Prune(cutoff)
        PROVE  TypeOK'
    <2>1. /\ result' = [op |-> "prune", count |-> Cardinality(table \ table')]
          /\ closed' = closed /\ last' = last /\ table' \subseteq table
      BY <1>3 DEF Prune
    <2> QED
      BY <2>1, PruneKeepsRows DEF TypeOK
  <1>4. ASSUME NEW q \in Queries \union {None}, Raise(q)
        PROVE  TypeOK'
    BY <1>4 DEF TypeOK, Raise
  <1>5. CASE Aclose
    BY <1>5 DEF TypeOK, Aclose
  <1>6. CASE UNCHANGED store
    BY <1>6 DEF TypeOK, store
  <1> QED
    BY <1>1, <1>2, <1>3, <1>4, <1>5, <1>6 DEF Next

LEMMA StoreTypeInit ==
    ASSUME Init
    PROVE  TypeOK
  <1>1. 0 \in 0 .. MaxRows
    BY QueriesAssumption, SMT
  <1> QED
    BY <1>1 DEF Init, TypeOK

\* The store's ids are given once, and its results are well formed, for any
\* clock, callers and queries.
THEOREM TypeCorrect == Spec => []TypeOK
  <1>1. Init => TypeOK
    BY StoreTypeInit
  <1>2. TypeOK /\ [Next]_store => TypeOK'
    BY StoreTypeStep
  <1> QED
    BY <1>1, <1>2, PTL DEF Spec

-----------------------------------------------------------------------------
(***************************************************************************)
(* The refinement.                                                         *)
(***************************************************************************)
\* Every operation of either store is one the protocol allows, with the result
\* the protocol allows.
LEMMA StoreStepIsLogStep ==
    ASSUME TypeOK, [Next]_store,
           Backend = "sqlite" => \A q \in Queries : UtcQuery(q)
    PROVE  [Promise!Next]_<<table, closed, result>>
  <1>1. ASSUME NEW at \in Instants, NEW c \in Callers, Write(at, c)
        PROVE  Promise!Write
    <2>1. Insert(at, c) /\ result' = [op |-> "write"] /\ closed' = closed
      BY <1>1 DEF Write
    <2>2. last + 1 \in (1 .. MaxRows) \ {r.id : r \in table}
      BY <2>1, InsertKeepsRows
    <2>3. table' = table \union {[id |-> last + 1, at |-> at, caller |-> c]}
      BY <2>1 DEF Insert
    <2> QED
      BY <2>1, <2>2, <2>3 DEF Promise!Write
  <1>2. ASSUME NEW q \in Queries, Query(q)
        PROVE  Promise!Query
    <2>1. /\ ~ComparisonRaises(q) /\ table' = table /\ closed' = closed
          /\ result' = [op |-> "page", query |-> q, rows |-> Page(q)]
      BY <1>2 DEF Query
    <2>2. \A r \in table : Matches(q, r) <=> Promise!Within(q, r)
      <3>1. CASE Backend = "sqlite"
        BY <3>1, MatchesIsWithin DEF TypeOK
      <3>2. CASE Backend = "memory"
        BY <3>2 DEF Matches, Promise!Within, AtMost, Stamp
      <3> QED
        BY <3>1, <3>2, BackendAssumption
    <2>3. Matching(q) = {r \in table : Promise!Within(q, r)}
      BY <2>2 DEF Matching
    <2>4. Promise!IsPage(Page(q), {r \in table : Promise!Within(q, r)},
                         q.offset, q.limit)
      BY <2>3, PageIsPage
    <2>5. Page(q) \in SUBSET table
      BY DEF Page
    <2>6. result' \in [op : {"page"}, query : Queries, rows : SUBSET table]
      BY <2>1, <2>5
    <2>7. result'.query = q /\ result'.rows = Page(q)
      BY <2>1
    <2> QED
      BY <2>1, <2>4, <2>6, <2>7 DEF Promise!Query
  <1>3. ASSUME NEW cutoff \in Instants, Prune(cutoff)
        PROVE  Promise!Prune
    <2>1. /\ result' = [op |-> "prune", count |-> Cardinality(table \ table')]
          /\ table' = {r \in table : AtMost(Stamp(cutoff), Stamp(r.at))}
          /\ closed' = closed
      BY <1>3 DEF Prune
    <2>2. \A r \in table : AtMost(Stamp(cutoff), Stamp(r.at)) <=> r.at >= cutoff
      <3> SUFFICES ASSUME NEW r \in table
                   PROVE  AtMost(Stamp(cutoff), Stamp(r.at)) <=> r.at >= cutoff
        OBVIOUS
      <3>1. r.at \in Instants
        BY DEF TypeOK, Row
      <3>2. cutoff \in Nat /\ r.at \in Nat
        BY <3>1, ClockAssumption
      <3> QED
        BY <3>1, <3>2, StampOrder, SMT
    <2>3. table' = {r \in table : r.at >= cutoff}
      BY <2>1, <2>2
    <2> QED
      BY <2>1, <2>3, SameCardinality DEF Promise!Prune
  <1>4. ASSUME NEW q \in Queries \union {None}, Raise(q)
        PROVE  Promise!Refuse
    <2>1. result' = [op |-> "raise", query |-> q] /\ table' = table /\ closed' = closed
      BY <1>4 DEF Raise
    <2>2. closed \/ (q # None /\ Promise!HasNaiveBound(q))
      BY <1>4 DEF Raise, Unusable, ComparisonRaises, Promise!HasNaiveBound
    <2> QED
      BY <2>1, <2>2 DEF Promise!Refuse
  <1>5. CASE Aclose
    BY <1>5 DEF Aclose, Promise!Next, Promise!Close
  <1>6. CASE UNCHANGED store
    BY <1>6 DEF store
  <1> QED
    BY <1>1, <1>2, <1>3, <1>4, <1>5, <1>6 DEF Next, Promise!Next

\* Both stores implement the protocol: the in-memory one for every query, the
\* SQLite one for queries whose bounds are in UTC.
THEOREM StoreImplementsLog ==
    ASSUME Backend = "sqlite" => \A q \in Queries : UtcQuery(q)
    PROVE  Spec => ImplementsAuditLog
  <1>1. Init => Promise!Init
    BY DEF Init, Promise!Init
  <1>2. TypeOK /\ [Next]_store => [Promise!Next]_<<table, closed, result>>
    BY StoreStepIsLogStep
  <1> QED
    BY <1>1, <1>2, TypeCorrect, PTL DEF Spec, ImplementsAuditLog, Promise!Spec

-----------------------------------------------------------------------------
(***************************************************************************)
(* Walks.                                                                  *)
(***************************************************************************)
AheadIn(T, q, r) == {s \in T : Matches(q, s) /\ Before(q, s, r)}

SameFilter(p, q) == p.start = q.start /\ p.end = q.end /\ p.caller = q.caller

-----------------------------------------------------------------------------
(***************************************************************************)
(* Positions in a changing table.                                          *)
(***************************************************************************)
LEMMA FilterDecides ==
    ASSUME NEW p, NEW q, SameFilter(p, q)
    PROVE  /\ \A r : Matches(p, r) <=> Matches(q, r)
           /\ \A T, r : AheadIn(T, p, r) = AheadIn(T, q, r)
  <1>1. \A r : Matches(p, r) <=> Matches(q, r)
    BY DEF SameFilter, Matches
  <1>2. \A r, s : Before(p, r, s) <=> Before(q, r, s)
    BY DEF SameFilter, Before, OldestFirst
  <1> QED
    BY <1>1, <1>2 DEF AheadIn

LEMMA ArrivalShifts ==
    ASSUME NEW T, IsFiniteSet(T), NEW x, NEW q, NEW r
    PROVE  LET before == Cardinality(AheadIn(T, q, r))
               after  == Cardinality(AheadIn(T \union {x}, q, r))
           IN  /\ before \in Nat
               /\ after \in before .. before + 1
               /\ ~Matches(q, x) => after = before
  <1> DEFINE A == AheadIn(T, q, r)
             B == AheadIn(T \union {x}, q, r)
  <1>1. IsFiniteSet(A) /\ Cardinality(A) \in Nat
    BY FS_Subset, FS_CardinalityType DEF AheadIn
  <1>2. B = A \/ B = A \union {x}
    BY DEF AheadIn
  <1>3. ~Matches(q, x) => B = A
    BY DEF AheadIn
  <1>4. Cardinality(A \union {x}) \in {Cardinality(A), Cardinality(A) + 1}
    <2> HIDE DEF A
    <2> QED
      BY <1>1, FS_AddElement
  <1>5. /\ Cardinality(A) \in Nat
        /\ Cardinality(B) \in Cardinality(A) .. Cardinality(A) + 1
        /\ ~Matches(q, x) => Cardinality(B) = Cardinality(A)
    <2> HIDE DEF A, B
    <2> QED
      BY <1>1, <1>2, <1>3, <1>4, SMT
  <1> QED
    BY <1>5

LEMMA PruningKeeps ==
    ASSUME NEW T \in SUBSET Row, NEW cutoff \in Instants, NEW q,
           NEW r \in {s \in T : AtMost(Stamp(cutoff), Stamp(s.at))}
    PROVE  AheadIn({s \in T : AtMost(Stamp(cutoff), Stamp(s.at))}, q, r)
               = AheadIn(T, q, r)
  <1> SUFFICES ASSUME NEW s \in T, Before(q, s, r)
               PROVE  AtMost(Stamp(cutoff), Stamp(s.at))
    BY DEF AheadIn
  <1>1. /\ r \in Row /\ s \in Row
        /\ r.at \in Instants /\ s.at \in Instants
    BY DEF Row
  <1>2. s.at >= r.at
    BY <1>1, BeforeIsStrict
  <1>3. cutoff <= r.at
    BY <1>1, StampOrder
  <1>4. cutoff \in Nat /\ r.at \in Nat /\ s.at \in Nat
    BY <1>1, ClockAssumption
  <1>5. cutoff <= s.at
    BY <1>2, <1>3, <1>4, SMT
  <1> QED
    BY <1>1, <1>5, StampOrder

LEMMA PositionIsAhead ==
    ASSUME NEW q, NEW r
    PROVE  Position(q, r) = Cardinality(AheadIn(table, q, r))
  BY DEF Position, AheadIn

-----------------------------------------------------------------------------
(***************************************************************************)
(* What a page holds.                                                      *)
(***************************************************************************)
LEMMA PageRows ==
    ASSUME PagingTypeOK
    PROVE  /\ Page(query) \subseteq table
           /\ Page(query) \subseteq Row
           /\ \A r \in Page(query) :
                  /\ Matches(query, r)
                  /\ Position(query, r) \in query.offset ..
                                            query.offset + query.limit - 1
  BY DEF PagingTypeOK, TypeOK, Page

\* A page that is not full is the last: no row matches beyond it.
LEMMA ShortPageIsLast ==
    ASSUME PagingTypeOK, Cardinality(Page(query)) # query.limit
    PROVE  \A r \in Matching(query) :
               Position(query, r) < query.offset + query.limit
  <1> DEFINE n == Cardinality(Matching(query))
             o == query.offset
             l == query.limit
  <1>1. TypeOK /\ o \in Nat /\ l \in Nat \ {0}
    BY DEF PagingTypeOK, AuditQuery
  <1> SUFFICES ASSUME NEW r \in Matching(query), ~(Position(query, r) < o + l)
               PROVE  FALSE
    OBVIOUS
  <1>2. n \in Nat /\ Position(query, r) \in 0 .. n - 1
    BY <1>1, PositionsAreBijective, PositionsInRange
  <1>3. o \in Nat /\ o + l \in Nat /\ o <= o + l /\ o + l <= n
    <2> HIDE DEF n, o, l
    <2> QED
      BY <1>1, <1>2, SMT
  <1>4. Page(query) = {s \in Matching(query) :
                           Position(query, s) \in o .. (o + l) - 1}
    <2>1. o + l - 1 = (o + l) - 1
      <3> HIDE DEF o, l
      <3> QED
        BY <1>1, SMT
    <2>2. Page(query) = {s \in table : /\ Matches(query, s)
                                      /\ Position(query, s) \in o .. o + l - 1}
      BY DEF Page
    <2> HIDE DEF o, l
    <2> QED
      BY <2>1, <2>2, Zenon DEF Matching
  <1>5. Cardinality(Page(query)) = (o + l) - o
    <2> HIDE DEF o, l
    <2> QED
      BY <1>1, <1>3, <1>4, SliceSize
  <1>6. Cardinality(Page(query)) = l
    <2> HIDE DEF o, l
    <2> QED
      BY <1>1, <1>5, SMT
  <1> QED
    BY <1>6

-----------------------------------------------------------------------------
(***************************************************************************)
(* Type correctness.                                                       *)
(***************************************************************************)
\* A row that arrives is new to the table and to the walk.
LEMMA ArrivalIsNew ==
    ASSUME PagingTypeOK,
           NEW at \in Instants, NEW c \in Callers, RowArrives(at, c)
    PROVE  /\ TypeOK'
           /\ \A r \in owed \union shown : r.id <= last'
           /\ arrivals' \in Nat
           /\ \E x : /\ table' = table \union {x}
                     /\ x \notin table \union owed \union shown
                     /\ arrivals' = IF walk # "none" /\ Matches(query, x)
                                    THEN arrivals + 1 ELSE arrivals
  <1> DEFINE x == [id |-> last + 1, at |-> at, caller |-> c]
  <1>1. /\ Insert(at, c) /\ closed' = closed /\ result' = result
        /\ arrivals' = IF walk # "none" /\ \E r \in table' \ table : Matches(query, r)
                       THEN arrivals + 1 ELSE arrivals
    BY DEF RowArrives
  <1>2. TypeOK /\ last \in Nat /\ arrivals \in Nat
    BY QueriesAssumption, SMT DEF PagingTypeOK, TypeOK
  <1>3. /\ last + 1 \in 1 .. MaxRows /\ last' = last + 1
        /\ \A r \in table : r.id # last + 1
        /\ table' \subseteq Row
        /\ \A r, s \in table' : r.id <= last' /\ (r.id = s.id => r = s)
    BY <1>1, <1>2, InsertKeepsRows
  <1>4. last' \in 0 .. MaxRows
    BY <1>3, SMT
  <1>5. TypeOK'
    BY <1>1, <1>2, <1>3, <1>4 DEF TypeOK
  <1>6. \A r \in owed \union shown : r.id \in Int /\ r.id <= last
    BY DEF PagingTypeOK, Row
  <1>7. \A r \in owed \union shown : r.id <= last' /\ r.id # last + 1
    BY <1>2, <1>3, <1>6, SMT
  <1>8. table' = table \union {x} /\ x.id = last + 1
    BY <1>1 DEF Insert
  <1> HIDE DEF x
  <1>9. x \notin table \union owed \union shown
    BY <1>3, <1>7, <1>8
  <1>10. table' \ table = {x}
    BY <1>8, <1>9
  <1>11. arrivals' = IF walk # "none" /\ Matches(query, x)
                    THEN arrivals + 1 ELSE arrivals
    BY <1>1, <1>10
  <1>12. arrivals' \in Nat
    BY <1>2, <1>11, SMT
  <1> QED
    BY <1>5, <1>7, <1>8, <1>9, <1>11, <1>12

LEMMA PagingTypeInit ==
    ASSUME PagingInit
    PROVE  PagingTypeOK
  <1>1. TypeOK
    BY StoreTypeInit DEF PagingInit
  <1>2. query \in AuditQuery /\ query.offset = 0
    BY WalkAssumption, QueriesAssumption DEF PagingInit
  <1> QED
    BY <1>1, <1>2 DEF PagingInit, PagingTypeOK

LEMMA PagingTypeStep ==
    ASSUME PagingTypeOK, [PagingNext]_vars
    PROVE  PagingTypeOK'
  <1>1. CASE OtherCall
    <2>1. PICK at \in Instants, c \in Callers : RowArrives(at, c)
      BY <1>1 DEF OtherCall
    <2> QED
      BY <1>1, <2>1, ArrivalIsNew DEF OtherCall, PagingTypeOK, pages
  <1>2. CASE Retention
    <2>1. /\ table' \subseteq table
          /\ UNCHANGED <<last, closed, result, walk, pages, arrivals>>
      BY <1>2 DEF Retention
    <2>2. TypeOK'
      BY <2>1, PruneKeepsRows DEF PagingTypeOK, TypeOK
    <2> QED
      BY <2>1, <2>2 DEF PagingTypeOK, pages
  <1>3. CASE BeginWalk
    <2>1. /\ UNCHANGED <<store, query, next_offset, shown, repeats, arrivals>>
          /\ walk' = "asking" /\ owed' = {r \in table : Matches(query, r)}
      BY <1>3 DEF BeginWalk
    <2>2. TypeOK'
      BY <2>1 DEF PagingTypeOK, TypeOK, store
    <2> QED
      BY <2>1, <2>2 DEF PagingTypeOK, TypeOK, store
  <1>4. CASE ReadPage
    <2>1. /\ UNCHANGED <<store, query, owed, arrivals>>
          /\ shown' = shown \union Page(query)
          /\ repeats' = repeats + Cardinality(Page(query) \intersect shown)
          /\ next_offset' = NextOffset(Page(query))
          /\ walk' = "answered"
      BY <1>4 DEF ReadPage
    <2>2. TypeOK'
      BY <2>1 DEF PagingTypeOK, TypeOK, store
    <2>3. IsFiniteSet(Page(query)) /\ Cardinality(Page(query)) \in Nat
      BY PageRows, TableFinite, FS_Subset, FS_CardinalityType DEF PagingTypeOK
    <2>4. Cardinality(Page(query) \intersect shown) \in Nat
      BY <2>3, FS_Intersection, FS_CardinalityType
    <2>5. repeats' \in Nat
      BY <2>1, <2>4, SMT DEF PagingTypeOK
    <2>6. next_offset' \in Nat \union {None}
      <3>1. query.offset \in Nat
        BY DEF PagingTypeOK, AuditQuery
      <3>2. query.offset + Cardinality(Page(query)) \in Nat
        BY <3>1, <2>3, SMT
      <3> QED
        BY <2>1, <3>2 DEF NextOffset
    <2>7. \A r \in owed' \union shown' : Matches(query', r) /\ r.id <= last'
      BY <2>1, PageRows DEF PagingTypeOK, TypeOK, store
    <2>8. owed' \union shown' \subseteq Row
      BY <2>1, PageRows DEF PagingTypeOK
    <2> QED
      BY <2>1, <2>2, <2>5, <2>6, <2>7, <2>8 DEF PagingTypeOK
  <1>5. CASE FollowNextOffset
    <2>1. /\ UNCHANGED <<next_offset, shown, owed, repeats>>
          /\ \/ \E at \in Instants : RowArrives(at, Operator)
             \/ UNCHANGED <<store, arrivals>>
          /\ \/ walk' = "done" /\ query' = query
             \/ /\ next_offset # None /\ walk' = "asking"
                /\ query' = [query EXCEPT !.offset = next_offset]
      BY <1>5 DEF FollowNextOffset
    <2>2. /\ TypeOK' /\ arrivals' \in Nat
          /\ \A r \in owed \union shown : r.id <= last'
      <3>1. CASE \E at \in Instants : RowArrives(at, Operator)
        BY <3>1, ArrivalIsNew, WalkAssumption
      <3>2. CASE UNCHANGED <<store, arrivals>>
        BY <3>2 DEF PagingTypeOK, TypeOK, store
      <3> QED
        BY <2>1, <3>1, <3>2
    <2>3. query' \in AuditQuery /\ SameFilter(query', query)
      BY <2>1 DEF PagingTypeOK, AuditQuery, SameFilter
    <2>4. \A r \in owed \union shown : Matches(query', r)
      BY <2>3, FilterDecides DEF PagingTypeOK
    <2> QED
      BY <2>1, <2>2, <2>3, <2>4 DEF PagingTypeOK
  <1>6. CASE UNCHANGED vars
    BY <1>6 DEF PagingTypeOK, TypeOK, vars, store, pages
  <1> QED
    BY <1>1, <1>2, <1>3, <1>4, <1>5, <1>6 DEF PagingNext

-----------------------------------------------------------------------------
(***************************************************************************)
(* Nothing is missed.                                                      *)
(***************************************************************************)
\* An arrival moves a row by one at most, and only if the filter matches it.
LEMMA ArrivalMoves ==
    ASSUME PagingTypeOK, NEW x, table' = table \union {x},
           SameFilter(query', query), NEW r
    PROVE  /\ Position(query, r) \in Nat
           /\ Position(query, r)' \in Position(query, r) .. Position(query, r) + 1
           /\ ~Matches(query, x) => Position(query, r)' = Position(query, r)
  <1>1. IsFiniteSet(table)
    BY TableFinite DEF PagingTypeOK
  <1>2. Position(query, r) = Cardinality(AheadIn(table, query, r))
    BY DEF Position, AheadIn
  <1>3. Position(query, r)' = Cardinality(AheadIn(table', query', r))
    BY DEF Position, AheadIn
  <1>4. AheadIn(table', query', r) = AheadIn(table \union {x}, query, r)
    BY FilterDecides
  <1> QED
    BY <1>1, <1>2, <1>3, <1>4, ArrivalShifts

\* Pruning moves no row that it leaves.
LEMMA RetentionMovesNone ==
    ASSUME PagingTypeOK, Retention, NEW r \in table'
    PROVE  Position(query, r)' = Position(query, r)
  <1>1. PICK cutoff \in Instants :
            table' = {s \in table : AtMost(Stamp(cutoff), Stamp(s.at))}
    BY DEF Retention
  <1>2. query' = query
    BY DEF Retention, pages
  <1>3. AheadIn(table', query, r) = AheadIn(table, query, r)
    BY <1>1, PruningKeeps DEF PagingTypeOK, TypeOK
  <1>4. Position(query, r)' = Cardinality(AheadIn(table', query', r))
    BY DEF Position, AheadIn
  <1> QED
    BY <1>2, <1>3, <1>4, PositionIsAhead

\* Where the walk goes next is a number as long as it goes on.
LEMMA FromIsNumber ==
    ASSUME PagingTypeOK, ~Ended
    PROVE  From \in Nat
  BY DEF PagingTypeOK, Ended, From, AuditQuery

\* The operator's next move changes neither the filter nor where the walk is.
LEMMA FollowKeepsPlace ==
    ASSUME PagingTypeOK, FollowNextOffset
    PROVE  /\ UNCHANGED <<shown, owed, repeats>>
           /\ SameFilter(query', query)
           /\ Ended' <=> Ended
           /\ ~Ended => From' = From
  <1>1. /\ walk = "answered" /\ UNCHANGED <<next_offset, shown, owed, repeats>>
        /\ \/ next_offset = None /\ walk' = "done" /\ query' = query
           \/ /\ next_offset # None /\ walk' = "asking"
              /\ query' = [query EXCEPT !.offset = next_offset]
    BY DEF FollowNextOffset
  <1>2. query \in AuditQuery
    BY DEF PagingTypeOK
  <1>3. CASE next_offset = None
    BY <1>1, <1>3 DEF Ended, SameFilter
  <1>4. CASE next_offset # None
    <2>1. /\ SameFilter(query', query)
          /\ query'.offset = next_offset
      BY <1>1, <1>2, <1>4 DEF SameFilter, AuditQuery
    <2> QED
      BY <1>1, <1>4, <2>1 DEF Ended, From
  <1> QED
    BY <1>1, <1>3, <1>4

\* A page shows all that is owed up to where the walk goes next.
LEMMA ReadPageAdvances ==
    ASSUME PagingTypeOK, ReadPage
    PROVE  /\ ~Ended /\ From = query.offset /\ From \in Nat
           /\ UNCHANGED <<store, query, owed, arrivals>>
           /\ shown' = shown \union Page(query)
           /\ repeats' = repeats + Cardinality(Page(query) \intersect shown)
           /\ ~Ended' => From' = From + query.limit
           /\ Ended' => \A r \in Matching(query) :
                            Position(query, r) < From + query.limit
  <1>1. /\ UNCHANGED <<store, query, owed, arrivals>>
        /\ shown' = shown \union Page(query)
        /\ repeats' = repeats + Cardinality(Page(query) \intersect shown)
        /\ next_offset' = NextOffset(Page(query))
        /\ walk = "asking" /\ walk' = "answered"
    BY DEF ReadPage
  <1>2. query.offset \in Nat /\ query.limit \in Nat \ {0}
    BY DEF PagingTypeOK, AuditQuery
  <1>3. ~Ended /\ From = query.offset
    BY <1>1 DEF Ended, From
  <1>4. CASE Cardinality(Page(query)) = query.limit
    <2>1. next_offset' = query.offset + query.limit
      BY <1>1, <1>4 DEF NextOffset
    <2>2. next_offset' # None
      BY <1>2, <2>1, WalkAssumption, SMT
    <2> QED
      BY <1>1, <1>2, <1>3, <2>1, <2>2 DEF Ended, From
  <1>5. CASE Cardinality(Page(query)) # query.limit
    <2>1. next_offset' = None
      BY <1>1, <1>5 DEF NextOffset
    <2> QED
      BY <1>1, <1>2, <1>3, <1>5, <2>1, ShortPageIsLast DEF Ended, From
  <1> QED
    BY <1>4, <1>5

LEMMA NothingSkippedStep ==
    ASSUME PagingTypeOK, NothingSkipped, [PagingNext]_vars
    PROVE  NothingSkipped'
  <1>1. ASSUME NEW x, table' = table \union {x}, x \notin owed,
               UNCHANGED <<shown, owed>>, SameFilter(query', query),
               Ended' <=> Ended, ~Ended => From' = From
        PROVE  NothingSkipped'
    <2> SUFFICES ASSUME NEW r \in (owed' \intersect table') \ shown'
                 PROVE  ~Ended' /\ Position(query, r)' >= From'
      BY DEF NothingSkipped
    <2>1. r \in (owed \intersect table) \ shown
      BY <1>1
    <2>2. ~Ended /\ Position(query, r) >= From
      BY <2>1 DEF NothingSkipped
    <2>3. From \in Nat
      BY <2>2, FromIsNumber
    <2>4. /\ Position(query, r) \in Nat
          /\ Position(query, r)' \in Position(query, r) .. Position(query, r) + 1
      BY <1>1, ArrivalMoves
    <2>5. Position(query, r)' >= From
      BY <2>2, <2>3, <2>4, SMT
    <2> QED
      BY <1>1, <2>2, <2>5
  <1>2. CASE OtherCall
    <2>1. PICK at \in Instants, c \in Callers : RowArrives(at, c)
      BY <1>2 DEF OtherCall
    <2>2. PICK x : table' = table \union {x} /\ x \notin table \union owed \union shown
      BY <2>1, ArrivalIsNew
    <2>3. UNCHANGED <<walk, pages>>
      BY <1>2 DEF OtherCall
    <2> QED
      BY <1>1, <2>2, <2>3 DEF pages, SameFilter, Ended, From
  <1>3. CASE Retention
    <2> SUFFICES ASSUME NEW r \in (owed' \intersect table') \ shown'
                 PROVE  ~Ended' /\ Position(query, r)' >= From'
      BY DEF NothingSkipped
    <2>1. /\ table' \subseteq table /\ UNCHANGED <<walk, pages>>
      BY <1>3 DEF Retention
    <2>2. ~Ended /\ Position(query, r) >= From
      BY <2>1 DEF NothingSkipped, pages
    <2>3. Position(query, r)' = Position(query, r)
      BY <1>3, RetentionMovesNone
    <2> QED
      BY <2>1, <2>2, <2>3 DEF pages, Ended, From
  <1>4. CASE BeginWalk
    <2> SUFFICES ASSUME NEW r \in owed' \intersect table'
                 PROVE  ~Ended' /\ Position(query, r)' >= From'
      BY DEF NothingSkipped
    <2>1. /\ walk = "none" /\ walk' = "asking" /\ table' = table /\ query' = query
          /\ owed' = {s \in table : Matches(query, s)}
      BY <1>4 DEF BeginWalk, store
    <2>2. query.offset = 0
      BY <2>1 DEF PagingTypeOK
    <2>3. Position(query, r)' = Position(query, r)
      BY <2>1 DEF Position
    <2>4. TypeOK /\ r \in Matching(query)
      BY <2>1 DEF Matching, PagingTypeOK
    <2>5. Position(query, r) \in 0 .. Cardinality(Matching(query)) - 1
      BY <2>4, PositionsInRange
    <2>6. Position(query, r) >= 0
      BY <2>5, SMT
    <2> QED
      BY <2>1, <2>2, <2>3, <2>6 DEF Ended, From
  <1>5. CASE ReadPage
    <2> SUFFICES ASSUME NEW r \in (owed' \intersect table') \ shown'
                 PROVE  ~Ended' /\ Position(query, r)' >= From'
      BY DEF NothingSkipped
    <2>1. /\ UNCHANGED <<store, query, owed, arrivals>>
          /\ shown' = shown \union Page(query)
          /\ From = query.offset /\ From \in Nat
          /\ ~Ended' => From' = From + query.limit
          /\ Ended' => \A s \in Matching(query) :
                           Position(query, s) < From + query.limit
      BY <1>5, ReadPageAdvances
    <2>2. /\ r \in (owed \intersect table) \ shown /\ r \notin Page(query)
          /\ table' = table /\ query' = query
      BY <2>1 DEF store
    <2>3. Position(query, r) >= From
      BY <2>2 DEF NothingSkipped
    <2>4. TypeOK /\ r \in Matching(query) /\ query.limit \in Nat
      BY <2>2 DEF Matching, PagingTypeOK, AuditQuery
    <2>5. Position(query, r) \in 0 .. Cardinality(Matching(query)) - 1
      BY <2>4, PositionsInRange
    <2>6. Position(query, r) \notin From .. From + query.limit - 1
      BY <2>1, <2>2, <2>4 DEF Page, Matching
    <2>7. Position(query, r) >= From + query.limit
      BY <2>1, <2>3, <2>4, <2>5, <2>6, SMT
    <2>8. ~Ended'
      <3>1. ~(Position(query, r) < From + query.limit)
        BY <2>1, <2>4, <2>5, <2>7, SMT
      <3> QED
        BY <2>1, <2>4, <3>1
    <2>9. Position(query, r)' = Position(query, r)
      BY <2>2 DEF Position
    <2> QED
      BY <2>1, <2>7, <2>8, <2>9
  <1>6. CASE FollowNextOffset
    <2>1. /\ UNCHANGED <<shown, owed, repeats>> /\ SameFilter(query', query)
          /\ Ended' <=> Ended
          /\ ~Ended => From' = From
      BY <1>6, FollowKeepsPlace
    <2>2. CASE \E at \in Instants : RowArrives(at, Operator)
      <3>1. PICK x : table' = table \union {x}
                     /\ x \notin table \union owed \union shown
        BY <2>2, ArrivalIsNew, WalkAssumption
      <3> QED
        BY <1>1, <2>1, <3>1
    <2>3. CASE UNCHANGED <<store, arrivals>>
      <3> SUFFICES ASSUME NEW r \in (owed' \intersect table') \ shown'
                   PROVE  ~Ended' /\ Position(query, r)' >= From'
        BY DEF NothingSkipped
      <3>1. table' = table
        BY <2>3 DEF store
      <3>2. ~Ended /\ Position(query, r) >= From
        BY <2>1, <3>1 DEF NothingSkipped
      <3>3. AheadIn(table', query', r) = AheadIn(table, query, r)
        BY <2>1, <3>1, FilterDecides
      <3>4. Position(query, r)' = Cardinality(AheadIn(table', query', r))
        BY DEF Position, AheadIn
      <3>5. Position(query, r)' = Position(query, r)
        BY <3>3, <3>4, PositionIsAhead
      <3> QED
        BY <2>1, <3>2, <3>5
    <2> QED
      BY <1>6, <2>2, <2>3 DEF FollowNextOffset
  <1>7. CASE UNCHANGED vars
    BY <1>7 DEF NothingSkipped, Ended, From, Position, vars, store, pages
  <1> QED
    BY <1>2, <1>3, <1>4, <1>5, <1>6, <1>7 DEF PagingNext

\* Types of the walk, for any filters, clock and rows.
THEOREM PagingTypeCorrect == PagingSpec => []PagingTypeOK
  <1>1. PagingInit => PagingTypeOK
    BY PagingTypeInit
  <1>2. PagingTypeOK /\ [PagingNext]_vars => PagingTypeOK'
    BY PagingTypeStep
  <1> QED
    BY <1>1, <1>2, PTL DEF PagingSpec

THEOREM NothingEverSkipped == PagingSpec => []NothingSkipped
  <1>1. PagingInit => NothingSkipped
    BY DEF PagingInit, NothingSkipped
  <1>2. PagingTypeOK /\ NothingSkipped /\ [PagingNext]_vars => NothingSkipped'
    BY NothingSkippedStep
  <1> QED
    BY <1>1, <1>2, PagingTypeCorrect, PTL DEF PagingSpec

\* However many rows arrive, at whatever instants, and however many are pruned,
\* a walk that has ended has shown every row that matched when it began and is
\* still there.
THEOREM NoneEverMissed == PagingSpec => []NoneMissed
  <1>1. NothingSkipped => NoneMissed
    BY DEF NothingSkipped, NoneMissed, Ended
  <1> QED
    BY <1>1, NothingEverSkipped, PTL

-----------------------------------------------------------------------------
(***************************************************************************)
(* Repeats are bounded by arrivals.                                        *)
(***************************************************************************)
LEMMA ToRepeatFinite ==
    ASSUME PagingTypeOK
    PROVE  IsFiniteSet(ToRepeat) /\ Cardinality(ToRepeat) \in Nat
  <1>1. IsFiniteSet(table)
    BY TableFinite DEF PagingTypeOK
  <1>2. ToRepeat \in SUBSET table
    BY DEF ToRepeat
  <1> QED
    BY <1>1, <1>2, FS_Subset, FS_CardinalityType

\* An arrival pushes at most one row over the offset.
LEMMA ArrivalRepeatsOne ==
    ASSUME PagingTypeOK, NEW x, table' = table \union {x}, x \notin shown,
           UNCHANGED <<shown, repeats>>, SameFilter(query', query),
           Ended' <=> Ended, ~Ended => From' = From
    PROVE  /\ \E y : ToRepeat' \subseteq ToRepeat \union {y}
           /\ ~Matches(query, x) => ToRepeat' \subseteq ToRepeat
  <1>1. \A r : /\ Position(query, r) \in Nat
               /\ Position(query, r)' \in Position(query, r) .. Position(query, r) + 1
               /\ ~Matches(query, x) => Position(query, r)' = Position(query, r)
    BY ArrivalMoves
  <1>2. ToRepeat' = {r \in shown \intersect table :
                         ~Ended /\ Position(query, r)' >= From}
    BY DEF ToRepeat
  <1>3. CASE Ended
    BY <1>2, <1>3
  <1>4. CASE ~Ended
    <2>1. From \in Nat
      BY <1>4, FromIsNumber
    <2>2. ~Matches(query, x) => ToRepeat' \subseteq ToRepeat
      BY <1>1, <1>2, <1>4 DEF ToRepeat
    <2>3. \A r \in ToRepeat' \ ToRepeat :
              r \in Matching(query) /\ Position(query, r) + 1 = From
      <3> SUFFICES ASSUME NEW r \in ToRepeat' \ ToRepeat
                   PROVE  r \in Matching(query) /\ Position(query, r) + 1 = From
        OBVIOUS
      <3>1. /\ r \in shown \intersect table
            /\ Position(query, r)' >= From
            /\ ~(Position(query, r) >= From)
        BY <1>2, <1>4 DEF ToRepeat
      <3>2. r \in Matching(query)
        BY <3>1 DEF Matching, PagingTypeOK
      <3>3. Position(query, r) + 1 = From
        BY <1>1, <2>1, <3>1, SMT
      <3> QED
        BY <3>2, <3>3
    <2>4. \A r, s \in ToRepeat' \ ToRepeat : r = s
      <3> SUFFICES ASSUME NEW r \in ToRepeat' \ ToRepeat,
                          NEW s \in ToRepeat' \ ToRepeat
                   PROVE  r = s
        OBVIOUS
      <3>1. /\ r \in Matching(query) /\ s \in Matching(query)
            /\ Position(query, r) + 1 = From /\ Position(query, s) + 1 = From
        BY <2>3
      <3>2. Position(query, r) = Position(query, s)
        BY <1>1, <2>1, <3>1, SMT
      <3> QED
        BY <3>1, <3>2, PositionsDiffer DEF PagingTypeOK
    <2>5. \E y : ToRepeat' \subseteq ToRepeat \union {y}
      <3>1. CASE ToRepeat' \subseteq ToRepeat
        BY <3>1
      <3>2. CASE ~(ToRepeat' \subseteq ToRepeat)
        <4>1. PICK y : y \in ToRepeat' \ ToRepeat
          BY <3>2
        <4>2. ToRepeat' \subseteq ToRepeat \union {y}
          BY <2>4, <4>1
        <4> QED
          BY <4>2
      <3> QED
        BY <3>1, <3>2
    <2> QED
      BY <2>2, <2>5
  <1> QED
    BY <1>3, <1>4

LEMMA RepeatsAccountedStep ==
    ASSUME PagingTypeOK, RepeatsAccounted, [PagingNext]_vars
    PROVE  RepeatsAccounted'
  <1> DEFINE n == Cardinality(ToRepeat)
             m == Cardinality(ToRepeat')
  <1>1. /\ IsFiniteSet(ToRepeat) /\ n \in Nat /\ repeats \in Nat /\ arrivals \in Nat
        /\ repeats + n <= arrivals
    BY ToRepeatFinite DEF PagingTypeOK, RepeatsAccounted
  <1>2. IsFiniteSet(ToRepeat') /\ m \in Nat /\ arrivals' \in Nat
    <2>1. PagingTypeOK'
      BY PagingTypeStep
    <2>2. IsFiniteSet(table') /\ arrivals' \in Nat
      <3>1. table' \subseteq Row /\ \A r, s \in table' : r.id = s.id => r = s
        BY <2>1 DEF PagingTypeOK, TypeOK
      <3> QED
        BY <2>1, <3>1, IdsCount DEF PagingTypeOK
    <2>3. ToRepeat' \in SUBSET table'
      BY DEF ToRepeat
    <2> QED
      BY <2>2, <2>3, FS_Subset, FS_CardinalityType
  <1>3. ToRepeat' \subseteq ToRepeat => m <= n
    <2> SUFFICES ASSUME ToRepeat' \in SUBSET ToRepeat PROVE m <= n
      OBVIOUS
    <2> QED
      BY <1>1, FS_Subset
  <1>4. ASSUME NEW y, ToRepeat' \subseteq ToRepeat \union {y}
        PROVE  m <= n + 1
    <2>1. /\ IsFiniteSet(ToRepeat \union {y})
          /\ Cardinality(ToRepeat \union {y}) \in {n, n + 1}
      BY <1>1, FS_AddElement
    <2>2. m <= Cardinality(ToRepeat \union {y})
      BY <1>4, <2>1, FS_Subset
    <2> HIDE DEF n, m
    <2> QED
      BY <1>1, <1>2, <2>1, <2>2, SMT
  <1>5. ASSUME ToRepeat' \subseteq ToRepeat, repeats' = repeats, arrivals' = arrivals
        PROVE  RepeatsAccounted'
    <2>1. m <= n
      BY <1>3, <1>5
    <2>2. repeats + m <= arrivals
      <3> HIDE DEF n, m
      <3> QED
        BY <1>1, <1>2, <2>1, SMT
    <2> QED
      BY <1>5, <2>2 DEF RepeatsAccounted
  <1>6. ASSUME NEW x, table' = table \union {x}, x \notin shown,
               UNCHANGED <<shown, repeats>>, SameFilter(query', query),
               Ended' <=> Ended, ~Ended => From' = From,
               arrivals' = IF walk # "none" /\ Matches(query, x)
                           THEN arrivals + 1 ELSE arrivals
        PROVE  RepeatsAccounted'
    <2>1. CASE walk # "none" /\ Matches(query, x)
      <3>1. PICK y : ToRepeat' \subseteq ToRepeat \union {y}
        BY <1>6, ArrivalRepeatsOne
      <3>2. m <= n + 1
        BY <1>4, <3>1
      <3>3. repeats + m <= arrivals + 1
        <4> HIDE DEF n, m
        <4> QED
          BY <1>1, <1>2, <3>2, SMT
      <3> QED
        BY <1>6, <2>1, <3>3 DEF RepeatsAccounted
    <2>2. CASE ~Matches(query, x)
      <3>1. ToRepeat' \subseteq ToRepeat
        BY <1>6, <2>2, ArrivalRepeatsOne
      <3> QED
        BY <1>5, <1>6, <2>2, <3>1
    <2>3. CASE walk = "none"
      <3>1. ToRepeat' = {}
        BY <1>6, <2>3 DEF ToRepeat, PagingTypeOK
      <3> QED
        BY <1>5, <1>6, <2>3, <3>1
    <2> QED
      BY <2>1, <2>2, <2>3
  <1>7. CASE OtherCall
    <2>1. PICK at \in Instants, c \in Callers : RowArrives(at, c)
      BY <1>7 DEF OtherCall
    <2>2. UNCHANGED <<walk, pages>>
      BY <1>7 DEF OtherCall
    <2>3. UNCHANGED <<shown, repeats>> /\ SameFilter(query', query)
          /\ (Ended' <=> Ended) /\ From' = From
      BY <2>2 DEF pages, SameFilter, Ended, From
    <2> QED
      BY <1>6, <2>1, <2>3, ArrivalIsNew
  <1>8. CASE Retention
    <2>1. /\ table' \subseteq table /\ UNCHANGED <<walk, pages, arrivals>>
      BY <1>8 DEF Retention
    <2>2. \A r \in table' : Position(query, r)' = Position(query, r)
      BY <1>8, RetentionMovesNone
    <2>3. ToRepeat' \subseteq ToRepeat
      BY <2>1, <2>2 DEF ToRepeat, pages, Ended, From
    <2> QED
      BY <1>5, <2>1, <2>3 DEF pages
  <1>9. CASE BeginWalk
    <2>1. /\ walk = "none" /\ shown' = shown /\ repeats' = repeats
          /\ arrivals' = arrivals
      BY <1>9 DEF BeginWalk
    <2>2. ToRepeat' = {}
      BY <2>1 DEF ToRepeat, PagingTypeOK
    <2> QED
      BY <1>5, <2>1, <2>2
  <1>10. CASE ReadPage
    <2> DEFINE again == Page(query) \intersect shown
               d == Cardinality(again)
    <2>1. /\ ~Ended /\ From = query.offset /\ From \in Nat
          /\ UNCHANGED <<store, query, owed, arrivals>>
          /\ shown' = shown \union Page(query)
          /\ repeats' = repeats + d
          /\ ~Ended' => From' = From + query.limit
      BY <1>10, ReadPageAdvances
    <2>2. table' = table /\ query' = query /\ query.limit \in Nat \ {0}
      BY <2>1 DEF store, PagingTypeOK, AuditQuery
    <2>3. \A r \in table : Position(query, r)' = Position(query, r)
      BY <2>2 DEF Position
    <2>4. \A r \in Page(query) : /\ r \in table
                                 /\ Position(query, r) \in
                                        From .. From + query.limit - 1
      BY <2>1, PageRows
    <2>5. \A r \in ToRepeat' : /\ r \in (shown \union Page(query)) \intersect table
                               /\ Position(query, r) >= From + query.limit
      BY <2>1, <2>2, <2>3 DEF ToRepeat
    <2>6. \A r \in shown \intersect table : Position(query, r) \in Int
      <3>1. \A r \in shown \intersect table : r \in Matching(query)
        BY DEF Matching, PagingTypeOK
      <3> QED
        BY <3>1, PositionsInRange DEF PagingTypeOK
    <2>7. ToRepeat' \intersect Page(query) = {}
      BY <2>1, <2>2, <2>4, <2>5, SMT
    <2>8. \A r \in ToRepeat' : Position(query, r) >= From
      <3> SUFFICES ASSUME NEW r \in ToRepeat' PROVE Position(query, r) >= From
        OBVIOUS
      <3>1. r \in shown \intersect table
        BY <2>5, <2>7
      <3> QED
        BY <2>1, <2>2, <2>5, <2>6, <3>1, SMT
    <2>9. ToRepeat' \subseteq ToRepeat
      BY <2>1, <2>5, <2>7, <2>8 DEF ToRepeat
    <2>10. again \subseteq ToRepeat
      <3> SUFFICES ASSUME NEW r \in again PROVE r \in ToRepeat
        OBVIOUS
      <3>1. r \in shown \intersect table /\ Position(query, r) >= From
        BY <2>1, <2>2, <2>4, SMT
      <3> QED
        BY <2>1, <3>1 DEF ToRepeat
    <2>11. IsFiniteSet(again) /\ d \in Nat
      BY <1>1, <2>10, FS_Subset, FS_CardinalityType
    <2>12. again \intersect ToRepeat' = {} /\ again \union ToRepeat' \subseteq ToRepeat
      BY <2>7, <2>9, <2>10
    <2>13. Cardinality(again \union ToRepeat') = d + m
      <3> DEFINE left == ToRepeat'
      <3>1. Cardinality(again \union left) = d + m - 0
        <4>1. IsFiniteSet(left) /\ again \intersect left = {} /\ m = Cardinality(left)
          BY <1>2, <2>12
        <4>2. Cardinality(again \intersect left) = 0
          BY <4>1, FS_EmptySet
        <4> HIDE DEF again, left
        <4> QED
          BY <2>11, <4>1, <4>2, FS_Union
      <3> HIDE DEF d, m, again
      <3> QED
        BY <1>2, <2>11, <3>1, SMT
    <2>14. d + m <= n
      <3> HIDE DEF d, again
      <3> QED
        BY <1>1, <2>12, <2>13, FS_Subset
    <2>15. (repeats + d) + m <= arrivals
      <3> HIDE DEF d, n, m
      <3> QED
        BY <1>1, <1>2, <2>11, <2>14, SMT
    <2> QED
      BY <2>1, <2>15 DEF RepeatsAccounted
  <1>11. CASE FollowNextOffset
    <2>1. /\ UNCHANGED <<shown, owed, repeats>> /\ SameFilter(query', query)
          /\ Ended' <=> Ended
          /\ ~Ended => From' = From
      BY <1>11, FollowKeepsPlace
    <2>2. CASE \E at \in Instants : RowArrives(at, Operator)
      BY <1>6, <2>1, <2>2, ArrivalIsNew, WalkAssumption
    <2>3. CASE UNCHANGED <<store, arrivals>>
      <3>1. table' = table
        BY <2>3 DEF store
      <3>2. \A r : AheadIn(table', query', r) = AheadIn(table, query, r)
        BY <2>1, <3>1, FilterDecides
      <3>3. \A r : Position(query, r)' = Cardinality(AheadIn(table', query', r))
        BY DEF Position, AheadIn
      <3>4. \A r : Position(query, r)' = Position(query, r)
        BY <3>2, <3>3, PositionIsAhead
      <3>5. ToRepeat' \subseteq ToRepeat
        BY <2>1, <3>1, <3>4 DEF ToRepeat
      <3> QED
        BY <1>5, <2>1, <2>3, <3>5
    <2> QED
      BY <1>11, <2>2, <2>3 DEF FollowNextOffset
  <1>12. CASE UNCHANGED vars
    <2>1. ToRepeat' = ToRepeat /\ repeats' = repeats /\ arrivals' = arrivals
      BY <1>12 DEF ToRepeat, Ended, From, Position, vars, store, pages
    <2> QED
      BY <1>5, <2>1
  <1> QED
    BY <1>7, <1>8, <1>9, <1>10, <1>11, <1>12 DEF PagingNext

\* Rows shown twice, and rows the next pages will show a second time, are
\* accounted for by the matching rows that were written during the walk.
THEOREM RepeatsAlwaysAccounted == PagingSpec => []RepeatsAccounted
  <1>1. PagingInit => RepeatsAccounted
    <2> SUFFICES ASSUME PagingInit PROVE RepeatsAccounted
      OBVIOUS
    <2>1. ToRepeat = {} /\ repeats = 0 /\ arrivals = 0
      BY DEF PagingInit, ToRepeat
    <2> QED
      BY <2>1, FS_EmptySet DEF RepeatsAccounted
  <1>2. PagingTypeOK /\ RepeatsAccounted /\ [PagingNext]_vars => RepeatsAccounted'
    BY RepeatsAccountedStep
  <1> QED
    BY <1>1, <1>2, PagingTypeCorrect, PTL DEF PagingSpec

\* However the walk is paged, the rows it shows again are no more than the
\* matching rows that were written while it was under way.
THEOREM RepeatsAlwaysBounded == PagingSpec => []RepeatsBounded
  <1>1. PagingTypeOK /\ RepeatsAccounted => RepeatsBounded
    <2> SUFFICES ASSUME PagingTypeOK, RepeatsAccounted PROVE RepeatsBounded
      OBVIOUS
    <2>1. Cardinality(ToRepeat) \in Nat /\ repeats \in Nat /\ arrivals \in Nat
      BY ToRepeatFinite DEF PagingTypeOK
    <2> QED
      BY <2>1, SMT DEF RepeatsAccounted, RepeatsBounded
  <1> QED
    BY <1>1, PagingTypeCorrect, RepeatsAlwaysAccounted, PTL
=============================================================================
