----------------------------- MODULE AuditStore -----------------------------
(***************************************************************************)
(* The two audit stores of build_store(): InMemoryAuditStore keeps records *)
(* in a list and compares instants; SQLiteAuditStore keeps a table whose   *)
(* timestamps are isoformat() strings and lets SQLite compare the strings. *)
(* Each operation holds the store's lock from its first access to its last *)
(* and contains no await, so it is one action.  rpc_name, kind and status  *)
(* are compared as caller_id is, which stands for the four.                *)
(***************************************************************************)
EXTENDS Integers, FiniteSets

CONSTANTS
    None,           \* Python's None
    Backend,        \* the argument of build_store()
    Instants,       \* the clock: the smallest unit is a microsecond's stand-in
    PerSecond,      \* units of the clock in a second
    Callers,        \* caller_id
    Queries,        \* the arguments of query() that are tried
    MaxRows         \* bound: rows ever written

ASSUME BackendAssumption == Backend \in {"memory", "sqlite"}

ASSUME ClockAssumption == Instants \subseteq Nat /\ PerSecond \in Nat \ {0}

\* A datetime of a query: the instant, or for a naive one its wall time, and
\* the offset from UTC of the zone it was given in, in seconds.
Bounds == [utc : Instants, zone : Int, aware : BOOLEAN]

AuditQuery ==
    [start : Bounds \union {None}, end : Bounds \union {None},
     caller : Callers \union {None}, limit : Nat \ {0}, offset : Nat]

ASSUME QueriesAssumption ==
    /\ Queries \subseteq AuditQuery
    /\ None \notin Bounds \union Callers
    /\ MaxRows \in Nat

VARIABLES
    table,          \* the records; `id` is the order of insertion
    last,           \* the id given last: AUTOINCREMENT never reuses one
    closed,         \* whether aclose() was called
    result          \* what the last operation returned or raised

store == <<table, last, closed, result>>

Row == [id : 1 .. MaxRows, at : Instants, caller : Callers]

-----------------------------------------------------------------------------
\* isoformat() as the string's parts in their order: date and time to the
\* second; the fraction, left out when it is zero; the offset, left out when
\* the datetime is naive.  '+' sorts before '-' and '-' before '.'.
OffsetMark(b) == IF ~b.aware THEN 0 ELSE IF b.zone >= 0 THEN 1 ELSE 2

Isoformat(b) ==
    LET fraction == b.utc % PerSecond
        mark     == OffsetMark(b)
    IN  <<b.utc \div PerSecond + b.zone,
          IF fraction = 0 THEN mark ELSE 3,
          fraction,
          mark,
          IF b.zone >= 0 THEN b.zone ELSE - b.zone>>

TextLess(s, t) ==
    \E i \in 1 .. 5 : s[i] < t[i] /\ \A j \in 1 .. i - 1 : s[j] = t[j]

\* <= as each store computes it.
AtMost(b, c) ==
    IF Backend = "sqlite" THEN ~TextLess(Isoformat(c), Isoformat(b))
                          ELSE b.utc <= c.utc

\* datetime.now(UTC), as every row's timestamp and every cutoff is made.
Stamp(at) == [utc |-> at, zone |-> 0, aware |-> TRUE]

Matches(q, r) ==
    /\ q.start # None => AtMost(q.start, Stamp(r.at))
    /\ q.end # None => AtMost(Stamp(r.at), q.end)
    /\ q.caller # None => r.caller = q.caller

\* Rows of one instant: list.sort() is stable; SQLite walks the timestamp index
\* backwards, or sorts what the caller index yields.
OldestFirst(q) == Backend = "memory" \/ q.caller # None

\* Whether r is listed before s.
Before(q, r, s) ==
    \/ ~AtMost(Stamp(r.at), Stamp(s.at))
    \/ r.at = s.at /\ (IF OldestFirst(q) THEN r.id < s.id ELSE r.id > s.id)

Position(q, r) == Cardinality({s \in table : Matches(q, s) /\ Before(q, s, r)})

\* Faulty variant: LIMIT and OFFSET bound the wrong way round.
PageSwapped(q) ==
    {r \in table : Matches(q, r) /\ Position(q, r) \in q.limit .. q.limit + q.offset - 1}

Page(q) ==
    {r \in table : Matches(q, r) /\ Position(q, r) \in q.offset .. q.offset + q.limit - 1}

\* A closed connection raises; the list stays usable.
Unusable == closed /\ Backend = "sqlite"

\* Comparing a naive datetime with an aware one raises, once the list holds a
\* record the comparison is reached for.
ComparisonRaises(q) ==
    /\ Backend = "memory"
    /\ \E r \in table :
           \/ q.start # None /\ ~q.start.aware
           \/ /\ q.start # None => AtMost(q.start, Stamp(r.at))
              /\ q.end # None /\ ~q.end.aware

-----------------------------------------------------------------------------
Init ==
    /\ table = {}
    /\ last = 0
    /\ closed = FALSE
    /\ result = [op |-> "none"]

\* Faulty variant: the number of rows as the next id.
InsertAtLength(at, c) ==
    /\ last < MaxRows
    /\ last' = last + 1
    /\ table' = table \union
           {[id |-> Cardinality(table) + 1, at |-> at, caller |-> c]}

Insert(at, c) ==
    /\ last < MaxRows
    /\ last' = last + 1
    /\ table' = table \union {[id |-> last + 1, at |-> at, caller |-> c]}

Write(at, c) ==
    /\ ~Unusable
    /\ Insert(at, c)
    /\ result' = [op |-> "write"]
    /\ UNCHANGED closed

Query(q) ==
    /\ ~Unusable
    /\ ~ComparisonRaises(q)
    /\ result' = [op |-> "page", query |-> q, rows |-> Page(q)]
    /\ UNCHANGED <<table, last, closed>>

\* `cutoff` is now less the retention.
Prune(cutoff) ==
    /\ ~Unusable
    /\ table' = {r \in table : AtMost(Stamp(cutoff), Stamp(r.at))}
    /\ result' = [op |-> "prune", count |-> Cardinality(table \ table')]
    /\ UNCHANGED <<last, closed>>

\* A naive bound, or anything after the connection was closed.
Raise(q) ==
    /\ Unusable \/ (q # None /\ ComparisonRaises(q))
    /\ result' = [op |-> "raise", query |-> q]
    /\ UNCHANGED <<table, last, closed>>

Aclose ==
    /\ closed' = TRUE
    /\ UNCHANGED <<table, last, result>>

Next ==
    \/ \E at \in Instants, c \in Callers : Write(at, c)
    \/ \E q \in Queries : Query(q)
    \/ \E cutoff \in Instants : Prune(cutoff)
    \/ \E q \in Queries \union {None} : Raise(q)
    \/ Aclose

Spec == Init /\ [][Next]_store

-----------------------------------------------------------------------------
(***************************************************************************)
(* Properties.                                                             *)
(***************************************************************************)
\* Type invariant: ids are given once and upwards, prune_older_than() returns
\* how many rows it removed, query() rows of the table.
TypeOK ==
    /\ table \subseteq Row
    /\ last \in 0 .. MaxRows
    /\ \A r, s \in table : r.id <= last /\ (r.id = s.id => r = s)
    /\ closed \in BOOLEAN
    /\ result.op \in {"none", "write", "page", "prune", "raise"}
    /\ result.op = "prune" => result.count \in 0 .. MaxRows
    /\ result.op = "raise" => result.query \in Queries \union {None}
    /\ result.op = "page" => /\ result.query \in Queries
                             /\ result.rows \subseteq Row

\* The store keeps the promise of the protocol: what query() returns is a page
\* of the rows whose instants and callers the query asks for, newest first, and
\* prune_older_than() removes exactly what is older than the cutoff, whether
\* the comparison is of datetimes or of strings (store.py:62-82, 166-213).
Promise == INSTANCE AuditLog WITH log <- table, Ids <- 1 .. MaxRows
ImplementsAuditLog == Promise!Spec

\* A time range is honoured: query() returns no row from outside it, in
\* whatever zone the bounds were given (store.py:180-185).
RangeHonoured ==
    result.op = "page" =>
        \A r \in result.rows :
            /\ result.query.start # None => result.query.start.utc <= r.at
            /\ result.query.end # None => r.at <= result.query.end.utc
=============================================================================
