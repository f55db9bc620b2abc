------------------------------ MODULE AuditLog ------------------------------
(***************************************************************************)
(* What the AuditStore protocol promises, whatever is behind it: a set of  *)
(* rows at instants, pages of it newest first, the removal of what is too  *)
(* old, and nothing else.  Rows of the same instant come in any order.  A  *)
(* store may refuse to work once it is closed, and may refuse a bound that *)
(* names no time zone.                                                     *)
(***************************************************************************)
EXTENDS Integers, FiniteSets

CONSTANTS
    None,           \* Python's None
    Ids,            \* the identities of rows
    Instants,       \* the instants of rows, bounds and cutoffs
    Callers,        \* caller_id
    Queries         \* the arguments of query()

VARIABLES
    log,            \* the rows
    closed,         \* whether aclose() was called
    result          \* what the last operation returned

Least(a, b) == IF a <= b THEN a ELSE b

Within(q, r) ==
    /\ q.start # None => q.start.utc <= r.at
    /\ q.end # None => r.at <= q.end.utc
    /\ q.caller # None => r.caller = q.caller

HasNaiveBound(q) == \E b \in {q.start, q.end} \ {None} : ~b.aware

Newest(S, R) == \A r \in S, s \in R \ S : r.at >= s.at

\* P is what remains of R, newest first, after `offset` rows and up to `limit`.
IsPage(P, R, offset, limit) ==
    \E skipped \in SUBSET R :
        LET rest == R \ skipped
        IN  /\ Newest(skipped, R)
            /\ Cardinality(skipped) = Least(offset, Cardinality(R))
            /\ P \subseteq rest
            /\ Newest(P, rest)
            /\ Cardinality(P) = Least(limit, Cardinality(rest))

Init ==
    /\ log = {}
    /\ closed = FALSE
    /\ result = [op |-> "none"]

Write ==
    /\ result' = [op |-> "write"]
    /\ \E id \in Ids \ {r.id : r \in log}, at \in Instants, c \in Callers :
           log' = log \union {[id |-> id, at |-> at, caller |-> c]}
    /\ UNCHANGED closed

Query ==
    /\ result' \in [op : {"page"}, query : Queries, rows : SUBSET log]
    /\ LET q == result'.query
       IN  IsPage(result'.rows, {r \in log : Within(q, r)}, q.offset, q.limit)
    /\ UNCHANGED <<log, closed>>

Prune ==
    /\ \E cutoff \in Instants : log' = {r \in log : r.at >= cutoff}
    /\ result' = [op |-> "prune", count |-> Cardinality(log \ log')]
    /\ UNCHANGED closed

Refuse ==
    /\ \E q \in Queries \union {None} :
           /\ closed \/ (q # None /\ HasNaiveBound(q))
           /\ result' = [op |-> "raise", query |-> q]
    /\ UNCHANGED <<log, closed>>

Close ==
    /\ closed' = TRUE
    /\ UNCHANGED <<log, result>>

Next == Write \/ Query \/ Prune \/ Refuse \/ Close

Spec == Init /\ [][Next]_<<log, closed, result>>
=============================================================================
