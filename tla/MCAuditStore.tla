---------------------------- MODULE MCAuditStore ----------------------------
(***************************************************************************)
(* Three rows at the start and the half of a second and at the start of the*)
(* next; queries with and without bounds, by caller, and paged.            *)
(***************************************************************************)
EXTENDS AuditStore

MCInstants == 0 .. 2

Arguments(starts, ends) ==
    [start : starts \union {None}, end : ends \union {None},
     caller : {None, "alice"}, limit : {1, 2}, offset : {0, 1}]

\* A page of one row from the first on is half of a page of two.
Paged(queries) == {q \in queries : q.limit = 2 \/ q.offset = 1}

Utc(at) == [utc |-> at, zone |-> 0, aware |-> TRUE]

\* Bounds as "2026-05-01T12:00:00Z".
UtcQueries == Arguments({Utc(1)}, {Utc(1), Utc(2)})

\* Bounds as "2026-05-01T14:00:00+02:00" and "2026-05-01T07:00:00-05:00" too.
Zoned == [utc : {2}, zone : {1, -1}, aware : {TRUE}]
ZonedQueries == Arguments(Zoned, Zoned)

\* Bounds with another offset, and without one.
Naive == [utc |-> 1, zone |-> 0, aware |-> FALSE]
NaiveQueries ==
    {q \in Arguments({[utc |-> 1, zone |-> 1, aware |-> TRUE], Naive},
                     {Utc(1), Naive}) : q.caller = None}
=============================================================================
