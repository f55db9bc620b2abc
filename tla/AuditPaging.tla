---------------------------- MODULE AuditPaging ----------------------------
(***************************************************************************)
(* An operator walks the audit log with read_audit: it asks for a page,    *)
(* then for the one at the next_offset it got, until there is none.  The   *)
(* store does not stand still: other calls' rows arrive, old rows are      *)
(* pruned, and every page read is an audited call whose own row is written *)
(* once the page is made, and before the operator has it (see              *)
(* AuditTrailProofs!AnsweredAlwaysAudited) unless the store refuses it.    *)
(* The store is open throughout: the lifespan closes it only when no call  *)
(* is left.                                                                *)
(***************************************************************************)
EXTENDS AuditStore

CONSTANTS
    Operator,       \* the caller_id of the operator
    Filters,        \* the queries a walk may start with
    MaxOthers       \* bound: rows in the log when other calls' rows stop

ASSUME WalkAssumption ==
    /\ Operator \in Callers
    /\ MaxOthers \in Nat
    /\ None \notin Nat
    /\ Filters \subseteq {q \in Queries : q.offset = 0}

VARIABLES
    walk,           \* where the operator is: nowhere, about to ask, answered, done
    query,          \* the filters, limit and offset of the operator's next call
    next_offset,    \* what the last page said
    shown,          \* the rows the pages held
    owed,           \* history: the rows that matched when the walk began
    repeats,        \* history: rows a page held that an earlier page had held
    arrivals        \* history: matching rows written since the walk began

pages == <<query, next_offset, shown, owed, repeats>>
vars  == <<store, walk, pages, arrivals>>

PagingInit ==
    /\ Init
    /\ walk = "none"
    /\ query \in Filters
    /\ next_offset = None
    /\ shown = {}
    /\ owed = {}
    /\ repeats = 0
    /\ arrivals = 0

-----------------------------------------------------------------------------
\* A row of any call: the clock may have been set back since the last one.
RowArrives(at, c) ==
    /\ Insert(at, c)
    /\ arrivals' = IF walk # "none" /\ \E r \in table' \ table : Matches(query, r)
                   THEN arrivals + 1 ELSE arrivals
    /\ UNCHANGED <<closed, result>>

OtherCall ==
    /\ last < MaxOthers
    /\ \E at \in Instants, c \in Callers \ {Operator} : RowArrives(at, c)
    /\ UNCHANGED <<walk, pages>>

Retention ==
    /\ \E cutoff \in Instants :
           table' = {r \in table : AtMost(Stamp(cutoff), Stamp(r.at))}
    /\ UNCHANGED <<last, closed, result, walk, pages, arrivals>>

BeginWalk ==
    /\ walk = "none"
    /\ walk' = "asking"
    /\ owed' = {r \in table : Matches(query, r)}
    /\ UNCHANGED <<store, query, next_offset, shown, repeats, arrivals>>

\* Faulty variant: > for ==, as no page is longer than its limit.
NextOffsetStrict(records) ==
    IF Cardinality(records) > query.limit
    THEN query.offset + Cardinality(records) ELSE None

\* Faulty variant: there is always a next page.
NextOffsetAlways(records) == query.offset + Cardinality(records)

\* Faulty variant: the last row shown is asked for again.
NextOffsetOverlap(records) ==
    IF Cardinality(records) = query.limit
    THEN query.offset + Cardinality(records) - 1 ELSE None

NextOffset(records) ==
    IF Cardinality(records) = query.limit
    THEN query.offset + Cardinality(records) ELSE None

ReadPage ==
    /\ walk = "asking"
    /\ LET records == Page(query)
       IN  /\ shown' = shown \union records
           /\ repeats' = repeats + Cardinality(records \intersect shown)
           /\ next_offset' = NextOffset(records)
    /\ walk' = "answered"
    /\ UNCHANGED <<store, query, owed, arrivals>>

\* The page's own row, and then the operator's next move.
FollowNextOffset ==
    /\ walk = "answered"
    /\ \/ \E at \in Instants : RowArrives(at, Operator)
       \/ UNCHANGED <<store, arrivals>>
    /\ IF next_offset = None
       THEN walk' = "done" /\ UNCHANGED query
       ELSE walk' = "asking" /\ query' = [query EXCEPT !.offset = next_offset]
    /\ UNCHANGED <<next_offset, shown, owed, repeats>>

PagingNext == OtherCall \/ Retention \/ BeginWalk \/ ReadPage \/ FollowNextOffset

PagingSpec == PagingInit /\ [][PagingNext]_vars

\* read_audit is answered, and the operator keeps asking.
PagingFairness == WF_vars(ReadPage) /\ WF_vars(FollowNextOffset)

PagingFairSpec == PagingSpec /\ PagingFairness

-----------------------------------------------------------------------------
(***************************************************************************)
(* Properties.                                                             *)
(***************************************************************************)
\* Type invariant: pages hold rows the walk's filter matches, and no id is
\* given again after its row was shown or pruned.
PagingTypeOK ==
    /\ TypeOK
    /\ walk \in {"none", "asking", "answered", "done"}
    /\ query \in AuditQuery
    /\ walk = "none" => query.offset = 0 /\ shown = {}
    /\ next_offset \in Nat \union {None}
    /\ owed \union shown \subseteq Row
    /\ \A r \in owed \union shown : Matches(query, r) /\ r.id <= last
    /\ repeats \in Nat
    /\ arrivals \in Nat

\* Where the next page starts, if there is to be one.
Ended == walk = "done" \/ (walk = "answered" /\ next_offset = None)
From  == IF walk = "answered" THEN next_offset ELSE query.offset

\* Whatever the walk still owes lies at or after the offset it goes to next:
\* rows that arrive push rows down and never up, and pruning takes the rows
\* below first (read_audit.py:79, store.py:200-202).
NothingSkipped ==
    \A r \in (owed \intersect table) \ shown :
        ~Ended /\ Position(query, r) >= From

\* A walk that has come to its end has shown every row that matched when it
\* began, unless the row has been pruned (read_audit.py:79).
NoneMissed == walk = "done" => owed \intersect table \subseteq shown

\* The rows already shown that the next page or a later one would show again.
ToRepeat ==
    {r \in shown \intersect table : ~Ended /\ Position(query, r) >= From}

\* Every row that was pushed back over the walk's offset, shown again or still
\* to be, was pushed by a row of its own (read_audit.py:79).
RepeatsAccounted == repeats + Cardinality(ToRepeat) <= arrivals

\* An operator sees a row again only because rows were written meanwhile, and
\* not more often than that (read_audit.py:79).
RepeatsBounded == repeats <= arrivals

\* A page holds more rows than reading it adds: more than one, or the filter
\* leaves the reads out.
Advances == query.limit > 1 \/ query.caller \notin {None, Operator}

\* A walk that advances ends once other calls stop writing, although it writes
\* a row of its own for each page (read_audit.py:79, audit.py:142).
WalkEnds == (walk = "asking" /\ Advances) ~> walk = "done"
=============================================================================
