--------------------------- MODULE MCAuditPaging ---------------------------
(***************************************************************************)
(* Walks of two rows a page over everything, and of one row a page over    *)
(* the rows of one caller.                                                 *)
(***************************************************************************)
EXTENDS AuditPaging

MCInstants == 0 .. 1

Walk(caller, limit, offset) ==
    [start |-> None, end |-> None, caller |-> caller,
     limit |-> limit, offset |-> offset]

MCFilters == {Walk(None, 2, 0), Walk("alice", 1, 0)}

MCQueries == {[q EXCEPT !.offset = n] : q \in MCFilters, n \in 0 .. MaxRows}
=============================================================================
