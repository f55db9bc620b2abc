--------------------------- MODULE MetabaseClient ---------------------------
(***************************************************************************)
(* MetabaseClient: what becomes of one request to Metabase, and the rows of*)
(* a query's payload.  A `wire` is what comes back:                        *)
(*     [kind |-> "timeout"] | [kind |-> "broken"]                          *)
(*     [kind |-> "answer", status |-> the HTTP status, body |-> below]     *)
(* A body is [kind |-> "text"] (not JSON), [kind |-> "json"] (JSON, but not*)
(* an object) or an object:                                                *)
(*     [kind |-> "object", status, row_count, data]                        *)
(* with data = None, Junk (not an object) or [cols, rows], rows being None *)
(* or sequences of cells and cols None or a sequence of column names.      *)
(***************************************************************************)
EXTENDS Sequences, FiniteSetsExt, Responses

CONSTANT Junk       \* a value of a type, or a text, the code cannot convert

ASSUME JunkAssumption == Junk # None

Completed(body) ==
    body.kind = "object" /\ body.status = "completed"

HasRows(body) ==
    body.kind = "object" /\ body.data \notin {None, Junk} /\ body.data.rows # None

\* _looks_completed()
LooksCompleted(body) == Completed(body) \/ HasRows(body)

\* Faulty variant: a client error is passed on with Metabase's own status.
PostQueryPassingOn(wire) ==
    IF wire.kind = "timeout" THEN Response(504, "METABASE_TIMEOUT")
    ELSE IF wire.kind = "broken" \/ wire.status >= 500 THEN Response(503, "METABASE_UNAVAILABLE")
    ELSE IF wire.status >= 400 THEN Response(wire.status, "METABASE_ERROR")
    ELSE Success

\* Faulty variant: every 202 is taken for a completed query.
PostQueryPatient(wire) ==
    IF wire.kind = "timeout" THEN Response(504, "METABASE_TIMEOUT")
    ELSE IF wire.kind = "broken" \/ wire.status >= 500 THEN Response(503, "METABASE_UNAVAILABLE")
    ELSE IF wire.status >= 400 \/ wire.body.kind = "text" THEN Response(502, "METABASE_ERROR")
    ELSE Success

\* _post_query(): the error it raises, Success if it returns the payload.
\* Redirects are not followed: their body is read like an answer's.
PostQuery(wire) ==
    IF wire.kind = "timeout" THEN Response(504, "METABASE_TIMEOUT")
    ELSE IF wire.kind = "broken" \/ wire.status >= 500 THEN Response(503, "METABASE_UNAVAILABLE")
    ELSE IF wire.status >= 400 \/ wire.body.kind = "text" THEN Response(502, "METABASE_ERROR")
    ELSE IF wire.status = 202 /\ ~LooksCompleted(wire.body)
         THEN Response(504, "EXCEEDED_SYNC_WINDOW")
    ELSE Success

\* health(): raise_for_status() takes redirects for errors too; a body that is
\* not JSON is nobody's exception.
Health(wire) ==
    IF wire.kind = "timeout" THEN Response(504, "METABASE_TIMEOUT")
    ELSE IF wire.kind = "broken" \/ wire.status >= 300 THEN Response(503, "METABASE_UNAVAILABLE")
    ELSE IF wire.body.kind = "text" THEN Exception
    ELSE Success

-----------------------------------------------------------------------------
\* Whether payload.get("data") or data.get("rows") is no method at all.
RowsRaise(body) == body.kind # "object" \/ body.data = Junk

\* Cells without a name and names without a cell are dropped; of two columns
\* with one name the later one counts.
RowDict(names, row) ==
    LET n == Min({Len(names), Len(row)})
        at(c) == Max({i \in 1..n : names[i] = c})
    IN  [c \in {names[i] : i \in 1..n} |-> row[at(c)]]

\* metabase_rows_as_dicts()
Rows(body) ==
    IF ~HasRows(body) THEN << >>
    ELSE LET names == IF body.data.cols = None THEN << >> ELSE body.data.cols
         IN  [i \in DOMAIN body.data.rows |-> RowDict(names, body.data.rows[i])]
=============================================================================
