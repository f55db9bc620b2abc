----------------------------- MODULE Responses -----------------------------
(***************************************************************************)
(* The responses and exceptions a call can end in, as statuses and codes.  *)
(* An exception has no status: it becomes the 500 of                       *)
(* unhandled_exception_handler outside every middleware of the connector.  *)
(***************************************************************************)
EXTENDS Naturals

CONSTANT None       \* Python's None

Response(status, code) == [status |-> status, code |-> code]
Success   == Response(200, None)
Redirect  == Response(307, None)
Exception == Response(0, "exception")

Responses ==
    {Success, Redirect, Exception} \union
    {Response(401, "UNAUTHORIZED"), Response(403, "FORBIDDEN"),
     Response(404, "NOT_FOUND"), Response(405, "INTERNAL_ERROR"),
     Response(422, "VALIDATION_ERROR"), Response(429, "RATE_LIMITED"),
     Response(502, "METABASE_ERROR"), Response(503, "METABASE_UNAVAILABLE"),
     Response(504, "METABASE_TIMEOUT"), Response(504, "EXCEEDED_SYNC_WINDOW")}

ASSUME ResponsesAssumption == None \notin Responses

\* What MetabaseClient makes of an answer, a silence or a broken connection;
\* Exception when the payload is not of the shape the handler unpacks.
QueryAnswers  == {Success, Exception,
                  Response(502, "METABASE_ERROR"),
                  Response(503, "METABASE_UNAVAILABLE"),
                  Response(504, "METABASE_TIMEOUT"),
                  Response(504, "EXCEEDED_SYNC_WINDOW")}
HealthAnswers == {Success, Exception,
                  Response(503, "METABASE_UNAVAILABLE"),
                  Response(504, "METABASE_TIMEOUT")}
=============================================================================
