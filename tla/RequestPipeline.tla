-------------------------- MODULE RequestPipeline --------------------------
(***************************************************************************)
(* The connector's process: concurrent calls on one event loop, each going *)
(* down the middlewares                                                    *)
(*     RequestID -> Audit -> Telemetry -> Auth -> RateLimit -> handler     *)
(* and back up, with the audit rows written by tasks of their own, graceful*)
(* shutdown, and crashes followed by a restart.                            *)
(*                                                                         *)
(* The loop runs the tasks in `ready` first in, first out, each up to its  *)
(* next await.  A call gives way to the others at least once per layer,    *)
(* because BaseHTTPMiddleware runs what is below it in a task of its own;  *)
(* a layer that only passes the call on is folded into its neighbour.  A   *)
(* call waits outside the loop for its body and for Metabase.  The audit   *)
(* store is the SQLite one: what it has written survives a crash.          *)
(***************************************************************************)
EXTENDS ConnectorConfig, Sequences, FiniteSets

CONSTANTS
    Requests,       \* the calls of a behaviour
    Inputs,         \* the calls a client may make
    ClientIds,      \* X-Request-ID values clients send
    Wirings,        \* what may be configured: the Metabase client, the card id
    MaxCrashes      \* bound: crashes in a behaviour

Forms == {"ok",       \* a POST with a body the route's schema accepts
          "method",   \* another method
          "json",     \* a body that is not JSON
          "schema"}   \* a JSON body the route's schema rejects

\* What the code tells apart of a call.
Calls ==
    {c \in [path : Paths, key : Keys \union {None, UnknownKey},
            form : Forms, rid : ClientIds \union {None}] :
        c.path \notin RpcRoutes => c.form = "ok"}

ASSUME InputsAssumption ==
    /\ Inputs \subseteq Calls
    /\ Wirings \subseteq SUBSET {"client", "card"}

ASSUME RequestsAssumption ==
    /\ IsFiniteSet(Requests)
    /\ None \notin Requests \union ClientIds
    /\ Requests \intersect ClientIds = {}

ASSUME CrashesAssumption == MaxCrashes \in Nat

VARIABLES
    server,         \* up, draining after SIGTERM, closed by the lifespan's end
    configured,     \* which of "client" and "card" the settings provide
    crashes,        \* crashes so far
    ready,          \* the event loop's queue of tasks
    pc,             \* the layer each call runs next
    input,          \* what each client sends
    earlier,        \* history: the calls answered when each call arrived
    request_id,     \* request.state.request_id
    consumer,       \* request.state.consumer
    outcome,        \* the response or exception travelling up
    reply,          \* what the client received
    called,         \* whether the call's query was sent to Metabase
    seen,           \* the calls whose rows read_audit returned
    store,          \* the rows of the audit store, oldest first
    lost,           \* history: rows that never reached the store, and why
    storage,        \* the rate limiter's hits per bucket
    granted,        \* history: hits let pass in the bucket's current window
    requests_total  \* connector_rpc_requests_total

process == <<server, configured, crashes>>
sent    == <<input, earlier>>
state   == <<request_id, consumer>>
work    == <<called, seen>>
audit   == <<store, lost>>
limiter == <<storage, granted>>
vars    == <<process, ready, pc, sent, state, outcome, reply, work, audit,
             limiter, requests_total>>

-----------------------------------------------------------------------------
\* Faulty variant: an exception, which has no status, passes for a success.
IsNoError(o) == o.status < 400

IsSuccess(o) == 200 <= o.status /\ o.status < 400

IsRpc(r)     == input[r].path \in RpcPaths
IsPublic(r)  == input[r].path \in PublicPaths
IsQuery(r)   == input[r].path \in {"/rpc/partner_revenue", "/rpc/execute_sql"}
\* Faulty variant: a route asks for "general" whatever it serves.
HasGeneral(r) == "general" \in consumer[r].scope

HasScope(r)  == RequiredScope(input[r].path) \in consumer[r].scope

CallTask(r)    == <<"call", r>>
WriteTask(row) == <<"write", row>>

\* Call r is the task the loop runs now, and it is at layer l.
Runs(r, l) == ready # <<>> /\ Head(ready) = CallTask(r) /\ pc[r] = l

\* It goes on to a layer, after the tasks that are ready already ...
GoesTo(r, l) ==
    /\ pc' = [pc EXCEPT ![r] = l]
    /\ ready' = Append(Tail(ready), CallTask(r))

\* ... or waits for something outside the loop ...
WaitsAt(r, l) ==
    /\ pc' = [pc EXCEPT ![r] = l]
    /\ ready' = Tail(ready)

\* ... which makes it ready again.
Resumes(r, l) ==
    /\ pc' = [pc EXCEPT ![r] = l]
    /\ ready' = Append(ready, CallTask(r))

\* The layer a response meets first on its way up.
FirstUp(r) ==
    IF RpcName(input[r].path) # None THEN "telemetry_up"
    ELSE IF IsRpc(r) THEN "audit_up" ELSE "request_id_up"

Responds(r, o) ==
    /\ outcome' = [outcome EXCEPT ![r] = o]
    /\ GoesTo(r, FirstUp(r))

-----------------------------------------------------------------------------
(***************************************************************************)
(* Down the middlewares.                                                   *)
(***************************************************************************)
Arrive(r) ==
    /\ server = "up"
    /\ pc[r] = "idle"
    /\ Resumes(r, "request_id")
    /\ earlier' = [earlier EXCEPT ![r] = {q \in Requests : pc[q] = "done"}]
    /\ UNCHANGED <<process, input, state, outcome, reply, work, audit,
                   limiter, requests_total>>

\* Faulty variant: a missing header is not replaced by a fresh id.
RequestIDOfHeader(r) ==
    /\ Runs(r, "request_id")
    /\ request_id' = [request_id EXCEPT ![r] = input[r].rid]
    /\ GoesTo(r, IF IsRpc(r) THEN "audit" ELSE "auth")
    /\ UNCHANGED <<process, sent, consumer, outcome, reply, work, audit,
                   limiter, requests_total>>

\* A call without the header gets an id of its own.
RequestID(r) ==
    /\ Runs(r, "request_id")
    /\ request_id' = [request_id EXCEPT
                        ![r] = IF input[r].rid = None THEN r ELSE input[r].rid]
    /\ GoesTo(r, IF IsRpc(r) THEN "audit" ELSE "auth")
    /\ UNCHANGED <<process, sent, consumer, outcome, reply, work, audit,
                   limiter, requests_total>>

\* _read_body() waits for the client.
ReadBody(r) ==
    /\ Runs(r, "audit")
    /\ WaitsAt(r, "body")
    /\ UNCHANGED <<process, sent, state, outcome, reply, work, audit, limiter,
                   requests_total>>

BodyArrives(r) ==
    /\ pc[r] = "body"
    /\ Resumes(r, "auth")
    /\ UNCHANGED <<process, sent, state, outcome, reply, work, audit, limiter,
                   requests_total>>

\* ClientDisconnect is raised before the audit middleware's try block.
ClientDisconnects(r) ==
    /\ pc[r] = "body"
    /\ pc' = [pc EXCEPT ![r] = "gone"]
    /\ UNCHANGED <<process, ready, sent, state, outcome, reply, work, audit,
                   limiter, requests_total>>

AuthBypassed(r) ==
    /\ Runs(r, "auth")
    /\ IsPublic(r)
    /\ GoesTo(r, "ratelimit")
    /\ UNCHANGED <<process, sent, state, outcome, reply, work, audit, limiter,
                   requests_total>>

AuthRejects(r) ==
    /\ Runs(r, "auth")
    /\ ~IsPublic(r)
    /\ input[r].key \notin Keys
    /\ Responds(r, Response(401, "UNAUTHORIZED"))
    /\ UNCHANGED <<process, sent, state, reply, work, audit, limiter,
                   requests_total>>

AuthAccepts(r) ==
    /\ Runs(r, "auth")
    /\ ~IsPublic(r)
    /\ input[r].key \in Keys
    /\ consumer' = [consumer EXCEPT ![r] = KeyToIdentity[input[r].key]]
    /\ GoesTo(r, "ratelimit")
    /\ UNCHANGED <<process, sent, request_id, outcome, reply, work, audit,
                   limiter, requests_total>>

\* The bucket a call hits: by consumer id, not by key, and by raw path.
BucketOf(r) == <<consumer[r].id, input[r].path>>
IsLimited(r) ==
    IsRpc(r) /\ consumer[r] # None /\ ItemFor(input[r].path) # None

RateLimitBypassed(r) ==
    /\ Runs(r, "ratelimit")
    /\ ~IsLimited(r)
    /\ GoesTo(r, "handler")
    /\ UNCHANGED <<process, sent, state, outcome, reply, work, audit, limiter,
                   requests_total>>

\* Faulty variant: the amount is compared with the count before the hit.
RateLimitAdmitsOneMore(r) ==
    /\ Runs(r, "ratelimit")
    /\ IsLimited(r)
    /\ storage[BucketOf(r)] <= Amount(BucketOf(r))
    /\ storage' = [storage EXCEPT ![BucketOf(r)] = @ + 1]
    /\ granted' = [granted EXCEPT ![BucketOf(r)] = @ + 1]
    /\ GoesTo(r, "handler")
    /\ UNCHANGED <<process, sent, state, outcome, reply, work, audit,
                   requests_total>>

\* storage.hit() counts every hit, those it denies too.
RateLimitAdmits(r) ==
    /\ Runs(r, "ratelimit")
    /\ IsLimited(r)
    /\ storage[BucketOf(r)] + 1 <= Amount(BucketOf(r))
    /\ storage' = [storage EXCEPT ![BucketOf(r)] = @ + 1]
    /\ granted' = [granted EXCEPT ![BucketOf(r)] = @ + 1]
    /\ GoesTo(r, "handler")
    /\ UNCHANGED <<process, sent, state, outcome, reply, work, audit,
                   requests_total>>

RateLimitDenies(r) ==
    /\ Runs(r, "ratelimit")
    /\ IsLimited(r)
    /\ storage[BucketOf(r)] + 1 > Amount(BucketOf(r))
    /\ storage' = [storage EXCEPT ![BucketOf(r)] = @ + 1]
    /\ Responds(r, Response(429, "RATE_LIMITED"))
    /\ UNCHANGED <<process, sent, state, reply, work, audit, granted,
                   requests_total>>

\* The clock, as far as the limiter sees it: RateLimiter has the details.
WindowElapses(b) ==
    /\ storage[b] > 0
    /\ storage' = [storage EXCEPT ![b] = 0]
    /\ granted' = [granted EXCEPT ![b] = 0]
    /\ UNCHANGED <<process, ready, pc, sent, state, outcome, reply, work,
                   audit, requests_total>>

-----------------------------------------------------------------------------
(***************************************************************************)
(* The handler: routing, the checks of FastAPI in its order, the RPC.      *)
(***************************************************************************)
Answers(r, o) ==
    /\ Responds(r, o)
    /\ UNCHANGED <<process, sent, state, reply, called, audit, limiter,
                   requests_total>>

\* The calls whose route is found and whose body is read ...
Routed(r)   == input[r].path \in RpcRoutes /\ input[r].form # "method"
Parsed(r)   == Routed(r) /\ input[r].form # "json"
\* ... that pass require_scope() ...
InScope(r)  == Parsed(r) /\ HasScope(r)
\* ... and whose body is valid: the calls an RPC function runs for.
Accepted(r) == InScope(r) /\ input[r].form # "schema"

NoRoute(r) ==
    /\ input[r].path \in {"/rpc/unknown", "/rpc/", "/nowhere"}
    /\ Answers(r, Response(404, "NOT_FOUND"))
    /\ UNCHANGED seen

RedirectsSlash(r) ==
    /\ input[r].path = "/rpc/describe_catalog/"
    /\ Answers(r, Redirect)
    /\ UNCHANGED seen

WrongMethod(r) ==
    /\ input[r].path \in RpcRoutes
    /\ ~Routed(r)
    /\ Answers(r, Response(405, "INTERNAL_ERROR"))
    /\ UNCHANGED seen

BodyNotJson(r) ==
    /\ Routed(r)
    /\ ~Parsed(r)
    /\ Answers(r, Response(422, "VALIDATION_ERROR"))
    /\ UNCHANGED seen

ScopeMissing(r) ==
    /\ Parsed(r)
    /\ ~HasScope(r)
    /\ Answers(r, Response(403, "FORBIDDEN"))
    /\ UNCHANGED seen

BodyInvalid(r) ==
    /\ InScope(r)
    /\ ~Accepted(r)
    /\ Answers(r, Response(422, "VALIDATION_ERROR"))
    /\ UNCHANGED seen

\* healthz, describe_catalog, and upstream_health without a client.
AnswersLocally(r) ==
    /\ \/ input[r].path = "/healthz"
       \/ input[r].path = "/healthz/upstream" /\ "client" \notin configured
       \/ input[r].path = "/rpc/describe_catalog" /\ Accepted(r)
    /\ Answers(r, Success)
    /\ UNCHANGED seen

\* query() does not await: it returns the rows of this instant.
StoreQuery == {store[i].call : i \in DOMAIN store}

ReadAudit(r) ==
    /\ input[r].path = "/rpc/read_audit"
    /\ Accepted(r)
    /\ Answers(r, Success)
    /\ seen' = [seen EXCEPT ![r] = StoreQuery]

\* execute_card_rows() wants the card id and the client, execute_sql() only
\* the client.
IsConfigured(r) ==
    /\ "client" \in configured
    /\ input[r].path = "/rpc/partner_revenue" => "card" \in configured

MetabaseNotConfigured(r) ==
    /\ IsQuery(r)
    /\ Accepted(r)
    /\ ~IsConfigured(r)
    /\ Answers(r, Response(503, "METABASE_UNAVAILABLE"))
    /\ UNCHANGED seen

PostQuery(r) ==
    /\ IsQuery(r)
    /\ Accepted(r)
    /\ IsConfigured(r)
    /\ called' = [called EXCEPT ![r] = TRUE]
    /\ WaitsAt(r, "metabase")
    /\ UNCHANGED <<process, sent, state, outcome, reply, seen, audit, limiter,
                   requests_total>>

GetHealth(r) ==
    /\ input[r].path = "/healthz/upstream"
    /\ "client" \in configured
    /\ WaitsAt(r, "metabase")
    /\ UNCHANGED <<process, sent, state, outcome, reply, work, audit, limiter,
                   requests_total>>

\* Faulty variant: a shutdown abandons the connections to Metabase.
MetabaseAnswersWhileUp(r) ==
    /\ server = "up"
    /\ pc[r] = "metabase"
    /\ \E o \in IF IsQuery(r) THEN QueryAnswers ELSE HealthAnswers :
           outcome' = [outcome EXCEPT ![r] = o]
    /\ Resumes(r, FirstUp(r))
    /\ UNCHANGED <<process, sent, state, reply, work, audit, limiter,
                   requests_total>>

\* An answer, or the client's timeout; the handler's last await is over.
MetabaseAnswers(r) ==
    /\ pc[r] = "metabase"
    /\ \E o \in IF IsQuery(r) THEN QueryAnswers ELSE HealthAnswers :
           outcome' = [outcome EXCEPT ![r] = o]
    /\ Resumes(r, FirstUp(r))
    /\ UNCHANGED <<process, sent, state, reply, work, audit, limiter,
                   requests_total>>

-----------------------------------------------------------------------------
(***************************************************************************)
(* Up the middlewares.                                                     *)
(***************************************************************************)
CallerType(r) == IF consumer[r] = None THEN None ELSE consumer[r].consumer_type

StatusOf(o) == IF IsSuccess(o) THEN "success" ELSE "error"

\* The metric has no None label.
Label(rpc, consumer_type, status) ==
    <<rpc, IF consumer_type = None THEN "anonymous" ELSE consumer_type, status>>

Labels == RpcNames \X (ConsumerTypes \union {"anonymous"}) \X {"success", "error"}

\* Faulty variant: an exception is counted by nobody.
TelemetryWithoutFinally(r) ==
    /\ Runs(r, "telemetry_up")
    /\ LET label == Label(RpcName(input[r].path), CallerType(r), StatusOf(outcome[r]))
       IN  requests_total' =
              IF outcome[r] = Exception THEN requests_total
              ELSE [requests_total EXCEPT ![label] = @ + 1]
    /\ GoesTo(r, "audit_up")
    /\ UNCHANGED <<process, sent, state, outcome, reply, work, audit, limiter>>

Telemetry(r) ==
    /\ Runs(r, "telemetry_up")
    /\ LET label == Label(RpcName(input[r].path), CallerType(r), StatusOf(outcome[r]))
       IN  requests_total' = [requests_total EXCEPT ![label] = @ + 1]
    /\ GoesTo(r, "audit_up")
    /\ UNCHANGED <<process, sent, state, outcome, reply, work, audit, limiter>>

\* The row for a call; `call` is history, the code keeps no such column.
Record(r) ==
    [call          |-> r,
     request_id    |-> request_id[r],
     caller_id     |-> IF consumer[r] = None THEN None ELSE consumer[r].id,
     consumer_type |-> CallerType(r),
     rpc_name      |-> RpcName(input[r].path),
     status        |-> StatusOf(outcome[r]),
     error_code    |-> IF IsSuccess(outcome[r]) THEN None ELSE outcome[r].code]

\* Faulty variant: the row is written once the response has been passed on.
AuditAfterReply(r) ==
    /\ Runs(r, "audit_up")
    /\ pc' = [pc EXCEPT ![r] = "request_id_up"]
    /\ ready' = Tail(ready) \o <<CallTask(r), WriteTask(Record(r))>>
    /\ UNCHANGED <<process, sent, state, outcome, reply, work, audit, limiter,
                   requests_total>>

\* Faulty variant: an exception leaves no row.
AuditWithoutFinally(r) ==
    /\ Runs(r, "audit_up")
    /\ pc' = [pc EXCEPT ![r] = "request_id_up"]
    /\ ready' = IF outcome[r] = Exception
                THEN Append(Tail(ready), CallTask(r))
                ELSE Tail(ready) \o <<WriteTask(Record(r)), CallTask(r)>>
    /\ UNCHANGED <<process, sent, state, outcome, reply, work, audit, limiter,
                   requests_total>>

\* create_task() makes the write ready before this call gives way.
Audit(r) ==
    /\ Runs(r, "audit_up")
    /\ pc' = [pc EXCEPT ![r] = "request_id_up"]
    /\ ready' = Tail(ready) \o <<WriteTask(Record(r)), CallTask(r)>>
    /\ UNCHANGED <<process, sent, state, outcome, reply, work, audit, limiter,
                   requests_total>>

\* RequestIDMiddleware sets the header, or the handler of unhandled
\* exceptions does, and the response leaves.
Reply(r) ==
    /\ Runs(r, "request_id_up")
    /\ WaitsAt(r, "done")
    /\ reply' = [reply EXCEPT ![r] =
            [status     |-> IF outcome[r] = Exception THEN 500 ELSE outcome[r].status,
             code       |-> IF outcome[r] = Exception THEN "INTERNAL_ERROR"
                            ELSE outcome[r].code,
             request_id |-> request_id[r]]]
    /\ UNCHANGED <<process, sent, state, outcome, work, audit, limiter,
                   requests_total>>

\* The INSERT of one row, without an await.
StoreWrite(row) == store' = Append(store, row)

\* _write(): the store may refuse the row, and the exception is swallowed.  A
\* closed store always does.
IsWrite(task) == task[1] = "write"

AuditWrite ==
    /\ ready # <<>>
    /\ IsWrite(Head(ready))
    /\ ready' = Tail(ready)
    /\ LET row == Head(ready)[2]
       IN  \/ /\ server # "closed"
              /\ StoreWrite(row)
              /\ UNCHANGED lost
           \/ /\ lost' = lost \union
                      {<<row, IF server = "closed" THEN "closed" ELSE "refused">>}
              /\ UNCHANGED store
    /\ UNCHANGED <<process, pc, sent, state, outcome, reply, work, limiter,
                   requests_total>>

-----------------------------------------------------------------------------
(***************************************************************************)
(* The process.                                                            *)
(***************************************************************************)
NothingInFlight == \A r \in Requests : pc[r] \in {"idle", "done", "gone"}

StopAccepting ==
    /\ server = "up"
    /\ server' = "draining"
    /\ UNCHANGED <<configured, crashes, ready, pc, sent, state, outcome, reply,
                   work, audit, limiter, requests_total>>

\* Faulty variant: the server waits for calls that will never be answered.
CloseWhenAllAnswered ==
    /\ server = "draining"
    /\ \A r \in Requests : pc[r] = "done"
    /\ server' = "closed"
    /\ UNCHANGED <<configured, crashes, ready, pc, sent, state, outcome, reply,
                   work, audit, limiter, requests_total>>

\* The server waits for the calls in flight and ends the lifespan, which
\* closes the Metabase client and the store.
Close ==
    /\ server = "draining"
    /\ NothingInFlight
    /\ server' = "closed"
    /\ UNCHANGED <<configured, crashes, ready, pc, sent, state, outcome, reply,
                   work, audit, limiter, requests_total>>

PendingRows == {task[2] : task \in {ready[i] : i \in {j \in DOMAIN ready : IsWrite(ready[j])}}}

\* The process dies at any await and is started again.
Crash ==
    /\ server # "closed"
    /\ crashes < MaxCrashes
    /\ crashes' = crashes + 1
    /\ server' = "up"
    /\ ready' = <<>>
    /\ pc' = [r \in Requests |-> IF pc[r] \in {"idle", "done"} THEN pc[r] ELSE "gone"]
    /\ lost' = lost \union {<<row, "crash">> : row \in PendingRows}
    /\ storage' = [b \in Buckets |-> 0]
    /\ granted' = [b \in Buckets |-> 0]
    /\ requests_total' = [label \in Labels |-> 0]
    /\ UNCHANGED <<configured, sent, state, outcome, reply, work, store>>

-----------------------------------------------------------------------------
Init ==
    /\ server = "up"
    /\ configured \in Wirings
    /\ crashes = 0
    /\ ready = <<>>
    /\ pc = [r \in Requests |-> "idle"]
    /\ input \in [Requests -> Inputs]
    /\ earlier = [r \in Requests |-> {}]
    /\ request_id = [r \in Requests |-> None]
    /\ consumer = [r \in Requests |-> None]
    /\ outcome = [r \in Requests |-> None]
    /\ reply = [r \in Requests |-> None]
    /\ called = [r \in Requests |-> FALSE]
    /\ seen = [r \in Requests |-> None]
    /\ store = <<>>
    /\ lost = {}
    /\ storage = [b \in Buckets |-> 0]
    /\ granted = [b \in Buckets |-> 0]
    /\ requests_total = [label \in Labels |-> 0]

Handler(r) ==
    /\ Runs(r, "handler")
    /\ \/ NoRoute(r) \/ RedirectsSlash(r) \/ WrongMethod(r)
       \/ BodyNotJson(r) \/ ScopeMissing(r) \/ BodyInvalid(r)
       \/ AnswersLocally(r) \/ ReadAudit(r)
       \/ MetabaseNotConfigured(r) \/ PostQuery(r) \/ GetHealth(r)

CallStep(r) ==
    \/ RequestID(r) \/ ReadBody(r)
    \/ AuthBypassed(r) \/ AuthRejects(r) \/ AuthAccepts(r)
    \/ RateLimitBypassed(r) \/ RateLimitAdmits(r) \/ RateLimitDenies(r)
    \/ Handler(r)
    \/ Telemetry(r) \/ Audit(r) \/ Reply(r)

\* The event loop runs the first task that is ready.
LoopStep == AuditWrite \/ \E r \in Requests : CallStep(r)

Next ==
    \/ LoopStep
    \/ \E r \in Requests :
          Arrive(r) \/ BodyArrives(r) \/ ClientDisconnects(r) \/ MetabaseAnswers(r)
    \/ \E b \in Buckets : WindowElapses(b)
    \/ StopAccepting \/ Close \/ Crash

Spec == Init /\ [][Next]_vars

\* The loop never idles with a task ready, httpx bounds every wait for
\* Metabase by a timeout, and the server ends the lifespan once it is drained.
\* Clients owe nothing: neither calls nor bodies.
Fairness ==
    /\ WF_vars(LoopStep)
    /\ \A r \in Requests : WF_vars(MetabaseAnswers(r))
    /\ WF_vars(Close)

FairSpec == Spec /\ Fairness

-----------------------------------------------------------------------------
Layers == {"idle", "request_id", "audit", "body", "auth", "ratelimit",
           "handler", "metabase", "telemetry_up", "audit_up", "request_id_up",
           "done", "gone"}

Rows == [call : Requests,
         request_id : Requests \union ClientIds,
         caller_id : Consumers \union {None},
         consumer_type : ConsumerTypes \union {None},
         rpc_name : RpcNames \union {None},
         status : {"success", "error"},
         error_code : {o.code : o \in Responses}]

Replies == [status : {o.status : o \in Responses} \union {500},
            code : {o.code : o \in Responses} \union {"INTERNAL_ERROR"},
            request_id : Requests \union ClientIds]

Tasks == {CallTask(r) : r \in Requests} \union {WriteTask(row) : row \in Rows}

TypeOK ==
    /\ server \in {"up", "draining", "closed"}
    /\ configured \in Wirings
    /\ crashes \in 0 .. MaxCrashes
    /\ ready \in Seq(Tasks)
    /\ pc \in [Requests -> Layers]
    /\ input \in [Requests -> Inputs]
    /\ earlier \in [Requests -> SUBSET Requests]
    /\ request_id \in [Requests -> Requests \union ClientIds \union {None}]
    /\ consumer \in [Requests -> ConsumerIdentity \union {None}]
    /\ outcome \in [Requests -> Responses \union {None}]
    /\ reply \in [Requests -> Replies \union {None}]
    /\ called \in [Requests -> BOOLEAN]
    /\ seen \in [Requests -> (SUBSET Requests) \union {None}]
    /\ store \in Seq(Rows)
    /\ lost \subseteq Rows \X {"refused", "closed", "crash"}
    /\ storage \in [Buckets -> Nat]
    /\ granted \in [Buckets -> Nat]
    /\ requests_total \in [Labels -> Nat]

\* What a call carries at each layer: the id and the response the code reads
\* with getattr() or unconditionally are there, and request.state.consumer is
\* nobody but the owner of the call's own key, from the auth middleware on
\* (request_id.py:17-22, auth.py:128).
CarriesWhatIsRead ==
    \A r \in Requests :
        /\ pc[r] \notin {"idle", "request_id", "gone"} => request_id[r] # None
        /\ pc[r] \in {"telemetry_up", "audit_up", "request_id_up", "done"} =>
              outcome[r] # None
        /\ pc[r] = "telemetry_up" => RpcName(input[r].path) # None
        /\ consumer[r] # None =>
              input[r].key \in Keys /\ consumer[r] = KeyToIdentity[input[r].key]
        /\ pc[r] \in {"ratelimit", "handler"} /\ ~IsPublic(r) => consumer[r] # None

-----------------------------------------------------------------------------
(***************************************************************************)
(* Who is served.                                                          *)
(***************************************************************************)
\* Metabase runs a query only for a call whose key is in the table, whose
\* identity holds the route's scope, and whose body is valid, whatever other
\* calls do in between (auth.py:108-129, scopes.py:15-23).
UpstreamAuthorised ==
    \A r \in Requests :
        called[r] =>
            /\ input[r].key \in Keys
            /\ RequiredScope(input[r].path) \in KeyToIdentity[input[r].key].scope
            /\ input[r].form = "ok"

Budget == INSTANCE WindowBudget WITH
    refused <- {b \in Buckets : storage[b] > Amount(b)}

\* With calls interleaved, crashes, and keys sharing a consumer, the buckets
\* keep the promise of WindowBudget (ratelimit.py:82-102).
ImplementsBudget == Budget!Spec

-----------------------------------------------------------------------------
(***************************************************************************)
(* The audit log.                                                          *)
(***************************************************************************)
StoredFor(r)  == {i \in DOMAIN store : store[i].call = r}
PendingFor(r) == {row \in PendingRows : row.call = r}
LostFor(r)    == {l \in lost : l[1].call = r}

\* Each call under /rpc/ leaves one row, counting those on their way and those
\* known to be lost, once its response has passed the audit middleware; no
\* other call leaves any (audit.py:87-144).
OneRowPerCall ==
    \A r \in Requests :
        LET rows == Cardinality(StoredFor(r)) + Cardinality(PendingFor(r))
                        + Cardinality(LostFor(r))
        IN  /\ rows <= 1
            /\ pc[r] \in {"request_id_up", "done"} => (rows = 1 <=> IsRpc(r))
            /\ rows = 1 => IsRpc(r) /\ pc[r] \in {"request_id_up", "done", "gone"}

\* When a client has its reply, the row of its call is in the store, unless the
\* store refused it: neither a crash nor the shutdown that closes the store
\* loses the row of an answered call (audit.py:78-80, app.py:61-65).
AnsweredIsAudited ==
    \A r \in Requests :
        pc[r] = "done" /\ IsRpc(r) =>
            StoredFor(r) # {} \/ \E l \in LostFor(r) : l[2] = "refused"

\* Why AnsweredIsAudited holds.  A call has one task in the queue exactly when
\* it waits for nothing outside the loop, and the write of its row, while it is
\* there, is ahead of that task: the call cannot leave before its row is
\* settled, nor the server close before the queue is empty.
Waits(r) == pc[r] \in {"idle", "body", "metabase", "done", "gone"}

IsWriteFor(task, r) == IsWrite(task) /\ task[2].call = r

Settled(r) ==
    \/ \E i \in DOMAIN store : store[i].call = r
    \/ \E l \in lost : l[1].call = r /\ l[2] = "refused"

WritesGoFirst ==
    /\ server = "closed" => NothingInFlight
    /\ \A r \in Requests :
          /\ Waits(r) => \A i \in DOMAIN ready :
                            ready[i] # CallTask(r) /\ ~IsWriteFor(ready[i], r)
          /\ ~Waits(r) => \E i \in DOMAIN ready :
                            /\ ready[i] = CallTask(r)
                            /\ \A j \in DOMAIN ready :
                                  /\ ready[j] = CallTask(r) => j = i
                                  /\ IsWriteFor(ready[j], r) =>
                                        j < i /\ pc[r] = "request_id_up"
          /\ pc[r] = "request_id_up" /\ IsRpc(r) =>
                Settled(r) \/ \E i \in DOMAIN ready : IsWriteFor(ready[i], r)
          /\ pc[r] = "done" /\ IsRpc(r) => Settled(r)

\* A row tells who called, under which id, and how it ended, as the client saw
\* it; a call that ended in an unhandled exception has the exception's name
\* where the client has INTERNAL_ERROR (audit.py:104-138, README.md:268).
RowsTellTheTruth ==
    \A i \in DOMAIN store :
        LET row == store[i]
            r   == row.call
        IN  /\ row.caller_id = IF input[r].key \in Keys
                               THEN KeyToIdentity[input[r].key].id ELSE None
            /\ pc[r] = "done" =>
                /\ row.request_id = reply[r].request_id
                /\ row.status = "success" <=> reply[r].status < 400
                /\ \/ row.error_code = reply[r].code
                   \/ reply[r].status = 500 /\ row.error_code = "exception"

\* read_audit shows an operator every call that was answered before the
\* operator's own call arrived (read_audit.py:68-78).
ReadSeesAnswered ==
    \A r \in Requests :
        seen[r] # None =>
            \A q \in earlier[r] :
                IsRpc(q) => q \in seen[r] \/ \E l \in LostFor(q) : l[2] = "refused"

\* With nothing in flight, the counters of telemetry.py and the rows of the
\* audit log, kept by different middlewares, agree on every label
\* (middleware/telemetry.py:38-44, middleware/audit.py:104-138).  A call to
\* "/rpc/" has a row and no counter.
MetricsMatchAudit ==
    NothingInFlight /\ ready = <<>> /\ crashes = 0 =>
        \A label \in Labels :
            LET Matches(row) ==
                    row.rpc_name # None /\ Label(row.rpc_name, row.consumer_type, row.status) = label
            IN  requests_total[label] =
                    Cardinality({i \in DOMAIN store : Matches(store[i])})
                        + Cardinality({l \in lost : Matches(l[1])})

\* The lifespan's end finds no audit write still to run (app.py:61-65).
NothingWrittenAfterClose == server = "closed" => PendingRows = {}

-----------------------------------------------------------------------------
(***************************************************************************)
(* Progress.                                                               *)
(***************************************************************************)
\* Once its body is there, a call is answered whatever Metabase does, unless
\* the process dies (metabase.py:107-140 bounds the wait).
CallsAnswered ==
    \A r \in Requests : pc[r] = "auth" ~> pc[r] \in {"done", "gone"}

\* A shutdown completes once no call waits for its client's body, unless a
\* crash restarts the process.
ShutdownCompletes ==
    server = "draining" /\ (\A r \in Requests : pc[r] \notin {"request_id", "audit", "body"})
        ~> server \in {"closed", "up"}

=============================================================================
