----------------------- MODULE RequestPipelineProofs -----------------------
(***************************************************************************)
(* Proofs about the request pipeline, for any number of calls, any key     *)
(* table, any limits and any number of crashes.                            *)
(***************************************************************************)
EXTENDS RequestPipeline, TLAPS

-----------------------------------------------------------------------------
(***************************************************************************)
(* What the helpers of the actions return.                                 *)
(***************************************************************************)
LEMMA ResponsesType ==
    /\ Success \in Responses /\ Redirect \in Responses /\ Exception \in Responses
    /\ Response(401, "UNAUTHORIZED") \in Responses
    /\ Response(403, "FORBIDDEN") \in Responses
    /\ Response(404, "NOT_FOUND") \in Responses
    /\ Response(405, "INTERNAL_ERROR") \in Responses
    /\ Response(422, "VALIDATION_ERROR") \in Responses
    /\ Response(429, "RATE_LIMITED") \in Responses
    /\ Response(503, "METABASE_UNAVAILABLE") \in Responses
    /\ QueryAnswers \subseteq Responses
    /\ HealthAnswers \subseteq Responses
BY DEF Responses, QueryAnswers, HealthAnswers

LEMMA RpcNameType ==
    ASSUME NEW path
    PROVE  RpcName(path) \in RpcNames \union {None}
BY DEF RpcName, RpcNames

LEMMA InputType ==
    ASSUME TypeOK, NEW r \in Requests
    PROVE  /\ input[r] \in Inputs
           /\ input[r].path \in Paths
           /\ input[r].key \in Keys \union {None, UnknownKey}
           /\ input[r].rid \in ClientIds \union {None}
BY InputsAssumption DEF TypeOK, Calls

LEMMA AmountType ==
    ASSUME NEW b \in Buckets
    PROVE  Amount(b) \in Nat /\ Amount(b) >= 1
<1>1. b[2] \in RpcPaths /\ ItemFor(b[2]) # None
  BY DEF Buckets, LimitedPaths
<1>2. ItemFor(b[2]) \in (Nat \ {0}) \union {None}
  BY LimitsAssumption DEF ItemFor, Or
<1> QED
  BY <1>1, <1>2 DEF Amount

LEMMA BucketOfType ==
    ASSUME TypeOK, NEW r \in Requests, IsLimited(r)
    PROVE  BucketOf(r) \in Buckets
<1>1. consumer[r] \in ConsumerIdentity /\ input[r].path \in LimitedPaths
  BY DEF TypeOK, IsLimited, IsRpc, LimitedPaths
<1>2. consumer[r].id \in Consumers
  BY <1>1 DEF ConsumerIdentity
<1> QED
  BY <1>1, <1>2 DEF BucketOf, Buckets

LEMMA FirstUpType ==
    ASSUME NEW r \in Requests
    PROVE  FirstUp(r) \in {"telemetry_up", "audit_up", "request_id_up"}
BY DEF FirstUp

LEMMA RequestsNotNone == None \notin Requests /\ None \notin ClientIds
BY RequestsAssumption

\* The queue and the layers keep their types when a call moves.
LEMMA MoveType ==
    ASSUME TypeOK, NEW r \in Requests, NEW l \in Layers,
           \/ ready # <<>> /\ GoesTo(r, l)
           \/ ready # <<>> /\ WaitsAt(r, l)
           \/ Resumes(r, l)
    PROVE  ready' \in Seq(Tasks) /\ pc' \in [Requests -> Layers]
<1>1. CallTask(r) \in Tasks
  BY DEF Tasks
<1>2. ready \in Seq(Tasks) /\ pc \in [Requests -> Layers]
  BY DEF TypeOK
<1>3. pc' \in [Requests -> Layers]
  BY <1>2 DEF GoesTo, WaitsAt, Resumes
<1>4. CASE ready # <<>> /\ GoesTo(r, l)
  BY <1>1, <1>2, <1>3, <1>4 DEF GoesTo
<1>5. CASE ready # <<>> /\ WaitsAt(r, l)
  BY <1>2, <1>3, <1>5 DEF WaitsAt
<1>6. CASE Resumes(r, l)
  BY <1>1, <1>2, <1>3, <1>6 DEF Resumes
<1> QED
  BY <1>4, <1>5, <1>6

LEMMA RespondsType ==
    ASSUME TypeOK, NEW r \in Requests, NEW o \in Responses,
           ready # <<>>, Responds(r, o)
    PROVE  /\ ready' \in Seq(Tasks)
           /\ pc' \in [Requests -> Layers]
           /\ outcome' \in [Requests -> Responses \union {None}]
<1>1. FirstUp(r) \in Layers
  BY FirstUpType DEF Layers
<1>2. GoesTo(r, FirstUp(r))
  BY DEF Responds
<1>3. ready' \in Seq(Tasks) /\ pc' \in [Requests -> Layers]
  BY <1>1, <1>2, MoveType
<1>4. outcome' \in [Requests -> Responses \union {None}]
  BY DEF Responds, TypeOK
<1> QED
  BY <1>3, <1>4

\* A call that reaches the audit middleware on its way up makes a row.
LEMMA RecordType ==
    ASSUME TypeOK, NEW r \in Requests, outcome[r] # None, request_id[r] # None
    PROVE  Record(r) \in Rows
<1>1. outcome[r] \in Responses /\ request_id[r] \in Requests \union ClientIds
  BY DEF TypeOK
<1>2. consumer[r] \in ConsumerIdentity \union {None}
  BY DEF TypeOK
<1>3. /\ (IF consumer[r] = None THEN None ELSE consumer[r].id) \in Consumers \union {None}
      /\ CallerType(r) \in ConsumerTypes \union {None}
  BY <1>2 DEF ConsumerIdentity, CallerType
<1>4. StatusOf(outcome[r]) \in {"success", "error"}
  BY DEF StatusOf
<1>5. outcome[r].code \in {o.code : o \in Responses}
  BY <1>1
<1>6. None \in {o.code : o \in Responses}
  <2>1. Success.code = None
    BY DEF Success, Response
  <2>2. Success.code \in {o.code : o \in Responses}
    BY ResponsesType
  <2> QED
    BY <2>1, <2>2
<1>7. (IF IsSuccess(outcome[r]) THEN None ELSE outcome[r].code)
          \in {o.code : o \in Responses}
  BY <1>5, <1>6
<1> QED
  BY <1>1, <1>3, <1>4, <1>7, RpcNameType DEF Record, Rows

LEMMA ReplyType ==
    ASSUME TypeOK, NEW r \in Requests, outcome[r] # None, request_id[r] # None,
           Reply(r)
    PROVE  reply' \in [Requests -> Replies \union {None}]
<1> DEFINE status == IF outcome[r] = Exception THEN 500 ELSE outcome[r].status
           code   == IF outcome[r] = Exception THEN "INTERNAL_ERROR" ELSE outcome[r].code
           new    == [status |-> status, code |-> code, request_id |-> request_id[r]]
<1>1. outcome[r] \in Responses /\ request_id[r] \in Requests \union ClientIds
  BY DEF TypeOK
<1>2. status \in {o.status : o \in Responses} \union {500}
  BY <1>1
<1>3. code \in {o.code : o \in Responses} \union {"INTERNAL_ERROR"}
  BY <1>1
<1>4. new \in Replies
  BY <1>1, <1>2, <1>3 DEF Replies
<1>5. reply' = [reply EXCEPT ![r] = new]
  BY DEF Reply
<1> QED
  BY <1>4, <1>5 DEF TypeOK

LEMMA LabelType ==
    ASSUME TypeOK, NEW r \in Requests, RpcName(input[r].path) # None
    PROVE  Label(RpcName(input[r].path), CallerType(r), StatusOf(outcome[r])) \in Labels
<1>1. consumer[r] \in ConsumerIdentity \union {None}
  BY DEF TypeOK
<1>2. CallerType(r) \in ConsumerTypes \union {None}
  BY <1>1 DEF ConsumerIdentity, CallerType
<1>3. StatusOf(outcome[r]) \in {"success", "error"}
  BY DEF StatusOf
<1>4. RpcName(input[r].path) \in RpcNames
  BY RpcNameType
<1> QED
  BY <1>2, <1>3, <1>4 DEF Label, Labels

-----------------------------------------------------------------------------
(***************************************************************************)
(* Type correctness.                                                       *)
(***************************************************************************)
\* The handler's actions.
LEMMA HandlerType ==
    ASSUME TypeOK, NEW r \in Requests, Handler(r)
    PROVE  TypeOK'
<1> USE DEF TypeOK
<1>0. ready # <<>>
  BY DEF Handler, Runs
<1>1. ASSUME NEW o \in Responses, Answers(r, o), seen' = seen
      PROVE  TypeOK'
  <2>1. /\ ready' \in Seq(Tasks) /\ pc' \in [Requests -> Layers]
        /\ outcome' \in [Requests -> Responses \union {None}]
    BY <1>0, <1>1, RespondsType DEF Answers
  <2> QED
    BY <1>1, <2>1 DEF Answers, process, sent, state, audit, limiter
<1>2. CASE NoRoute(r)
  BY <1>1, <1>2, ResponsesType DEF NoRoute
<1>3. CASE RedirectsSlash(r)
  BY <1>1, <1>3, ResponsesType DEF RedirectsSlash
<1>4. CASE WrongMethod(r)
  BY <1>1, <1>4, ResponsesType DEF WrongMethod
<1>5. CASE BodyNotJson(r)
  BY <1>1, <1>5, ResponsesType DEF BodyNotJson
<1>6. CASE ScopeMissing(r)
  BY <1>1, <1>6, ResponsesType DEF ScopeMissing
<1>7. CASE BodyInvalid(r)
  BY <1>1, <1>7, ResponsesType DEF BodyInvalid
<1>8. CASE AnswersLocally(r)
  BY <1>1, <1>8, ResponsesType DEF AnswersLocally
<1>9. CASE ReadAudit(r)
  <2>1. Answers(r, Success)
    BY <1>9 DEF ReadAudit, StoreQuery
  <2>2. /\ ready' \in Seq(Tasks) /\ pc' \in [Requests -> Layers]
        /\ outcome' \in [Requests -> Responses \union {None}]
    BY <1>0, <2>1, RespondsType, ResponsesType DEF Answers
  <2>3. {store[i].call : i \in DOMAIN store} \subseteq Requests
    <3>1. \A i \in DOMAIN store : store[i] \in Rows
      OBVIOUS
    <3> QED
      BY <3>1 DEF Rows
  <2>4. seen' \in [Requests -> (SUBSET Requests) \union {None}]
    BY <1>9, <2>3 DEF ReadAudit, StoreQuery
  <2> QED
    BY <2>1, <2>2, <2>4 DEF Answers, process, sent, state, audit, limiter
<1>10. CASE MetabaseNotConfigured(r)
  BY <1>1, <1>10, ResponsesType DEF MetabaseNotConfigured
<1>11. CASE PostQuery(r)
  <2>1. ready' \in Seq(Tasks) /\ pc' \in [Requests -> Layers]
    BY <1>0, <1>11, MoveType DEF PostQuery, Layers
  <2> QED
    BY <1>11, <2>1 DEF PostQuery, process, sent, state, audit, limiter
<1>12. CASE GetHealth(r)
  <2>1. ready' \in Seq(Tasks) /\ pc' \in [Requests -> Layers]
    BY <1>0, <1>12, MoveType DEF GetHealth, Layers
  <2> QED
    BY <1>12, <2>1 DEF GetHealth, process, sent, state, work, audit, limiter
<1> QED
  BY <1>2, <1>3, <1>4, <1>5, <1>6, <1>7, <1>8, <1>9, <1>10, <1>11, <1>12
  DEF Handler

\* The actions of the middlewares, and what wakes a call up.
LEMMA CallType ==
    ASSUME TypeOK, CarriesWhatIsRead, NEW r \in Requests,
           \/ CallStep(r)
           \/ Arrive(r) \/ BodyArrives(r) \/ ClientDisconnects(r) \/ MetabaseAnswers(r)
    PROVE  TypeOK'
<1> USE DEF TypeOK
<1>1. CASE RequestID(r)
  <2>1. request_id' \in [Requests -> Requests \union ClientIds \union {None}]
    BY <1>1, InputType DEF RequestID
  <2>2. ready' \in Seq(Tasks) /\ pc' \in [Requests -> Layers]
    BY <1>1, MoveType DEF RequestID, Runs, Layers
  <2> QED
    BY <1>1, <2>1, <2>2 DEF RequestID, process, sent, work, audit, limiter
<1>2. CASE ReadBody(r)
  <2>1. ready' \in Seq(Tasks) /\ pc' \in [Requests -> Layers]
    BY <1>2, MoveType DEF ReadBody, Runs, Layers
  <2> QED
    BY <1>2, <2>1 DEF ReadBody, process, sent, state, work, audit, limiter
<1>3. CASE AuthBypassed(r)
  <2>1. ready' \in Seq(Tasks) /\ pc' \in [Requests -> Layers]
    BY <1>3, MoveType DEF AuthBypassed, Runs, Layers
  <2> QED
    BY <1>3, <2>1 DEF AuthBypassed, process, sent, state, work, audit, limiter
<1>4. CASE AuthRejects(r)
  <2>1. /\ ready' \in Seq(Tasks) /\ pc' \in [Requests -> Layers]
        /\ outcome' \in [Requests -> Responses \union {None}]
    BY <1>4, RespondsType, ResponsesType DEF AuthRejects, Runs
  <2> QED
    BY <1>4, <2>1 DEF AuthRejects, process, sent, state, work, audit, limiter
<1>5. CASE AuthAccepts(r)
  <2>1. ready' \in Seq(Tasks) /\ pc' \in [Requests -> Layers]
    BY <1>5, MoveType DEF AuthAccepts, Runs, Layers
  <2>2. consumer' \in [Requests -> ConsumerIdentity \union {None}]
    BY <1>5, KeysAssumption DEF AuthAccepts
  <2> QED
    BY <1>5, <2>1, <2>2 DEF AuthAccepts, process, sent, work, audit, limiter
<1>6. CASE RateLimitBypassed(r)
  <2>1. ready' \in Seq(Tasks) /\ pc' \in [Requests -> Layers]
    BY <1>6, MoveType DEF RateLimitBypassed, Runs, Layers
  <2> QED
    BY <1>6, <2>1 DEF RateLimitBypassed, process, sent, state, work, audit, limiter
<1>7. CASE RateLimitAdmits(r)
  <2>1. ready' \in Seq(Tasks) /\ pc' \in [Requests -> Layers]
    BY <1>7, MoveType DEF RateLimitAdmits, Runs, Layers
  <2>2. storage' \in [Buckets -> Nat] /\ granted' \in [Buckets -> Nat]
    BY <1>7, BucketOfType DEF RateLimitAdmits
  <2> QED
    BY <1>7, <2>1, <2>2 DEF RateLimitAdmits, process, sent, state, work, audit
<1>8. CASE RateLimitDenies(r)
  <2>1. /\ ready' \in Seq(Tasks) /\ pc' \in [Requests -> Layers]
        /\ outcome' \in [Requests -> Responses \union {None}]
    BY <1>8, RespondsType, ResponsesType DEF RateLimitDenies, Runs
  <2>2. storage' \in [Buckets -> Nat]
    BY <1>8, BucketOfType DEF RateLimitDenies
  <2> QED
    BY <1>8, <2>1, <2>2 DEF RateLimitDenies, process, sent, state, work, audit
<1>9. CASE Handler(r)
  BY <1>9, HandlerType
<1>10. CASE Telemetry(r)
  <2>1. ready' \in Seq(Tasks) /\ pc' \in [Requests -> Layers]
    BY <1>10, MoveType DEF Telemetry, Runs, Layers
  <2>2. Label(RpcName(input[r].path), CallerType(r), StatusOf(outcome[r])) \in Labels
    BY <1>10, LabelType DEF Telemetry, Runs, CarriesWhatIsRead
  <2>3. requests_total' \in [Labels -> Nat]
    BY <1>10, <2>2 DEF Telemetry
  <2> QED
    BY <1>10, <2>1, <2>3 DEF Telemetry, process, sent, state, work, audit, limiter
<1>11. CASE Audit(r)
  <2>1. Record(r) \in Rows
    BY <1>11, RecordType DEF Audit, Runs, CarriesWhatIsRead
  <2>2. <<WriteTask(Record(r)), CallTask(r)>> \in Seq(Tasks)
    BY <2>1 DEF Tasks
  <2>3. Tail(ready) \in Seq(Tasks)
    BY <1>11 DEF Audit, Runs
  <2>4. ready' \in Seq(Tasks)
    BY <1>11, <2>2, <2>3 DEF Audit
  <2>5. pc' \in [Requests -> Layers]
    BY <1>11 DEF Audit, Layers
  <2> QED
    BY <1>11, <2>4, <2>5 DEF Audit, process, sent, state, work, audit, limiter
<1>12. CASE Reply(r)
  <2>1. ready' \in Seq(Tasks) /\ pc' \in [Requests -> Layers]
    BY <1>12, MoveType DEF Reply, Runs, Layers
  <2>2. reply' \in [Requests -> Replies \union {None}]
    BY <1>12, ReplyType DEF Reply, Runs, CarriesWhatIsRead
  <2> QED
    BY <1>12, <2>1, <2>2 DEF Reply, process, sent, state, work, audit, limiter
<1>13. CASE Arrive(r)
  <2>1. ready' \in Seq(Tasks) /\ pc' \in [Requests -> Layers]
    BY <1>13, MoveType DEF Arrive, Layers
  <2>2. earlier' \in [Requests -> SUBSET Requests]
    BY <1>13 DEF Arrive
  <2> QED
    BY <1>13, <2>1, <2>2 DEF Arrive, process, state, work, audit, limiter
<1>14. CASE BodyArrives(r)
  <2>1. ready' \in Seq(Tasks) /\ pc' \in [Requests -> Layers]
    BY <1>14, MoveType DEF BodyArrives, Layers
  <2> QED
    BY <1>14, <2>1 DEF BodyArrives, process, sent, state, work, audit, limiter
<1>15. CASE ClientDisconnects(r)
  <2>1. pc' \in [Requests -> Layers]
    BY <1>15 DEF ClientDisconnects, Layers
  <2> QED
    BY <1>15, <2>1 DEF ClientDisconnects, process, sent, state, work, audit, limiter
<1>16. CASE MetabaseAnswers(r)
  <2>1. FirstUp(r) \in Layers
    BY FirstUpType DEF Layers
  <2>2. ready' \in Seq(Tasks) /\ pc' \in [Requests -> Layers]
    BY <1>16, <2>1, MoveType DEF MetabaseAnswers
  <2>3. outcome' \in [Requests -> Responses \union {None}]
    BY <1>16, ResponsesType DEF MetabaseAnswers
  <2> QED
    BY <1>16, <2>2, <2>3 DEF MetabaseAnswers, process, sent, state, work, audit, limiter
<1> QED
  BY <1>1, <1>2, <1>3, <1>4, <1>5, <1>6, <1>7, <1>8, <1>9, <1>10, <1>11, <1>12,
     <1>13, <1>14, <1>15, <1>16 DEF CallStep

\* A write in the queue carries a row.
LEMMA WriteTaskType ==
    ASSUME NEW task \in Tasks, IsWrite(task)
    PROVE  task[2] \in Rows /\ task = WriteTask(task[2])
BY DEF Tasks, CallTask, WriteTask, IsWrite

LEMMA PendingRowsType ==
    ASSUME TypeOK
    PROVE  PendingRows \subseteq Rows
<1>1. \A j \in DOMAIN ready : ready[j] \in Tasks
  BY DEF TypeOK
<1> QED
  BY <1>1, WriteTaskType DEF PendingRows

\* What is not a call's own doing.
LEMMA ProcessType ==
    ASSUME TypeOK,
           \/ AuditWrite
           \/ \E b \in Buckets : WindowElapses(b)
           \/ StopAccepting \/ Close \/ Crash
    PROVE  TypeOK'
<1> USE DEF TypeOK
<1>1. CASE AuditWrite
  <2>1. Head(ready) \in Tasks /\ Tail(ready) \in Seq(Tasks)
    BY <1>1 DEF AuditWrite, StoreWrite
  <2>2. Head(ready)[2] \in Rows
    BY <1>1, <2>1, WriteTaskType DEF AuditWrite, StoreWrite
  <2>3. store' \in Seq(Rows)
    <3>1. CASE UNCHANGED store
      BY <3>1
    <3>2. CASE store' = Append(store, Head(ready)[2])
      BY <2>2, <3>2
    <3> QED
      BY <1>1, <3>1, <3>2 DEF AuditWrite, StoreWrite
  <2>4. lost' \subseteq Rows \X {"refused", "closed", "crash"}
    <3>1. CASE UNCHANGED lost
      BY <3>1
    <3>2. CASE lost' = lost \union
                   {<<Head(ready)[2], IF server = "closed" THEN "closed" ELSE "refused">>}
      BY <2>2, <3>2
    <3> QED
      BY <1>1, <3>1, <3>2 DEF AuditWrite, StoreWrite
  <2> QED
    BY <1>1, <2>1, <2>3, <2>4 DEF AuditWrite, process, sent, state, work, limiter
<1>2. ASSUME NEW b \in Buckets, WindowElapses(b)
      PROVE  TypeOK'
  BY <1>2 DEF WindowElapses, process, sent, state, work, audit
<1>3. CASE StopAccepting
  BY <1>3 DEF StopAccepting, sent, state, work, audit, limiter
<1>4. CASE Close
  BY <1>4 DEF Close, sent, state, work, audit, limiter
<1>5. CASE Crash
  <2>1. lost' \subseteq Rows \X {"refused", "closed", "crash"}
    BY <1>5, PendingRowsType DEF Crash
  <2>2. pc' \in [Requests -> Layers]
    BY <1>5 DEF Crash, Layers
  <2>3. crashes' \in 0 .. MaxCrashes
    BY <1>5, CrashesAssumption DEF Crash
  <2>4. ready' \in Seq(Tasks)
    BY <1>5 DEF Crash
  <2>5. storage' \in [Buckets -> Nat] /\ granted' \in [Buckets -> Nat]
        /\ requests_total' \in [Labels -> Nat]
    BY <1>5 DEF Crash
  <2> QED
    BY <1>5, <2>1, <2>2, <2>3, <2>4, <2>5 DEF Crash, sent, state, work
<1> QED
  BY <1>1, <1>2, <1>3, <1>4, <1>5

LEMMA TypeStep ==
    ASSUME TypeOK, CarriesWhatIsRead, [Next]_vars
    PROVE  TypeOK'
<1>1. CASE Next
  BY <1>1, CallType, ProcessType DEF Next, LoopStep
<1>2. CASE UNCHANGED vars
  BY <1>2 DEF TypeOK, vars, process, sent, state, work, audit, limiter
<1> QED
  BY <1>1, <1>2

-----------------------------------------------------------------------------
(***************************************************************************)
(* What a call carries, and who is served.                                 *)
(***************************************************************************)
\* CarriesWhatIsRead for one call.
Carries(r) ==
    /\ pc[r] \notin {"idle", "request_id", "gone"} => request_id[r] # None
    /\ pc[r] \in {"telemetry_up", "audit_up", "request_id_up", "done"} =>
          outcome[r] # None
    /\ pc[r] = "telemetry_up" => RpcName(input[r].path) # None
    /\ consumer[r] # None =>
          input[r].key \in Keys /\ consumer[r] = KeyToIdentity[input[r].key]
    /\ pc[r] \in {"ratelimit", "handler"} /\ ~IsPublic(r) => consumer[r] # None

\* A step of one call leaves what the others carry alone.
LEMMA OthersCarry ==
    ASSUME TypeOK, CarriesWhatIsRead, NEW r \in Requests,
           NEW q \in Requests, q # r,
           \/ CallStep(r)
           \/ Arrive(r) \/ BodyArrives(r) \/ ClientDisconnects(r) \/ MetabaseAnswers(r)
    PROVE  Carries(q)'
<1>1. Carries(q)
  BY DEF CarriesWhatIsRead, Carries
<1>2. /\ pc'[q] = pc[q] /\ request_id'[q] = request_id[q] /\ input'[q] = input[q]
      /\ outcome'[q] = outcome[q] /\ consumer'[q] = consumer[q]
  BY DEF TypeOK, CallStep, RequestID, ReadBody, AuthBypassed, AuthRejects, AuthAccepts,
         RateLimitBypassed, RateLimitAdmits, RateLimitDenies, Handler, Telemetry, Audit,
         Reply, Arrive, BodyArrives, ClientDisconnects, MetabaseAnswers,
         NoRoute, RedirectsSlash, WrongMethod, BodyNotJson, ScopeMissing, BodyInvalid,
         AnswersLocally, ReadAudit, MetabaseNotConfigured, PostQuery, GetHealth,
         Answers, Responds, GoesTo, WaitsAt, Resumes, sent, state
<1> QED
  BY <1>1, <1>2 DEF Carries, IsPublic

\* A response on its way up finds what it needs.
LEMMA RespondsCarries ==
    ASSUME TypeOK, NEW r \in Requests, Carries(r), NEW o \in Responses,
           pc[r] \notin {"idle", "request_id", "gone"},
           \/ Responds(r, o)
           \/ outcome' = [outcome EXCEPT ![r] = o] /\ Resumes(r, FirstUp(r)),
           UNCHANGED <<input, request_id, consumer>>
    PROVE  Carries(r)'
<1>1. pc'[r] = FirstUp(r) /\ outcome'[r] = o
  BY DEF TypeOK, Responds, GoesTo, Resumes
<1>2. o # None
  BY ResponsesAssumption
<1> QED
  BY <1>1, <1>2 DEF Carries, FirstUp

\* A call itself carries what the next layer reads.
LEMMA SelfCarries ==
    ASSUME TypeOK, NEW r \in Requests, Carries(r),
           \/ CallStep(r)
           \/ Arrive(r) \/ BodyArrives(r) \/ ClientDisconnects(r) \/ MetabaseAnswers(r)
    PROVE  Carries(r)'
<1> USE DEF TypeOK
<1>1. CASE RequestID(r)
  <2>1. pc'[r] \in {"audit", "auth"}
    BY <1>1 DEF RequestID, GoesTo
  <2>2. request_id'[r] # None
    BY <1>1, RequestsNotNone, InputType DEF RequestID
  <2>3. input' = input /\ consumer' = consumer
    BY <1>1 DEF RequestID, sent
  <2> QED
    BY <2>1, <2>2, <2>3 DEF Carries
<1>2. CASE ReadBody(r)
  BY <1>2 DEF ReadBody, Runs, WaitsAt, Carries, sent, state
<1>3. CASE AuthBypassed(r)
  BY <1>3 DEF AuthBypassed, Runs, GoesTo, Carries, sent, state, IsPublic
<1>4. CASE AuthRejects(r)
  <2>1. Responds(r, Response(401, "UNAUTHORIZED"))
    BY <1>4 DEF AuthRejects
  <2> QED
    BY <1>4, <2>1, RespondsCarries, ResponsesType DEF AuthRejects, Runs, sent, state
<1>5. CASE AuthAccepts(r)
  <2>1. pc'[r] = "ratelimit" /\ pc[r] = "auth"
    BY <1>5 DEF AuthAccepts, GoesTo, Runs
  <2>2. input' = input /\ request_id' = request_id
    BY <1>5 DEF AuthAccepts, sent
  <2>3. consumer'[r] = KeyToIdentity[input[r].key] /\ input[r].key \in Keys
    BY <1>5 DEF AuthAccepts
  <2>4. consumer'[r] # None
    BY <2>3, KeysAssumption, NoneAssumption
  <2> QED
    BY <2>1, <2>2, <2>3, <2>4 DEF Carries
<1>6. CASE RateLimitBypassed(r)
  BY <1>6 DEF RateLimitBypassed, Runs, GoesTo, Carries, sent, state, IsPublic
<1>7. CASE RateLimitAdmits(r)
  BY <1>7 DEF RateLimitAdmits, Runs, GoesTo, Carries, sent, state, IsPublic
<1>8. CASE RateLimitDenies(r)
  <2>1. Responds(r, Response(429, "RATE_LIMITED"))
    BY <1>8 DEF RateLimitDenies
  <2> QED
    BY <1>8, <2>1, RespondsCarries, ResponsesType DEF RateLimitDenies, Runs, sent, state
<1>9. CASE Handler(r)
  <2>1. pc[r] = "handler"
    BY <1>9 DEF Handler, Runs
  <2>2. ASSUME NEW o \in Responses, Answers(r, o)
        PROVE  Carries(r)'
    BY <2>1, <2>2, RespondsCarries DEF Answers, sent, state
  <2>3. CASE PostQuery(r)
    BY <2>1, <2>3 DEF PostQuery, WaitsAt, Carries, sent, state
  <2>4. CASE GetHealth(r)
    BY <2>1, <2>4 DEF GetHealth, WaitsAt, Carries, sent, state
  <2> QED
    BY <1>9, <2>2, <2>3, <2>4, ResponsesType
    DEF Handler, NoRoute, RedirectsSlash, WrongMethod, BodyNotJson, ScopeMissing,
        BodyInvalid, AnswersLocally, ReadAudit, MetabaseNotConfigured
<1>10. CASE Telemetry(r)
  BY <1>10 DEF Telemetry, Runs, GoesTo, Carries, sent, state
<1>11. CASE Audit(r)
  BY <1>11 DEF Audit, Runs, Carries, sent, state
<1>12. CASE Reply(r)
  BY <1>12 DEF Reply, Runs, WaitsAt, Carries, sent, state
<1>13. CASE Arrive(r)
  BY <1>13 DEF Arrive, Resumes, Carries, sent, state
<1>14. CASE BodyArrives(r)
  BY <1>14 DEF BodyArrives, Resumes, Carries, sent, state
<1>15. CASE ClientDisconnects(r)
  BY <1>15 DEF ClientDisconnects, Carries, sent, state
<1>16. CASE MetabaseAnswers(r)
  <2>1. PICK o \in Responses : outcome' = [outcome EXCEPT ![r] = o]
    BY <1>16, ResponsesType DEF MetabaseAnswers
  <2> QED
    BY <1>16, <2>1, RespondsCarries DEF MetabaseAnswers, sent, state
<1> QED
  BY <1>1, <1>2, <1>3, <1>4, <1>5, <1>6, <1>7, <1>8, <1>9, <1>10, <1>11, <1>12,
     <1>13, <1>14, <1>15, <1>16 DEF CallStep

LEMMA CarriesStep ==
    ASSUME TypeOK, CarriesWhatIsRead, [Next]_vars
    PROVE  CarriesWhatIsRead'
<1> SUFFICES ASSUME NEW q \in Requests
             PROVE  Carries(q)'
  BY DEF CarriesWhatIsRead, Carries
<1>1. Carries(q)
  BY DEF CarriesWhatIsRead, Carries
<1>2. ASSUME NEW r \in Requests,
             \/ CallStep(r)
             \/ Arrive(r) \/ BodyArrives(r) \/ ClientDisconnects(r) \/ MetabaseAnswers(r)
      PROVE  Carries(q)'
  BY <1>1, <1>2, SelfCarries, OthersCarry
<1>3. CASE UNCHANGED <<pc, input, request_id, consumer, outcome>>
  BY <1>1, <1>3 DEF Carries, IsPublic
<1>4. CASE Crash
  <2>1. pc'[q] \in {pc[q], "gone"}
    BY <1>4 DEF Crash, TypeOK
  <2>2. UNCHANGED <<input, request_id, consumer, outcome>>
    BY <1>4 DEF Crash, sent, state
  <2> QED
    BY <1>1, <2>1, <2>2 DEF Carries, IsPublic
<1>5. AuditWrite \/ (\E b \in Buckets : WindowElapses(b)) \/ StopAccepting \/ Close
          \/ UNCHANGED vars => UNCHANGED <<pc, input, request_id, consumer, outcome>>
  BY DEF AuditWrite, WindowElapses, StopAccepting, Close, vars, sent, state
<1> QED
  BY <1>2, <1>3, <1>4, <1>5 DEF Next, LoopStep

LEMMA InitTypeOK == Init => TypeOK /\ CarriesWhatIsRead
<1> SUFFICES ASSUME Init
             PROVE  TypeOK /\ CarriesWhatIsRead
  OBVIOUS
<1>1. TypeOK
  BY CrashesAssumption DEF Init, TypeOK, Layers
<1>2. CarriesWhatIsRead
  BY DEF Init, CarriesWhatIsRead
<1> QED
  BY <1>1, <1>2

\* The variables keep their types: every row fits the store's columns, every
\* counter has its label, every call is at a layer (audit/models.py:12-32).
THEOREM TypeCorrect == Spec => []TypeOK
<1>1. TypeOK /\ CarriesWhatIsRead /\ [Next]_vars => TypeOK' /\ CarriesWhatIsRead'
  BY TypeStep, CarriesStep
<1> QED
  BY <1>1, InitTypeOK, PTL DEF Spec

\* A call carries, at every layer, the id, the identity and the response that
\* the layer reads, and the identity is the one its own key names.
THEOREM AlwaysCarries == Spec => []CarriesWhatIsRead
<1>1. TypeOK /\ CarriesWhatIsRead /\ [Next]_vars => TypeOK' /\ CarriesWhatIsRead'
  BY TypeStep, CarriesStep
<1> QED
  BY <1>1, InitTypeOK, PTL DEF Spec

\* No call's query reaches Metabase without a key of the table, the route's
\* scope and a valid body, however many calls are interleaved with it
\* (auth.py:108-129, scopes.py:15-23).
THEOREM UpstreamAlwaysAuthorised == Spec => []UpstreamAuthorised
<1>1. Init => UpstreamAuthorised
  BY DEF Init, UpstreamAuthorised
<1>2. TypeOK /\ CarriesWhatIsRead /\ UpstreamAuthorised /\ [Next]_vars => UpstreamAuthorised'
  <2> SUFFICES ASSUME TypeOK, CarriesWhatIsRead, UpstreamAuthorised, [Next]_vars
               PROVE  UpstreamAuthorised'
    OBVIOUS
  <2>1. input' = input
    BY DEF Next, LoopStep, CallStep, RequestID, ReadBody, AuthBypassed, AuthRejects,
           AuthAccepts, RateLimitBypassed, RateLimitAdmits, RateLimitDenies, Handler,
           Telemetry, Audit, Reply, Arrive, BodyArrives, ClientDisconnects,
           MetabaseAnswers, NoRoute, RedirectsSlash, WrongMethod, BodyNotJson,
           ScopeMissing, BodyInvalid, AnswersLocally, ReadAudit, MetabaseNotConfigured,
           PostQuery, GetHealth, Answers, AuditWrite, WindowElapses, StopAccepting,
           Close, Crash, vars, sent
  <2>2. ASSUME NEW r \in Requests, Handler(r), PostQuery(r)
        PROVE  UpstreamAuthorised'
    <3>1. called' = [called EXCEPT ![r] = TRUE] /\ Accepted(r) /\ IsQuery(r)
      BY <2>2 DEF PostQuery
    <3>2. pc[r] = "handler" /\ ~IsPublic(r)
      BY <2>2, <3>1 DEF Handler, Runs, IsQuery, IsPublic, PublicPaths
    <3>3. input[r].key \in Keys /\ consumer[r] = KeyToIdentity[input[r].key]
      BY <3>2 DEF CarriesWhatIsRead
    <3>4. RequiredScope(input[r].path) \in KeyToIdentity[input[r].key].scope
      BY <3>1, <3>3 DEF Accepted, InScope, HasScope
    <3>5. input[r].form = "ok"
      <4>1. input[r].form \in Forms
        BY InputType, InputsAssumption DEF Calls
      <4> QED
        BY <3>1, <4>1 DEF Accepted, InScope, Parsed, Routed, Forms
    <3> QED
      BY <2>1, <3>1, <3>3, <3>4, <3>5 DEF UpstreamAuthorised, TypeOK
  <2>3. CASE called' = called
    BY <2>1, <2>3 DEF UpstreamAuthorised
  <2>4. (\E r \in Requests : Handler(r) /\ PostQuery(r)) \/ called' = called
    BY DEF Next, LoopStep, CallStep, RequestID, ReadBody, AuthBypassed, AuthRejects,
           AuthAccepts, RateLimitBypassed, RateLimitAdmits, RateLimitDenies, Handler,
           Telemetry, Audit, Reply, Arrive, BodyArrives, ClientDisconnects,
           MetabaseAnswers, NoRoute, RedirectsSlash, WrongMethod, BodyNotJson,
           ScopeMissing, BodyInvalid, AnswersLocally, ReadAudit, MetabaseNotConfigured,
           GetHealth, Answers, AuditWrite, WindowElapses, StopAccepting,
           Close, Crash, vars, work
  <2> QED
    BY <2>2, <2>3, <2>4
<1> QED
  BY <1>1, <1>2, TypeCorrect, AlwaysCarries, PTL DEF Spec

-----------------------------------------------------------------------------
(***************************************************************************)
(* The limiter of the pipeline implements WindowBudget.                    *)
(***************************************************************************)
\* What the history of admissions has to do with the counter: hits up to the
\* amount were let pass, those beyond it denied.
HitsExplained ==
    \A b \in Buckets :
        granted[b] = IF storage[b] <= Amount(b) THEN storage[b] ELSE Amount(b)

Spent == {b \in Buckets : storage[b] > Amount(b)}

LEMMA BudgetRead ==
    ASSUME TypeOK
    PROVE  \A b \in Buckets : /\ Amount(b) \in Nat /\ Amount(b) >= 1
                              /\ storage[b] \in Nat /\ granted[b] \in Nat
  BY AmountType DEF TypeOK

LEMMA AdmitsGrants ==
    ASSUME TypeOK, HitsExplained, NEW r \in Requests, RateLimitAdmits(r)
    PROVE  HitsExplained' /\ Budget!Next
<1>1. PICK b \in Buckets : b = BucketOf(r)
  BY BucketOfType DEF RateLimitAdmits
<1>2. /\ storage[b] + 1 <= Amount(b)
      /\ storage' = [storage EXCEPT ![b] = @ + 1]
      /\ granted' = [granted EXCEPT ![b] = @ + 1]
  BY <1>1 DEF RateLimitAdmits
<1>3. \A c \in Buckets : /\ storage'[c] = IF c = b THEN storage[c] + 1 ELSE storage[c]
                         /\ granted'[c] = IF c = b THEN granted[c] + 1 ELSE granted[c]
  BY <1>2 DEF TypeOK
<1>4. \A c \in Buckets : (storage[c] > Amount(c)) <=> (storage'[c] > Amount(c))
  BY <1>1, <1>2, <1>3, BudgetRead
<1>5. HitsExplained'
  BY <1>1, <1>2, <1>3, BudgetRead DEF HitsExplained, Amount
<1>6. Spent' = Spent /\ b \notin Spent
  BY <1>1, <1>2, <1>4, BudgetRead DEF Spent, Amount
<1>7. granted[b] < Amount(b)
  BY <1>1, <1>2, BudgetRead DEF HitsExplained
<1>8. Budget!Grant(b)
  BY <1>2, <1>6, <1>7 DEF Budget!Grant, Spent
<1> QED
  BY <1>1, <1>5, <1>8 DEF Budget!Next

LEMMA DeniesRefuses ==
    ASSUME TypeOK, HitsExplained, NEW r \in Requests, RateLimitDenies(r)
    PROVE  HitsExplained' /\ Budget!Next
<1>1. PICK b \in Buckets : b = BucketOf(r)
  BY BucketOfType DEF RateLimitDenies
<1>2. /\ storage[b] + 1 > Amount(b)
      /\ storage' = [storage EXCEPT ![b] = @ + 1]
      /\ granted' = granted
  BY <1>1 DEF RateLimitDenies
<1>3. \A c \in Buckets : storage'[c] = IF c = b THEN storage[c] + 1 ELSE storage[c]
  BY <1>2 DEF TypeOK
<1>4. granted[b] = Amount(b)
  BY <1>1, <1>2, BudgetRead DEF HitsExplained
<1>5. HitsExplained'
  BY <1>1, <1>2, <1>3, <1>4, BudgetRead DEF HitsExplained, Amount
<1>6. Spent' = Spent \union {b}
  BY <1>1, <1>2, <1>3, BudgetRead DEF Spent, Amount
<1>7. Budget!Refuse(b)
  BY <1>2, <1>4, <1>6 DEF Budget!Refuse, Spent
<1> QED
  BY <1>1, <1>5, <1>7 DEF Budget!Next

\* A window that elapses renews one bucket, a crash all of them.
LEMMA ResetRenews ==
    ASSUME TypeOK, HitsExplained, NEW S \in SUBSET Buckets,
           \A b \in Buckets : storage'[b] = IF b \in S THEN 0 ELSE storage[b],
           granted' = [b \in Buckets |-> IF b \in S THEN 0 ELSE granted[b]]
    PROVE  HitsExplained' /\ Budget!Next
<1>1. HitsExplained'
  BY BudgetRead DEF HitsExplained, Amount
<1>2. Spent' = Spent \ S
  BY BudgetRead DEF Spent, Amount
<1>3. Budget!Renew(S)
  BY <1>2 DEF Budget!Renew, Spent
<1> QED
  BY <1>1, <1>3 DEF Budget!Next

LEMMA OthersLeaveLimiter ==
    ASSUME [Next]_vars,
           ~ \E r \in Requests : RateLimitAdmits(r) \/ RateLimitDenies(r),
           ~ \E b \in Buckets : WindowElapses(b),
           ~ Crash
    PROVE  UNCHANGED limiter
<1>1. ASSUME NEW r \in Requests, CallStep(r)
      PROVE  UNCHANGED limiter
  <2>1. CASE Handler(r)
    BY <2>1 DEF Handler, Answers, NoRoute, RedirectsSlash, WrongMethod, BodyNotJson,
         ScopeMissing, BodyInvalid, AnswersLocally, ReadAudit,
         MetabaseNotConfigured, PostQuery, GetHealth
  <2>2. CASE RequestID(r) \/ ReadBody(r) \/ Telemetry(r) \/ Audit(r) \/ Reply(r)
    BY <2>2 DEF RequestID, ReadBody, Telemetry, Audit, Reply
  <2>3. CASE AuthBypassed(r) \/ AuthRejects(r) \/ AuthAccepts(r) \/ RateLimitBypassed(r)
    BY <2>3 DEF AuthBypassed, AuthRejects, AuthAccepts, RateLimitBypassed
  <2> QED
    BY <1>1, <2>1, <2>2, <2>3 DEF CallStep
<1>2. ASSUME NEW r \in Requests,
             Arrive(r) \/ BodyArrives(r) \/ ClientDisconnects(r) \/ MetabaseAnswers(r)
      PROVE  UNCHANGED limiter
  BY <1>2 DEF Arrive, BodyArrives, ClientDisconnects, MetabaseAnswers
<1>3. AuditWrite \/ StopAccepting \/ Close \/ UNCHANGED vars => UNCHANGED limiter
  BY DEF AuditWrite, StopAccepting, Close, vars
<1> QED
  BY <1>1, <1>2, <1>3 DEF Next, LoopStep

\* However calls interleave and whenever the process dies, each bucket admits
\* no more than its amount in a window and refuses only once it is spent
\* (ratelimit.py:82-102).
THEOREM PipelineImplementsBudget == Spec => ImplementsBudget
<1>1. Init => Budget!Init /\ HitsExplained
  <2> SUFFICES ASSUME Init
               PROVE  Budget!Init /\ HitsExplained
    OBVIOUS
  <2>1. \A b \in Buckets : storage[b] = 0 /\ granted[b] = 0 /\ Amount(b) \in Nat
    BY AmountType DEF Init
  <2>2. {b \in Buckets : storage[b] > Amount(b)} = {}
    BY <2>1
  <2> QED
    BY <2>1, <2>2 DEF Init, Budget!Init, HitsExplained
<1>2. ASSUME TypeOK, HitsExplained, [Next]_vars
      PROVE  HitsExplained' /\ [Budget!Next]_Budget!vars
  <2>1. CASE \E r \in Requests : RateLimitAdmits(r) \/ RateLimitDenies(r)
    BY <1>2, <2>1, AdmitsGrants, DeniesRefuses
  <2>2. ASSUME NEW b \in Buckets, WindowElapses(b)
        PROVE  HitsExplained' /\ [Budget!Next]_Budget!vars
    <3> DEFINE S == {b}
    <3>1. \A c \in Buckets : storage'[c] = IF c \in S THEN 0 ELSE storage[c]
      BY <1>2, <2>2 DEF WindowElapses, TypeOK
    <3>2. granted' = [c \in Buckets |-> IF c \in S THEN 0 ELSE granted[c]]
      BY <1>2, <2>2 DEF WindowElapses, TypeOK
    <3> HIDE DEF S
    <3>3. S \in SUBSET Buckets
      BY DEF S
    <3> QED
      BY <1>2, <3>1, <3>2, <3>3, ResetRenews
  <2>3. CASE Crash
    <3> DEFINE S == Buckets
    <3>1. \A c \in Buckets : storage'[c] = IF c \in S THEN 0 ELSE storage[c]
      BY <2>3 DEF Crash
    <3>2. granted' = [c \in Buckets |-> IF c \in S THEN 0 ELSE granted[c]]
      BY <2>3 DEF Crash
    <3>3. S \in SUBSET Buckets
      OBVIOUS
    <3> QED
      BY <1>2, <3>1, <3>2, <3>3, ResetRenews
  <2>4. CASE UNCHANGED limiter
    BY <1>2, <2>4 DEF limiter, HitsExplained, Budget!vars, Amount
  <2> QED
    BY <1>2, <2>1, <2>2, <2>3, <2>4, OthersLeaveLimiter
<1> QED
  BY <1>1, <1>2, TypeCorrect, PTL DEF Spec, ImplementsBudget, Budget!Spec
=============================================================================
