------------------------- MODULE MCRequestPipeline -------------------------
(***************************************************************************)
(* Small instances of RequestPipeline: the key table, the limits, and the  *)
(* calls each run's clients may make.                                      *)
(***************************************************************************)
EXTENDS RequestPipeline, TLC

CONSTANTS r1, r2

MCConsumers == {"cron", "ops"}

\* Two keys of one consumer, with different scopes, and an operator.
MCKeys == {"cron_1", "cron_2", "ops_1"}
MCKeyToIdentity ==
    [k \in MCKeys |->
        CASE k = "cron_1" -> [id |-> "cron", consumer_type |-> "backend_service_account",
                              scope |-> {"general"}]
          [] k = "cron_2" -> [id |-> "cron", consumer_type |-> "backend_service_account",
                              scope |-> {"general", "raw_sql"}]
          [] k = "ops_1"  -> [id |-> "ops", consumer_type |-> "interactive_script",
                              scope |-> {"general", "operator"}]]

RawSqlLimit == [default |-> None, raw_sql |-> 1, operator |-> None]
TightLimits == [default |-> 2, raw_sql |-> 1, operator |-> None]

Call(path, key)        == [path |-> path, key |-> key, form |-> "ok", rid |-> None]
CallAs(path, key, rid) == [Call(path, key) EXCEPT !.rid = rid]
BadCall(path, key, form) == [Call(path, key) EXCEPT !.form = form]

\* Every path, every rejection, and two clients that send the same id.
EveryKindOfCall ==
    {Call("/healthz", None), Call("/healthz/upstream", None),
     Call("/nowhere", "cron_1"), Call("/rpc/", "cron_1"),
     Call("/rpc/unknown", "ops_1"), Call("/rpc/describe_catalog/", "cron_1"),
     Call("/rpc/describe_catalog", None), Call("/rpc/describe_catalog", "cron_1"),
     CallAs("/rpc/partner_revenue", "cron_1", "trace"),
     CallAs("/rpc/partner_revenue", UnknownKey, "trace"),
     Call("/rpc/execute_sql", "cron_2"), Call("/rpc/execute_sql", "cron_1"),
     Call("/rpc/read_audit", "ops_1"),
     BadCall("/rpc/execute_sql", "cron_2", "schema"),
     BadCall("/rpc/execute_sql", "cron_1", "json"),
     BadCall("/rpc/partner_revenue", "cron_1", "method")}

\* Calls that end in each way a call can end, and one that needs no body.
SomeCalls ==
    {Call("/rpc/partner_revenue", "cron_1"), Call("/rpc/execute_sql", "cron_1"),
     Call("/rpc/execute_sql", "cron_2"), Call("/rpc/read_audit", "ops_1"),
     Call("/healthz/upstream", None)}

AllWirings  == SUBSET {"client", "card"}
FullyWired  == {{"client", "card"}}

TwoAlike == Permutations({r1, r2})
=============================================================================
