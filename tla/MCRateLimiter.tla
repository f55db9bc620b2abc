--------------------------- MODULE MCRateLimiter ---------------------------
(***************************************************************************)
(* Two keys of one consumer, a third key of another; two calls a window.   *)
(***************************************************************************)
EXTENDS RateLimiter

MCConsumers == {"cron", "notebook"}

Cron(scope) ==
    [id |-> "cron", consumer_type |-> "backend_service_account", scope |-> scope]

MCKeyToIdentity ==
    [k \in Keys |-> CASE k = "cron_1" -> Cron({"general"})
                      [] k = "cron_2" -> Cron({"general", "raw_sql"})
                      [] OTHER -> [id |-> "notebook",
                                   consumer_type |-> "interactive_script",
                                   scope |-> {"general", "raw_sql"}]]

\* Only execute_sql is limited, so there is one bucket a consumer.
RawSqlOnly == [default |-> None, raw_sql |-> 2, operator |-> None]
=============================================================================
