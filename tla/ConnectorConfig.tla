-------------------------- MODULE ConnectorConfig --------------------------
(***************************************************************************)
(* What the connector is configured with when create_app() has run: the    *)
(* API-key table (CONNECTOR_API_KEYS), the three rate limits and the       *)
(* routes.  Nothing here changes while the process runs, so the other      *)
(* modules share it as constants and constant-level operators.             *)
(*                                                                         *)
(* A path stands for every path the code treats alike:                     *)
(*   "/healthz"               a public route answered locally (also        *)
(*                            /metrics, /openapi.json, /docs, /redoc)      *)
(*   "/rpc/partner_revenue"   the nine RPCs backed by a Metabase card      *)
(*   "/rpc/unknown"           a path under /rpc/ with no route             *)
(*   "/rpc/describe_catalog/" a route's path with a trailing slash, which  *)
(*                            the router answers with a redirect           *)
(*   "/rpc/"                  a path under /rpc/ with an empty RPC name    *)
(*   "/nowhere"               a path that is neither public nor an RPC's   *)
(***************************************************************************)
EXTENDS Naturals, Responses

CONSTANTS
    Keys,           \* the API keys in the table
    UnknownKey,     \* an X-Connector-API-Key value the table does not hold
    Consumers,      \* consumer ids; several keys may name the same consumer
    KeyToIdentity,  \* what parse_api_key_config() returned
    Limits          \* amount of each limit class, None when its setting is ""

Scopes        == {"general", "raw_sql", "operator"}
ConsumerTypes == {"backend_service_account", "interactive_script", "llm_agent"}

ConsumerIdentity ==
    [id : Consumers, consumer_type : ConsumerTypes, scope : SUBSET Scopes]

ASSUME KeysAssumption ==
    /\ KeyToIdentity \in [Keys -> ConsumerIdentity]
    /\ UnknownKey \notin Keys
    /\ None \notin Keys \union {UnknownKey}

ASSUME NoneAssumption ==
    /\ None \notin Consumers
    /\ None \notin ConsumerIdentity
    /\ None \notin Nat
    /\ None \notin STRING

ASSUME LimitsAssumption ==
    Limits \in [{"default", "raw_sql", "operator"} -> (Nat \ {0}) \union {None}]

-----------------------------------------------------------------------------
PublicPaths == {"/healthz", "/healthz/upstream"}
RpcPaths    == {"/rpc/describe_catalog", "/rpc/partner_revenue",
                "/rpc/execute_sql", "/rpc/read_audit",
                "/rpc/unknown", "/rpc/describe_catalog/", "/rpc/"}
Paths       == PublicPaths \union RpcPaths \union {"/nowhere"}

\* The routes mounted by register_rpcs(): the paths a POST reaches.
RpcRoutes == {"/rpc/describe_catalog", "/rpc/partner_revenue",
              "/rpc/execute_sql", "/rpc/read_audit"}

RpcNames == {"describe_catalog", "partner_revenue", "execute_sql",
             "read_audit", "unknown"}

\* The path segment after /rpc/, None when it is empty or the path is not
\* under /rpc/.
RpcName(path) ==
    CASE path = "/rpc/describe_catalog"  -> "describe_catalog"
      [] path = "/rpc/describe_catalog/" -> "describe_catalog"
      [] path = "/rpc/partner_revenue"   -> "partner_revenue"
      [] path = "/rpc/execute_sql"       -> "execute_sql"
      [] path = "/rpc/read_audit"        -> "read_audit"
      [] path = "/rpc/unknown"           -> "unknown"
      [] OTHER                           -> None

\* The scope each route's require_scope() dependency asks for.
RequiredScope(path) ==
    CASE path = "/rpc/execute_sql" -> "raw_sql"
      [] path = "/rpc/read_audit"  -> "operator"
      [] OTHER                     -> "general"

-----------------------------------------------------------------------------
Or(item, default) == IF item = None THEN default ELSE item

\* The amount that limits a path, None when nothing does.
ItemFor(path) ==
    CASE path = "/rpc/execute_sql" -> Or(Limits["raw_sql"], Limits["default"])
      [] path = "/rpc/read_audit"  -> Or(Limits["operator"], Limits["default"])
      [] OTHER                     -> Limits["default"]

\* One counter per consumer and raw path, for the paths that have a limit.
LimitedPaths == {path \in RpcPaths : ItemFor(path) # None}
Buckets      == Consumers \X LimitedPaths
Amount(b)    == ItemFor(b[2])
=============================================================================
