---------------------------- MODULE MCAppFactory ----------------------------
(***************************************************************************)
(* Four settings for TLC: one with every card, one with other cards, other *)
(* keys, one without a Metabase key, one whose store cannot be built.      *)
(***************************************************************************)
EXTENDS AppFactory

Cron    == Entry("k1", <<"cron", "backend_service_account", {"general"}>>)
Analyst == Entry("k2", <<"ana", "interactive_script", {"general", "raw_sql", "admin"}, "slow">>)
Bot     == Entry("k1", <<"bot", "llm_agent", {}>>)
Unknown == Entry("k3", <<"who", "robot", {"general"}>>)
Short   == Entry("k4", <<"who", "llm_agent">>)

MCSettings ==
    {[cards |-> [mrr_trend |-> 159, top_partners |-> 7], audit_store |-> "sqlite",
      api_key |-> TRUE, timeout |-> 30,
      connector_api_keys |-> <<<<Cron, Blank, Analyst>>, <<NoEquals>>, <<Unknown, Short, Bot>>>>],
     [cards |-> [mrr_trend |-> 160, top_partners |-> None], audit_store |-> "memory",
      api_key |-> TRUE, timeout |-> 5,
      connector_api_keys |-> <<<<Comment, Analyst>>, <<Cron>>>>],
     [cards |-> [mrr_trend |-> None, top_partners |-> None], audit_store |-> "postgres",
      api_key |-> TRUE, timeout |-> 30, connector_api_keys |-> << >>],
     [cards |-> [mrr_trend |-> 159, top_partners |-> None], audit_store |-> "memory",
      api_key |-> FALSE, timeout |-> 30, connector_api_keys |-> << >>]}
=============================================================================
