----------------------------- MODULE AppFactory -----------------------------
(***************************************************************************)
(* create_app(), the lifespan of what it returns, and the state of the     *)
(* process that applications share: the cached settings, the registry, and *)
(* the module-level descriptors whose card ids register_rpcs() writes.  A  *)
(* process usually has one application; the factory is made to be called   *)
(* again, as the tests do.                                                 *)
(*                                                                         *)
(* create_app() and both ends of a lifespan run between two awaits.  A call*)
(* awaits once, for Metabase: it reads the shared state before, and again  *)
(* after, for its response's meta and its audit row.                       *)
(***************************************************************************)
EXTENDS Naturals, ApiKeyConfig

CONSTANTS
    None,           \* Python's None
    CardRpcs,       \* the RPCs that have a card_id_<name> setting
    OtherRpcs,      \* the other RPCs
    Settings,       \* the settings that are tried
    MaxCreations    \* bound: calls of create_app()

Rpcs == CardRpcs \union OtherRpcs

\* The stores build_store() can build; another name, or a path that cannot be
\* opened, makes it raise.
Stores == {"sqlite", "memory"}

ASSUME SettingsAssumption ==
    /\ CardRpcs \intersect OtherRpcs = {}
    /\ None \notin Settings
    /\ None \notin {"store", "duplicate"}
    /\ MaxCreations \in Nat

ASSUME TextsAssumption == \A s \in Settings : IsText(s.connector_api_keys)

VARIABLES
    env,            \* the settings the environment would give now
    cache,          \* what load_settings() has cached, None if nothing
    registry,       \* the names in registry._rpcs
    descriptors,    \* DESCRIPTOR.metabase_card_id of each RPC's module
    creations,      \* calls of create_app() so far
    failure,        \* why the last create_app() raised, None if it did not
    apps,           \* the applications create_app() has returned
    calls           \* the last call of each application

shared == <<cache, registry, descriptors>>
vars   == <<env, cache, registry, descriptors, creations, failure, apps, calls>>

NoCall == [state |-> "none"]

-----------------------------------------------------------------------------
Init ==
    /\ env \in Settings
    /\ cache = None
    /\ registry = {}
    /\ descriptors = [rpc \in Rpcs |-> None]
    /\ creations = 0
    /\ failure = None
    /\ apps = << >>
    /\ calls = << >>

\* Faulty variant: the environment is read every time.
LoadedAfresh == env

\* load_settings(), and get_settings(): the environment is read once.
Loaded == IF cache = None THEN env ELSE cache

\* The environment changes, and with it what the next application is given.
ChangeEnv(s) ==
    /\ env' = s
    /\ UNCHANGED <<shared, creations, failure, apps, calls>>

\* load_settings.cache_clear(), which the tests call.
ClearCache ==
    /\ cache # None
    /\ cache' = None
    /\ apps' = [i \in DOMAIN apps |-> [apps[i] EXCEPT !.current = FALSE]]
    /\ UNCHANGED <<env, registry, descriptors, creations, failure, calls>>

\* Faulty variant: a card that is not set is card 0.
CardIdOrZero(s, rpc) ==
    IF rpc \in CardRpcs /\ s.cards[rpc] # None THEN s.cards[rpc] ELSE 0

\* getattr(settings, f"card_id_{name}", None)
CardId(s, rpc) == IF rpc \in CardRpcs THEN s.cards[rpc] ELSE None

\* Faulty variant: a descriptor that has a card id keeps it.
WiredOnce(s) ==
    [rpc \in Rpcs |-> IF descriptors[rpc] # None THEN descriptors[rpc] ELSE CardId(s, rpc)]

\* What register_rpcs() leaves in the descriptors.
Wired(s) ==
    [rpc \in Rpcs |-> IF CardId(s, rpc) # None THEN CardId(s, rpc) ELSE descriptors[rpc]]

\* Faulty variant: the registry is not cleared.
KeptRegistry == registry

\* _reset_registry_for_factory()
ResetRegistry == {}

\* The settings create_app() works with: those it is given, or the cached.
Chosen(given) == IF given = None THEN Loaded ELSE given

Chooses(given) ==
    /\ creations < MaxCreations
    /\ creations' = creations + 1
    /\ cache' = IF given = None THEN Loaded ELSE cache

\* History: create_app() ran while these calls were waiting.
Disturbed ==
    [i \in DOMAIN calls |->
        IF calls[i].state = "waiting" THEN [calls[i] EXCEPT !.disturbed = TRUE] ELSE calls[i]]

\* What makes create_app() raise: a store that cannot be built, or else a name
\* that register() finds in the registry.
Refused(given) ==
    CASE Chosen(given).audit_store \notin Stores -> "store"
      [] Chosen(given).audit_store \in Stores
         /\ ResetRegistry \intersect Rpcs # {} -> "duplicate"
      [] OTHER -> None

NewApp(given) ==
    [settings |-> Chosen(given), current |-> given = None, phase |-> "built",
     keys |-> ParseApiKeyConfig(Chosen(given).connector_api_keys),
     client |-> "none", store |-> "open"]

CreateApp(given) ==
    /\ Chooses(given)
    /\ Refused(given) = None
    /\ registry' = Rpcs
    /\ descriptors' = Wired(Chosen(given))
    /\ failure' = None
    /\ apps' = Append(apps, NewApp(given))
    /\ calls' = Append(Disturbed, NoCall)
    /\ UNCHANGED env

\* The registry is cleared by the time the store or a name is refused.
CreateAppRaises(given) ==
    /\ Chooses(given)
    /\ Refused(given) # None
    /\ failure' = Refused(given)
    /\ registry' = ResetRegistry
    /\ calls' = Disturbed
    /\ UNCHANGED <<env, descriptors, apps>>


-----------------------------------------------------------------------------
\* lifespan(), up to its yield: a client if the settings or the secrets have
\* a Metabase key.
StartApp(a) ==
    /\ apps[a].phase = "built"
    /\ apps' = [apps EXCEPT ![a].phase = "up",
                            ![a].client = IF apps[a].settings.api_key THEN "open" ELSE "none"]
    /\ UNCHANGED <<env, shared, creations, failure, calls>>

\* registry.as_catalog(), which describe_catalog returns.
Catalog == [rpc \in registry |-> descriptors[rpc]]

\* Faulty variant: the card of the application's own settings.
CardFromSettings(a, rpc) == CardId(apps[a].settings, rpc)

\* make_meta(): the card a response says it came from.
CardOfMeta(a, rpc) == descriptors[rpc]

\* AuditMiddleware: the card of a call's row.
CardOfRow(rpc) == IF rpc \in registry THEN Catalog[rpc] ELSE None

Idle(a) == apps[a].phase = "up" /\ calls[a].state # "waiting"

\* A call that answers 503 before Metabase is asked.
Refuse(a, rpc) ==
    calls' = [calls EXCEPT ![a] = [state |-> "refused", rpc |-> rpc, audited |-> CardOfRow(rpc)]]

Ask(a, rpc, card, timeout) ==
    calls' = [calls EXCEPT ![a] = [state |-> "waiting", rpc |-> rpc, card |-> card,
                                   timeout |-> timeout, disturbed |-> FALSE]]

\* execute_card_rows(), up to its await.
BeginCard(a, rpc) ==
    /\ Idle(a)
    /\ \/ /\ descriptors[rpc] = None \/ apps[a].client = "none"
          /\ Refuse(a, rpc)
       \/ /\ descriptors[rpc] # None
          /\ apps[a].client = "open"
          /\ Ask(a, rpc, descriptors[rpc], apps[a].settings.timeout)
    /\ UNCHANGED <<env, shared, creations, failure, apps>>

\* execute_sql(), up to its await: the timeout is of get_settings().
BeginSql(a, rpc) ==
    /\ Idle(a)
    /\ \/ /\ apps[a].client = "none"
          /\ Refuse(a, rpc)
          /\ UNCHANGED cache
       \/ /\ apps[a].client = "open"
          /\ Ask(a, rpc, None, Loaded.timeout)
          /\ cache' = Loaded
    /\ UNCHANGED <<env, registry, descriptors, creations, failure, apps>>

\* Metabase has answered.
Answer(a) ==
    /\ calls[a].state = "waiting"
    /\ calls' = [calls EXCEPT ![a] =
           [state |-> "answered", rpc |-> calls[a].rpc, card |-> calls[a].card,
            timeout |-> calls[a].timeout, disturbed |-> calls[a].disturbed,
            named |-> CardOfMeta(a, calls[a].rpc), audited |-> CardOfRow(calls[a].rpc),
            listed |-> calls[a].rpc \in registry]]
    /\ UNCHANGED <<env, shared, creations, failure, apps>>

\* Faulty variant: the store is closed only where there was a client.
StopAppWithClient(a) ==
    /\ Idle(a)
    /\ apps' = [apps EXCEPT ![a].phase = "down",
                            ![a].store = IF apps[a].client = "open" THEN "closed" ELSE @,
                            ![a].client = IF @ = "open" THEN "closed" ELSE @]
    /\ UNCHANGED <<env, shared, creations, failure, calls>>

\* The end of lifespan(), once the calls are over.  A client that fails to
\* close leaves the store as it is.
StopApp(a) ==
    /\ Idle(a)
    /\ \/ apps' = [apps EXCEPT ![a].phase = "down", ![a].store = "closed",
                               ![a].client = IF @ = "open" THEN "closed" ELSE @]
       \/ /\ apps[a].client = "open"
          /\ apps' = [apps EXCEPT ![a].phase = "down", ![a].client = "failed"]
    /\ UNCHANGED <<env, shared, creations, failure, calls>>

Next ==
    \/ \E s \in Settings : ChangeEnv(s)
    \/ ClearCache
    \/ \E given \in Settings \union {None} : CreateApp(given) \/ CreateAppRaises(given)
    \/ \E a \in DOMAIN apps :
           \/ StartApp(a)
           \/ \E rpc \in CardRpcs : BeginCard(a, rpc)
           \/ \E rpc \in OtherRpcs : BeginSql(a, rpc)
           \/ Answer(a)
           \/ StopApp(a)

Spec == Init /\ [][Next]_vars

-----------------------------------------------------------------------------
CardIds   == {s.cards[rpc] : s \in Settings, rpc \in CardRpcs} \union {None}
Timeouts  == {s.timeout : s \in Settings}
KeyTables == {ParseApiKeyConfig(s.connector_api_keys) : s \in Settings}

App == [settings : Settings, current : BOOLEAN, phase : {"built", "up", "down"}, keys : KeyTables,
        client : {"none", "open", "closed", "failed"}, store : {"open", "closed"}]

Refusal  == [state : {"refused"}, rpc : Rpcs, audited : CardIds]
Waiting  == [state : {"waiting"}, rpc : Rpcs, card : CardIds, timeout : Timeouts,
             disturbed : BOOLEAN]
Answered == [state : {"answered"}, rpc : Rpcs, card : CardIds, timeout : Timeouts,
             disturbed : BOOLEAN, named : CardIds, audited : CardIds, listed : BOOLEAN]

\* Every variable has its type.
TypeOK ==
    /\ env \in Settings
    /\ cache \in Settings \union {None}
    /\ registry \subseteq Rpcs
    /\ descriptors \in [Rpcs -> CardIds]
    /\ creations \in 0..MaxCreations
    /\ failure \in {None, "store", "duplicate"}
    /\ apps \in Seq(App)
    /\ calls \in Seq({NoCall} \union Refusal \union Waiting \union Answered)
    /\ Len(calls) = Len(apps)

\* The applications made with settings that give the RPC a card.
Givers(rpc) == {a \in DOMAIN apps : CardId(apps[a].settings, rpc) # None}

\* The newest application has its own way: a card its settings give is the one
\* its catalogue shows and its calls ask, whatever earlier applications of the
\* process left in the descriptors, and a card that no settings ever gave is
\* never shown (_registration.py:53).
OwnCardsWin ==
    /\ \A rpc \in registry : Givers(rpc) = {} => Catalog[rpc] = None
    /\ \A a \in DOMAIN apps : a = Len(apps) =>
          LET own(rpc) == CardId(apps[a].settings, rpc)
              call     == calls[a]
          IN  /\ \A rpc \in registry : own(rpc) # None => Catalog[rpc] = own(rpc)
              /\ call.state = "waiting" /\ ~call.disturbed /\ own(call.rpc) # None =>
                    call.card = own(call.rpc)

\* "None disables that RPC for upstream calls" (settings.py:60): an application
\* whose settings give an RPC no card asks Metabase nothing for it.
NoneDisables ==
    \A a \in DOMAIN calls :
        calls[a].state = "waiting" /\ calls[a].rpc \in CardRpcs =>
            CardId(apps[a].settings, calls[a].rpc) # None

\* create_app() can be called again and again in one process: it fails for its
\* store alone, never over a name that is registered already, and whenever it
\* returns, every RPC is in the registry, whatever failed before.
FactoryIsRepeatable ==
    /\ failure # "duplicate"
    /\ creations > 0 /\ failure = None => registry = Rpcs

\* The card a response names and the card its audit row names are the card
\* that was asked, though both are read after the await; only a create_app()
\* during the wait can make them differ.  A create_app() that raised, before or
\* during the call, leaves the row without a card, never with another one.
ResponseNamesItsCard ==
    \A a \in DOMAIN calls :
        calls[a].state = "answered" /\ ~calls[a].disturbed =>
            /\ calls[a].named = calls[a].card
            /\ calls[a].audited = IF calls[a].listed THEN calls[a].card ELSE None

\* A call waits for Metabase as long as its own application's settings say:
\* always for a card; for execute_sql(), which asks the process-wide cache,
\* if the application was made from that cache and it was not cleared since.
TimeoutIsOwn ==
    \A a \in DOMAIN calls :
        calls[a].state = "waiting" /\ (calls[a].rpc \in CardRpcs \/ apps[a].current) =>
            calls[a].timeout = apps[a].settings.timeout

\* After the shutdown of an application its store is closed; a client that
\* raised while closing is the one way to leave it open.
ClosedAtShutdown ==
    \A a \in DOMAIN apps :
        apps[a].phase = "down" /\ apps[a].client # "failed" =>
            apps[a].store = "closed" /\ apps[a].client # "open"

\* Every application accepts the keys that have a well-formed entry in ITS
\* settings, each as the last of its entries says, and no other: reloading
\* the process's settings or making another application changes nothing.
KeysAreTheLastEntries ==
    \A a \in DOMAIN apps :
        LET raw == apps[a].settings.connector_api_keys
        IN  apps[a].keys = [key \in KeysOf(raw) |-> Identity(LastEntry(raw, key))]
=============================================================================
