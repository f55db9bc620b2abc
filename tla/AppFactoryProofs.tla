-------------------------- MODULE AppFactoryProofs --------------------------
(***************************************************************************)
(* What the applications of one process share and keep apart, for any      *)
(* settings and any number of create_app() calls.                          *)
(***************************************************************************)
EXTENDS AppFactory, FoldFacts, SequenceTheorems, TLAPS

Calls == {NoCall} \union Refusal \union Waiting \union Answered

-----------------------------------------------------------------------------
(***************************************************************************)
(* Types.                                                                  *)
(***************************************************************************)
LEMMA CardIdType ==
    ASSUME NEW s \in Settings, NEW rpc \in Rpcs
    PROVE  CardId(s, rpc) \in CardIds
  BY DEF CardIds, CardId, Rpcs

LEMMA CardIdsHasNone == None \in CardIds
  BY DEF CardIds

LEMMA LoadedType ==
    ASSUME TypeOK
    PROVE  Loaded \in Settings
  BY DEF TypeOK, Loaded

LEMMA ChosenType ==
    ASSUME TypeOK, NEW given \in Settings \union {None}
    PROVE  Chosen(given) \in Settings
  BY LoadedType DEF Chosen

LEMMA WiredType ==
    ASSUME TypeOK, NEW s \in Settings
    PROVE  Wired(s) \in [Rpcs -> CardIds]
  BY CardIdType DEF TypeOK, Wired

LEMMA CardOfRowType ==
    ASSUME TypeOK, NEW rpc \in Rpcs
    PROVE  CardOfRow(rpc) \in CardIds
  BY CardIdsHasNone DEF TypeOK, CardOfRow, Catalog

\* An application, and the call of it, is reached by its place.
LEMMA Places ==
    ASSUME TypeOK, NEW a \in DOMAIN apps
    PROVE  /\ Len(apps) \in Nat /\ a \in 1..Len(apps) /\ a \in 1..Len(calls)
           /\ DOMAIN apps = 1..Len(apps) /\ DOMAIN calls = DOMAIN apps
           /\ apps[a] \in App /\ calls[a] \in Calls
<1>1. apps \in Seq(App) /\ calls \in Seq(Calls) /\ Len(calls) = Len(apps)
  BY DEF TypeOK, Calls
<1>2. /\ Len(apps) \in Nat /\ DOMAIN apps = 1..Len(apps) /\ DOMAIN calls = 1..Len(calls)
  BY <1>1, LenProperties
<1> QED
  BY <1>1, <1>2, ElementOfSeq

\* What Disturbed makes of the calls.
LEMMA DisturbedCalls ==
    ASSUME TypeOK
    PROVE  /\ Disturbed \in Seq(Calls) /\ Len(Disturbed) = Len(apps)
           /\ DOMAIN Disturbed = DOMAIN calls
           /\ \A i \in DOMAIN calls :
                 Disturbed[i] = IF calls[i].state = "waiting"
                                THEN [calls[i] EXCEPT !.disturbed = TRUE] ELSE calls[i]
<1>1. calls \in Seq(Calls) /\ Len(calls) = Len(apps)
  BY DEF TypeOK, Calls
<1>2. Len(calls) \in Nat /\ DOMAIN calls = 1..Len(calls)
  BY <1>1, LenProperties
<1>3. ASSUME NEW i \in DOMAIN calls
      PROVE  (IF calls[i].state = "waiting"
              THEN [calls[i] EXCEPT !.disturbed = TRUE] ELSE calls[i]) \in Calls
  <2>1. calls[i] \in Calls
    BY <1>1, <1>2, ElementOfSeq
  <2>2. CASE calls[i].state = "waiting"
    <3>1. calls[i] \in Waiting
      BY <2>1, <2>2 DEF Calls, NoCall, Refusal, Waiting, Answered
    <3> QED
      BY <2>2, <3>1 DEF Calls, Waiting
  <2>3. CASE calls[i].state # "waiting"
    BY <2>1, <2>3
  <2> QED
    BY <2>2, <2>3
<1>4. Disturbed \in [1..Len(calls) -> Calls]
  BY <1>2, <1>3 DEF Disturbed
<1>5. Disturbed \in Seq(Calls) /\ Len(Disturbed) = Len(calls)
  BY <1>2, <1>4, SeqDef, LenProperties
<1> QED
  BY <1>1, <1>4, <1>5 DEF Disturbed

LEMMA TypeInit == Init => TypeOK
<1> SUFFICES ASSUME Init PROVE TypeOK
  OBVIOUS
<1>1. descriptors \in [Rpcs -> CardIds]
  BY CardIdsHasNone DEF Init
<1>2. apps \in Seq(App) /\ calls \in Seq(Calls) /\ Len(calls) = Len(apps)
  BY EmptySeq DEF Init
<1> QED
  BY <1>1, <1>2, SettingsAssumption DEF Init, TypeOK, Calls

\* The call of one application is replaced by another.
LEMMA CallReplaced ==
    ASSUME TypeOK, NEW a \in DOMAIN apps, NEW call \in Calls,
           calls' = [calls EXCEPT ![a] = call]
    PROVE  /\ calls' \in Seq(Calls) /\ Len(calls') = Len(apps)
           /\ \A b \in DOMAIN apps : calls'[b] = IF b = a THEN call ELSE calls[b]
<1>1. calls \in Seq(Calls) /\ Len(calls) = Len(apps)
  BY DEF TypeOK, Calls
<1> QED
  BY <1>1, Places, ExceptSeq

\* One application is replaced by another.
LEMMA AppReplaced ==
    ASSUME TypeOK, NEW a \in DOMAIN apps, NEW app \in App,
           apps' = [apps EXCEPT ![a] = app]
    PROVE  /\ apps' \in Seq(App) /\ Len(apps') = Len(apps) /\ DOMAIN apps' = DOMAIN apps
           /\ \A b \in DOMAIN apps : apps'[b] = IF b = a THEN app ELSE apps[b]
<1>1. apps \in Seq(App)
  BY DEF TypeOK
<1> QED
  BY <1>1, Places, ExceptSeq

\* The applications after ClearCache.
LEMMA NoneIsCurrent ==
    ASSUME TypeOK, ClearCache
    PROVE  /\ apps' \in Seq(App) /\ Len(apps') = Len(apps) /\ DOMAIN apps' = DOMAIN apps
           /\ \A b \in DOMAIN apps : apps'[b] = [apps[b] EXCEPT !.current = FALSE]
<1>1. apps \in Seq(App) /\ Len(apps) \in Nat /\ DOMAIN apps = 1..Len(apps)
  BY LenProperties DEF TypeOK
<1>2. ASSUME NEW b \in DOMAIN apps
      PROVE  [apps[b] EXCEPT !.current = FALSE] \in App
  BY <1>2, Places DEF App
<1>3. apps' = [b \in 1..Len(apps) |-> [apps[b] EXCEPT !.current = FALSE]]
  BY <1>1 DEF ClearCache
<1>4. apps' \in [1..Len(apps) -> App]
  BY <1>1, <1>2, <1>3
<1>5. apps' \in Seq(App) /\ Len(apps') = Len(apps)
  BY <1>1, <1>4, SeqDef, LenProperties
<1> QED
  BY <1>1, <1>3, <1>4, <1>5

\* The applications and calls after create_app().
LEMMA NewAppAppended ==
    ASSUME TypeOK, NEW given \in Settings \union {None}, CreateApp(given)
    PROVE  /\ NewApp(given) \in App
           /\ apps' \in Seq(App) /\ Len(apps') = Len(apps) + 1
           /\ calls' \in Seq(Calls) /\ Len(calls') = Len(apps')
           /\ DOMAIN apps' = DOMAIN apps \union {Len(apps) + 1}
           /\ \A b \in DOMAIN apps : apps'[b] = apps[b] /\ calls'[b] = Disturbed[b]
           /\ apps'[Len(apps) + 1] = NewApp(given) /\ calls'[Len(apps) + 1] = NoCall
<1>1. NewApp(given) \in App
  BY ChosenType DEF NewApp, App, KeyTables
<1>2. apps' = Append(apps, NewApp(given)) /\ calls' = Append(Disturbed, NoCall)
  BY DEF CreateApp
<1>3. apps \in Seq(App) /\ NoCall \in Calls
  BY DEF TypeOK, Calls
<1>4. Disturbed \in Seq(Calls) /\ Len(Disturbed) = Len(apps)
  BY DisturbedCalls
<1>5. /\ apps' \in Seq(App) /\ Len(apps') = Len(apps) + 1
      /\ \A b \in 1..Len(apps) : apps'[b] = apps[b]
      /\ apps'[Len(apps) + 1] = NewApp(given)
  BY <1>1, <1>2, <1>3, AppendProperties
<1>6. /\ calls' \in Seq(Calls) /\ Len(calls') = Len(apps) + 1
      /\ \A b \in 1..Len(apps) : calls'[b] = Disturbed[b]
      /\ calls'[Len(apps) + 1] = NoCall
  BY <1>2, <1>3, <1>4, AppendProperties
<1>7. Len(apps) \in Nat /\ DOMAIN apps = 1..Len(apps) /\ DOMAIN apps' = 1..Len(apps')
  BY <1>3, <1>5, LenProperties
<1> QED
  BY <1>1, <1>5, <1>6, <1>7

\* The applications after lifespan() began or ended for one of them.
LEMMA Started ==
    ASSUME TypeOK, NEW a \in DOMAIN apps, StartApp(a)
    PROVE  LET app == [apps[a] EXCEPT !.phase = "up",
                          !.client = IF apps[a].settings.api_key THEN "open" ELSE "none"]
           IN  app \in App /\ apps' = [apps EXCEPT ![a] = app]
  BY Places DEF StartApp, App

LEMMA Stopped ==
    ASSUME TypeOK, NEW a \in DOMAIN apps, StopApp(a)
    PROVE  \E app \in App :
              /\ apps' = [apps EXCEPT ![a] = app]
              /\ app.settings = apps[a].settings /\ app.current = apps[a].current
              /\ app.keys = apps[a].keys /\ app.phase = "down"
              /\ \/ app.store = "closed" /\ app.client # "open"
                 \/ app.client = "failed"
<1>1. apps[a] \in App
  BY Places
<1>2. CASE apps' = [apps EXCEPT ![a].phase = "down", ![a].store = "closed",
                               ![a].client = IF @ = "open" THEN "closed" ELSE @]
  <2> DEFINE app == [apps[a] EXCEPT !.phase = "down", !.store = "closed",
                        !.client = IF @ = "open" THEN "closed" ELSE @]
  <2>1. app \in App
    BY <1>1 DEF App
  <2>2. apps' = [apps EXCEPT ![a] = app]
    BY <1>2
  <2>3. /\ app.settings = apps[a].settings /\ app.current = apps[a].current
        /\ app.keys = apps[a].keys /\ app.phase = "down"
        /\ app.store = "closed" /\ app.client # "open"
    BY <1>1 DEF App
  <2> QED
    BY <2>1, <2>2, <2>3
<1>3. CASE apps' = [apps EXCEPT ![a].phase = "down", ![a].client = "failed"]
  <2> DEFINE app == [apps[a] EXCEPT !.phase = "down", !.client = "failed"]
  <2>1. app \in App
    BY <1>1 DEF App
  <2>2. apps' = [apps EXCEPT ![a] = app]
    BY <1>3
  <2>3. /\ app.settings = apps[a].settings /\ app.current = apps[a].current
        /\ app.keys = apps[a].keys /\ app.phase = "down" /\ app.client = "failed"
    BY <1>1 DEF App
  <2> QED
    BY <2>1, <2>2, <2>3
<1> QED
  BY <1>2, <1>3 DEF StopApp

\* The call of an application after it began, was refused, or was answered.
LEMMA CallBegun ==
    ASSUME TypeOK, NEW a \in DOMAIN apps, NEW rpc \in Rpcs,
           NEW card \in CardIds, NEW timeout \in Timeouts, Ask(a, rpc, card, timeout)
    PROVE  LET call == [state |-> "waiting", rpc |-> rpc, card |-> card,
                        timeout |-> timeout, disturbed |-> FALSE]
           IN  call \in Calls /\ calls' = [calls EXCEPT ![a] = call]
  BY DEF Ask, Calls, Waiting

LEMMA CallRefused ==
    ASSUME TypeOK, NEW a \in DOMAIN apps, NEW rpc \in Rpcs, Refuse(a, rpc)
    PROVE  LET call == [state |-> "refused", rpc |-> rpc, audited |-> CardOfRow(rpc)]
           IN  call \in Calls /\ calls' = [calls EXCEPT ![a] = call]
  BY CardOfRowType DEF Refuse, Calls, Refusal

LEMMA CallAnswered ==
    ASSUME TypeOK, NEW a \in DOMAIN apps, Answer(a)
    PROVE  LET call == [state |-> "answered", rpc |-> calls[a].rpc, card |-> calls[a].card,
                        timeout |-> calls[a].timeout, disturbed |-> calls[a].disturbed,
                        named |-> CardOfMeta(a, calls[a].rpc),
                        audited |-> CardOfRow(calls[a].rpc),
                        listed |-> calls[a].rpc \in registry]
           IN  /\ calls[a] \in Waiting
               /\ call \in Calls /\ calls' = [calls EXCEPT ![a] = call]
<1>1. calls[a] \in Waiting
  BY Places DEF Answer, Calls, NoCall, Refusal, Waiting, Answered
<1>2. calls[a].rpc \in Rpcs
  BY <1>1 DEF Waiting
<1>3. CardOfMeta(a, calls[a].rpc) \in CardIds /\ CardOfRow(calls[a].rpc) \in CardIds
  BY <1>2, CardOfRowType DEF TypeOK, CardOfMeta
<1> QED
  BY <1>1, <1>2, <1>3 DEF Answer, Calls, Waiting, Answered

LEMMA OwnTimeoutType ==
    ASSUME TypeOK, NEW a \in DOMAIN apps
    PROVE  apps[a].settings \in Settings /\ apps[a].settings.timeout \in Timeouts
  BY Places DEF App, Timeouts

\* What a call that began leaves: a call refused, or waiting as asked.
LEMMA CardBegun ==
    ASSUME TypeOK, NEW a \in DOMAIN apps, NEW rpc \in CardRpcs, BeginCard(a, rpc)
    PROVE  \E call \in Calls :
              /\ calls' = [calls EXCEPT ![a] = call]
              /\ \/ call.state = "refused"
                 \/ /\ call.state = "waiting" /\ call.rpc = rpc /\ ~call.disturbed
                    /\ call.card = descriptors[rpc]
                    /\ call.timeout = apps[a].settings.timeout
<1>1. rpc \in Rpcs
  BY DEF Rpcs
<1>2. CASE Refuse(a, rpc)
  BY <1>1, <1>2, CallRefused
<1>3. CASE Ask(a, rpc, descriptors[rpc], apps[a].settings.timeout)
  <2> DEFINE call == [state |-> "waiting", rpc |-> rpc, card |-> descriptors[rpc],
                      timeout |-> apps[a].settings.timeout, disturbed |-> FALSE]
  <2>1. descriptors[rpc] \in CardIds
    BY <1>1 DEF TypeOK
  <2>2. call \in Calls /\ calls' = [calls EXCEPT ![a] = call]
    BY <1>1, <1>3, <2>1, OwnTimeoutType, CallBegun
  <2>3. /\ call.state = "waiting" /\ call.rpc = rpc /\ ~call.disturbed
        /\ call.card = descriptors[rpc] /\ call.timeout = apps[a].settings.timeout
    OBVIOUS
  <2> HIDE DEF call
  <2> QED
    BY <2>2, <2>3
<1> QED
  BY <1>2, <1>3 DEF BeginCard

LEMMA SqlBegun ==
    ASSUME TypeOK, NEW a \in DOMAIN apps, NEW rpc \in OtherRpcs, BeginSql(a, rpc)
    PROVE  /\ cache' \in {cache, Loaded}
           /\ \E call \in Calls :
                 /\ calls' = [calls EXCEPT ![a] = call]
                 /\ \/ call.state = "refused"
                    \/ /\ call.state = "waiting" /\ call.rpc = rpc /\ ~call.disturbed
                       /\ call.card = None /\ call.timeout = Loaded.timeout
<1>1. rpc \in Rpcs
  BY DEF Rpcs
<1>2. CASE Refuse(a, rpc) /\ UNCHANGED cache
  BY <1>1, <1>2, CallRefused
<1>3. CASE Ask(a, rpc, None, Loaded.timeout) /\ cache' = Loaded
  <2> DEFINE call == [state |-> "waiting", rpc |-> rpc, card |-> None,
                      timeout |-> Loaded.timeout, disturbed |-> FALSE]
  <2>1. Loaded.timeout \in Timeouts
    BY LoadedType DEF Timeouts
  <2>2. call \in Calls /\ calls' = [calls EXCEPT ![a] = call]
    BY <1>1, <1>3, <2>1, CardIdsHasNone, CallBegun
  <2>3. /\ call.state = "waiting" /\ call.rpc = rpc /\ ~call.disturbed
        /\ call.card = None /\ call.timeout = Loaded.timeout
    OBVIOUS
  <2> HIDE DEF call
  <2> QED
    BY <1>3, <2>2, <2>3
<1> QED
  BY <1>2, <1>3 DEF BeginSql

LEMMA TypeStep == TypeOK /\ [Next]_vars => TypeOK'
<1> SUFFICES ASSUME TypeOK, [Next]_vars PROVE TypeOK'
  OBVIOUS
<1> USE DEF shared
<1>1. CASE UNCHANGED vars
  BY <1>1 DEF TypeOK, vars
<1>2. ASSUME NEW s \in Settings, ChangeEnv(s) PROVE TypeOK'
  BY <1>2 DEF TypeOK, ChangeEnv
<1>3. CASE ClearCache
  <2>1. apps' \in Seq(App) /\ Len(apps') = Len(apps)
    BY <1>3, NoneIsCurrent
  <2> QED
    BY <1>3, <2>1 DEF TypeOK, ClearCache
<1>4. ASSUME NEW given \in Settings \union {None}, CreateApp(given) PROVE TypeOK'
  <2>1. /\ apps' \in Seq(App) /\ calls' \in Seq(Calls) /\ Len(calls') = Len(apps')
    BY <1>4, NewAppAppended
  <2>2. descriptors' \in [Rpcs -> CardIds]
    BY <1>4, ChosenType, WiredType DEF CreateApp
  <2>3. creations' \in 0..MaxCreations /\ cache' \in Settings \union {None}
    BY <1>4, LoadedType, SettingsAssumption DEF CreateApp, Chooses, TypeOK
  <2> QED
    BY <1>4, <2>1, <2>2, <2>3 DEF TypeOK, CreateApp, Calls
<1>5. ASSUME NEW given \in Settings \union {None}, CreateAppRaises(given) PROVE TypeOK'
  <2>1. calls' \in Seq(Calls) /\ Len(calls') = Len(apps)
    BY <1>5, DisturbedCalls DEF CreateAppRaises
  <2>2. creations' \in 0..MaxCreations /\ cache' \in Settings \union {None}
    BY <1>5, LoadedType, SettingsAssumption DEF CreateAppRaises, Chooses, TypeOK
  <2>3. failure' \in {None, "store", "duplicate"}
    BY <1>5 DEF CreateAppRaises, Refused
  <2>4. registry' \subseteq Rpcs
    BY <1>5 DEF CreateAppRaises, ResetRegistry
  <2> QED
    BY <1>5, <2>1, <2>2, <2>3, <2>4 DEF TypeOK, CreateAppRaises, Calls
<1>6. ASSUME NEW a \in DOMAIN apps, StartApp(a) \/ StopApp(a) PROVE TypeOK'
  <2>1. apps' \in Seq(App) /\ Len(apps') = Len(apps)
    <3>1. \E app \in App : apps' = [apps EXCEPT ![a] = app]
      <4>1. CASE StartApp(a)
        BY <4>1, Started
      <4>2. CASE StopApp(a)
        BY <4>2, Stopped
      <4> QED
        BY <1>6, <4>1, <4>2
    <3> QED
      BY <3>1, AppReplaced
  <2> QED
    BY <1>6, <2>1 DEF TypeOK, StartApp, StopApp
<1>7. ASSUME NEW a \in DOMAIN apps, NEW rpc \in CardRpcs, BeginCard(a, rpc) PROVE TypeOK'
  <2>1. calls' \in Seq(Calls) /\ Len(calls') = Len(apps)
    BY <1>7, CardBegun, CallReplaced
  <2> QED
    BY <1>7, <2>1 DEF TypeOK, BeginCard, Calls
<1>8. ASSUME NEW a \in DOMAIN apps, NEW rpc \in OtherRpcs, BeginSql(a, rpc) PROVE TypeOK'
  <2>1. calls' \in Seq(Calls) /\ Len(calls') = Len(apps) /\ cache' \in Settings \union {None}
    BY <1>8, SqlBegun, CallReplaced, LoadedType DEF TypeOK
  <2> QED
    BY <1>8, <2>1 DEF TypeOK, BeginSql, Calls
<1>9. ASSUME NEW a \in DOMAIN apps, Answer(a) PROVE TypeOK'
  <2>1. calls' \in Seq(Calls) /\ Len(calls') = Len(apps)
    BY <1>9, CallAnswered, CallReplaced
  <2> QED
    BY <1>9, <2>1 DEF TypeOK, Answer, Calls
<1> QED
  BY <1>1, <1>2, <1>3, <1>4, <1>5, <1>6, <1>7, <1>8, <1>9 DEF Next

\* Every variable keeps its type, whatever applications the process makes.
THEOREM TypeCorrect == Spec => []TypeOK
<1>1. Init => TypeOK
  BY TypeInit
<1>2. TypeOK /\ [Next]_vars => TypeOK'
  BY TypeStep
<1> QED
  BY <1>1, <1>2, PTL DEF Spec

-----------------------------------------------------------------------------
(***************************************************************************)
(* The factory can be called again.                                        *)
(***************************************************************************)
LEMMA RepeatableStep ==
    TypeOK /\ FactoryIsRepeatable /\ [Next]_vars => FactoryIsRepeatable'
<1> SUFFICES ASSUME TypeOK, FactoryIsRepeatable, [Next]_vars PROVE FactoryIsRepeatable'
  OBVIOUS
<1> USE DEF FactoryIsRepeatable
<1>1. ASSUME NEW given \in Settings \union {None}, CreateApp(given)
      PROVE  FactoryIsRepeatable'
  BY <1>1, SettingsAssumption DEF CreateApp
<1>2. ASSUME NEW given \in Settings \union {None}, CreateAppRaises(given)
      PROVE  FactoryIsRepeatable'
  <2>1. Refused(given) \in {None, "store"}
    BY DEF Refused, ResetRegistry
  <2> QED
    BY <1>2, <2>1, SettingsAssumption DEF CreateAppRaises
<1>3. CASE UNCHANGED <<creations, failure, registry>>
  BY <1>3
<1> QED
  BY <1>1, <1>2, <1>3
     DEF Next, vars, shared, ChangeEnv, ClearCache, StartApp, StopApp, BeginCard, BeginSql, Answer

\* However often create_app() is called, and whatever failed before, it fails
\* for its store alone, and when it returns every RPC is registered.
THEOREM FactoryAlwaysRepeatable == Spec => []FactoryIsRepeatable
<1>1. Init => FactoryIsRepeatable
  BY SettingsAssumption DEF Init, FactoryIsRepeatable
<1> QED
  BY <1>1, RepeatableStep, TypeCorrect, PTL DEF Spec

-----------------------------------------------------------------------------
(***************************************************************************)
(* The wiring.  The invariant speaks of every RPC, in the registry or not. *)
(***************************************************************************)
LastGiven(rpc) ==
    \/ Givers(rpc) = {} /\ descriptors[rpc] = None
    \/ \E last \in Givers(rpc) :
          /\ \A a \in Givers(rpc) : a <= last
          /\ descriptors[rpc] = CardId(apps[last].settings, rpc)

Wiring == \A rpc \in Rpcs : LastGiven(rpc)

\* Applications keep their settings, and their settings stay the cached ones
\* only as long as they are.
LEMMA SettingsKept ==
    ASSUME TypeOK, [Next]_vars, NEW b \in DOMAIN apps
    PROVE  /\ b \in DOMAIN apps'
           /\ apps'[b].settings = apps[b].settings
           /\ apps'[b].current => apps[b].current
<1>1. apps[b] \in App
  BY Places
<1>2. CASE ClearCache
  BY <1>1, <1>2, NoneIsCurrent DEF App
<1>3. ASSUME NEW given \in Settings \union {None}, CreateApp(given)
      PROVE  b \in DOMAIN apps' /\ apps'[b] = apps[b]
  BY <1>3, NewAppAppended
<1>4. ASSUME NEW a \in DOMAIN apps, StartApp(a)
      PROVE  /\ b \in DOMAIN apps'
             /\ apps'[b].settings = apps[b].settings /\ apps'[b].current = apps[b].current
  <2> DEFINE app == [apps[a] EXCEPT !.phase = "up",
                        !.client = IF apps[a].settings.api_key THEN "open" ELSE "none"]
  <2>1. app \in App /\ apps' = [apps EXCEPT ![a] = app]
    BY <1>4, Started
  <2>2. app.settings = apps[a].settings /\ app.current = apps[a].current
    BY Places DEF App
  <2> HIDE DEF app
  <2> QED
    BY <2>1, <2>2, AppReplaced
<1>5. ASSUME NEW a \in DOMAIN apps, StopApp(a)
      PROVE  /\ b \in DOMAIN apps'
             /\ apps'[b].settings = apps[b].settings /\ apps'[b].current = apps[b].current
  <2>1. PICK app \in App : /\ apps' = [apps EXCEPT ![a] = app]
                           /\ app.settings = apps[a].settings /\ app.current = apps[a].current
    BY <1>5, Stopped
  <2> QED
    BY <2>1, AppReplaced
<1>6. CASE UNCHANGED apps
  BY <1>6
<1> QED
  BY <1>2, <1>3, <1>4, <1>5, <1>6
     DEF Next, vars, ChangeEnv, CreateAppRaises, BeginCard, BeginSql, Answer

\* The only step that adds an application is create_app().
LEMMA AppsKept ==
    ASSUME TypeOK, [Next]_vars, ~\E given \in Settings \union {None} : CreateApp(given)
    PROVE  DOMAIN apps' = DOMAIN apps /\ UNCHANGED descriptors
<1>1. CASE ClearCache
  BY <1>1, NoneIsCurrent DEF ClearCache
<1>2. ASSUME NEW a \in DOMAIN apps, StartApp(a) \/ StopApp(a)
      PROVE  DOMAIN apps' = DOMAIN apps /\ UNCHANGED descriptors
  BY <1>2, Started, Stopped, AppReplaced DEF StartApp, StopApp, shared
<1>3. CASE UNCHANGED <<apps, descriptors>>
  BY <1>3
<1> QED
  BY <1>1, <1>2, <1>3
     DEF Next, vars, shared, ChangeEnv, CreateAppRaises, BeginCard, BeginSql, Answer

LEMMA WiringStep == TypeOK /\ Wiring /\ [Next]_vars => Wiring'
<1> SUFFICES ASSUME TypeOK, Wiring, [Next]_vars, NEW rpc \in Rpcs PROVE LastGiven(rpc)'
  BY DEF Wiring
<1>1. LastGiven(rpc)
  BY DEF Wiring
<1>2. \A b \in DOMAIN apps : b \in DOMAIN apps' /\ apps'[b].settings = apps[b].settings
  BY SettingsKept
<1>3. ASSUME NEW given \in Settings \union {None}, CreateApp(given)
      PROVE  LastGiven(rpc)'
  <2> DEFINE n == Len(apps) + 1
             card == CardId(Chosen(given), rpc)
  <2>1. /\ DOMAIN apps' = DOMAIN apps \union {n} /\ apps'[n].settings = Chosen(given)
    <3>1. DOMAIN apps' = DOMAIN apps \union {n} /\ apps'[n] = NewApp(given)
      BY <1>3, NewAppAppended
    <3>2. NewApp(given).settings = Chosen(given)
      BY DEF NewApp
    <3> QED
      BY <3>1, <3>2
  <2>2. descriptors'[rpc] = IF card # None THEN card ELSE descriptors[rpc]
    BY <1>3 DEF CreateApp, Wired
  <2>3. \A b \in DOMAIN apps : b \in Nat /\ b < n
    BY LenProperties DEF TypeOK
  <2>4. n \in Nat
    BY LenProperties DEF TypeOK
  <2>5. Givers(rpc)' = IF card # None THEN Givers(rpc) \union {n} ELSE Givers(rpc)
    BY <1>2, <2>1 DEF Givers, CardId
  <2>6. CASE card # None
    <3>1. n \in Givers(rpc)' /\ \A b \in Givers(rpc)' : b <= n
      BY <2>3, <2>4, <2>5, <2>6 DEF Givers
    <3>2. descriptors'[rpc] = CardId(apps'[n].settings, rpc)
      BY <2>1, <2>2, <2>6
    <3> QED
      BY <3>1, <3>2 DEF LastGiven, CardId
  <2>7. CASE card = None
    <3>1. \A b \in Givers(rpc) : CardId(apps'[b].settings, rpc) = CardId(apps[b].settings, rpc)
      BY <1>2 DEF Givers
    <3> QED
      BY <1>1, <2>2, <2>5, <2>7, <3>1 DEF LastGiven, CardId
  <2> QED
    BY <2>6, <2>7
<1>4. CASE ~\E given \in Settings \union {None} : CreateApp(given)
  <2>1. DOMAIN apps' = DOMAIN apps /\ UNCHANGED descriptors
    BY <1>4, AppsKept
  <2>2. Givers(rpc)' = Givers(rpc)
    BY <1>2, <2>1 DEF Givers, CardId
  <2>3. \A b \in Givers(rpc) : apps'[b].settings = apps[b].settings
    BY <1>2 DEF Givers
  <2> QED
    BY <1>1, <2>1, <2>2, <2>3 DEF LastGiven, CardId
<1> QED
  BY <1>3, <1>4

\* Each descriptor holds the card of the last application that was given one;
\* this is what the code does, and OwnCardsWin what it is good for.
THEOREM WiringAlways == Spec => []Wiring
<1>1. Init => Wiring
  BY DEF Init, Wiring, LastGiven, Givers
<1> QED
  BY <1>1, WiringStep, TypeCorrect, PTL DEF Spec

-----------------------------------------------------------------------------
(***************************************************************************)
(* The calls.  While an undisturbed call waits, the descriptor it read is  *)
(* as it was.                                                              *)
(***************************************************************************)
WaitsUnchanged(call) ==
    call.state = "waiting" /\ ~call.disturbed => call.card = descriptors[call.rpc]

AnsweredTruly(call) ==
    call.state = "answered" /\ ~call.disturbed =>
        /\ call.named = call.card
        /\ call.audited = IF call.listed THEN call.card ELSE None

Asked == \A a \in DOMAIN calls : WaitsUnchanged(calls[a]) /\ AnsweredTruly(calls[a])

LEMMA OthersHaveNoCard ==
    ASSUME TypeOK, Wiring, NEW rpc \in OtherRpcs
    PROVE  descriptors[rpc] = None
  BY SettingsAssumption DEF Wiring, LastGiven, Givers, CardId, Rpcs

\* Any other call of one application leaves the rest as they are.
LEMMA AskedOfOne ==
    ASSUME TypeOK, Asked, NEW a \in DOMAIN apps, NEW call \in Calls,
           calls' = [calls EXCEPT ![a] = call], UNCHANGED descriptors,
           WaitsUnchanged(call), AnsweredTruly(call)
    PROVE  Asked'
<1>1. calls' \in Seq(Calls) /\ Len(calls') = Len(apps)
      /\ \A b \in DOMAIN apps : calls'[b] = IF b = a THEN call ELSE calls[b]
  BY CallReplaced
<1>2. DOMAIN calls' = DOMAIN apps /\ DOMAIN calls = DOMAIN apps
  BY <1>1, Places, LenProperties
<1> QED
  BY <1>1, <1>2 DEF Asked, WaitsUnchanged, AnsweredTruly

LEMMA AskedStep == TypeOK /\ Wiring /\ Asked /\ [Next]_vars => Asked'
<1> SUFFICES ASSUME TypeOK, Wiring, Asked, [Next]_vars PROVE Asked'
  OBVIOUS
<1>1. ASSUME NEW given \in Settings \union {None}, CreateApp(given) PROVE Asked'
  <2>1. /\ DOMAIN calls' = DOMAIN calls \union {Len(apps) + 1}
        /\ \A b \in DOMAIN calls : calls'[b] = Disturbed[b]
        /\ calls'[Len(apps) + 1] = NoCall
    <3>1. calls' \in Seq(Calls) /\ Len(calls') = Len(apps')
          /\ apps' \in Seq(App) /\ DOMAIN apps' = DOMAIN apps \union {Len(apps) + 1}
      BY <1>1, NewAppAppended
    <3>2. DOMAIN calls' = DOMAIN apps'
      BY <3>1, LenProperties
    <3>3. DOMAIN calls = DOMAIN apps
      BY LenProperties DEF TypeOK
    <3> QED
      BY <1>1, <3>1, <3>2, <3>3, NewAppAppended
  <2>2. ASSUME NEW b \in DOMAIN calls
        PROVE  WaitsUnchanged(calls[b])' /\ AnsweredTruly(calls[b])'
    <3>1. calls[b] \in Calls /\ AnsweredTruly(calls[b])
      BY LenProperties DEF TypeOK, Calls, Asked
    <3>2. calls'[b] = IF calls[b].state = "waiting"
                      THEN [calls[b] EXCEPT !.disturbed = TRUE] ELSE calls[b]
      BY <2>1, DisturbedCalls
    <3>3. CASE calls[b].state = "waiting"
      <4>1. calls[b] \in Waiting
        BY <3>1, <3>3 DEF Calls, NoCall, Refusal, Answered
      <4>2. calls'[b].disturbed = TRUE
        BY <3>2, <3>3, <4>1 DEF Waiting
      <4> QED
        BY <4>2 DEF WaitsUnchanged, AnsweredTruly
    <3>4. CASE calls[b].state # "waiting"
      BY <3>1, <3>2, <3>4 DEF WaitsUnchanged, AnsweredTruly
    <3> QED
      BY <3>3, <3>4
  <2>3. WaitsUnchanged(NoCall)' /\ AnsweredTruly(NoCall)'
    BY DEF WaitsUnchanged, AnsweredTruly, NoCall
  <2> QED
    BY <2>1, <2>2, <2>3 DEF Asked, WaitsUnchanged, AnsweredTruly
<1>2. ASSUME NEW given \in Settings \union {None}, CreateAppRaises(given) PROVE Asked'
  <2>1. /\ calls' = Disturbed /\ DOMAIN calls' = DOMAIN calls
        /\ \A b \in DOMAIN calls :
              calls'[b] = IF calls[b].state = "waiting"
                          THEN [calls[b] EXCEPT !.disturbed = TRUE] ELSE calls[b]
    BY <1>2, DisturbedCalls DEF CreateAppRaises
  <2>2. ASSUME NEW b \in DOMAIN calls
        PROVE  WaitsUnchanged(calls[b])' /\ AnsweredTruly(calls[b])'
    <3>1. calls[b] \in Calls /\ AnsweredTruly(calls[b])
      BY LenProperties DEF TypeOK, Calls, Asked
    <3>2. CASE calls[b].state = "waiting"
      <4>1. calls[b] \in Waiting
        BY <3>1, <3>2 DEF Calls, NoCall, Refusal, Answered
      <4>2. calls'[b].disturbed = TRUE
        BY <2>1, <3>2, <4>1 DEF Waiting
      <4> QED
        BY <4>2 DEF WaitsUnchanged, AnsweredTruly
    <3>3. CASE calls[b].state # "waiting"
      BY <2>1, <3>1, <3>3 DEF WaitsUnchanged, AnsweredTruly
    <3> QED
      BY <3>2, <3>3
  <2> QED
    BY <2>1, <2>2 DEF Asked, WaitsUnchanged, AnsweredTruly
<1>3. ASSUME NEW a \in DOMAIN apps, NEW rpc \in CardRpcs, BeginCard(a, rpc) PROVE Asked'
  <2>1. UNCHANGED descriptors
    BY <1>3 DEF BeginCard, shared
  <2>2. PICK call \in Calls :
           /\ calls' = [calls EXCEPT ![a] = call]
           /\ \/ call.state = "refused"
              \/ call.state = "waiting" /\ call.rpc = rpc /\ call.card = descriptors[rpc]
    BY <1>3, CardBegun
  <2>3. WaitsUnchanged(call) /\ AnsweredTruly(call)
    BY <2>2 DEF WaitsUnchanged, AnsweredTruly
  <2> QED
    BY <2>1, <2>2, <2>3, AskedOfOne
<1>4. ASSUME NEW a \in DOMAIN apps, NEW rpc \in OtherRpcs, BeginSql(a, rpc) PROVE Asked'
  <2>1. UNCHANGED descriptors
    BY <1>4 DEF BeginSql
  <2>2. PICK call \in Calls :
           /\ calls' = [calls EXCEPT ![a] = call]
           /\ \/ call.state = "refused"
              \/ call.state = "waiting" /\ call.rpc = rpc /\ call.card = None
    BY <1>4, SqlBegun
  <2>3. WaitsUnchanged(call) /\ AnsweredTruly(call)
    BY <2>2, OthersHaveNoCard DEF WaitsUnchanged, AnsweredTruly
  <2> QED
    BY <2>1, <2>2, <2>3, AskedOfOne
<1>5. ASSUME NEW a \in DOMAIN apps, Answer(a) PROVE Asked'
  <2> DEFINE call == [state |-> "answered", rpc |-> calls[a].rpc, card |-> calls[a].card,
                      timeout |-> calls[a].timeout, disturbed |-> calls[a].disturbed,
                      named |-> CardOfMeta(a, calls[a].rpc),
                      audited |-> CardOfRow(calls[a].rpc),
                      listed |-> calls[a].rpc \in registry]
  <2>1. calls[a] \in Waiting /\ call \in Calls /\ calls' = [calls EXCEPT ![a] = call]
    BY <1>5, CallAnswered
  <2>2. calls[a].state = "waiting" /\ WaitsUnchanged(calls[a])
    BY <1>5, Places DEF Answer, Asked
  <2>3. WaitsUnchanged(call)
    BY DEF WaitsUnchanged
  <2>4. ASSUME ~calls[a].disturbed
        PROVE  /\ CardOfMeta(a, calls[a].rpc) = calls[a].card
               /\ CardOfRow(calls[a].rpc) = IF calls[a].rpc \in registry
                                           THEN calls[a].card ELSE None
    BY <2>2, <2>4 DEF WaitsUnchanged, CardOfMeta, CardOfRow, Catalog
  <2>5. AnsweredTruly(call)
    BY <2>4 DEF AnsweredTruly
  <2>6. UNCHANGED descriptors
    BY <1>5 DEF Answer, shared
  <2> HIDE DEF call
  <2> QED
    BY <2>1, <2>3, <2>5, <2>6, AskedOfOne
<1>6. CASE UNCHANGED <<calls, descriptors>>
  BY <1>6 DEF Asked, WaitsUnchanged, AnsweredTruly
<1> QED
  BY <1>1, <1>2, <1>3, <1>4, <1>5, <1>6
     DEF Next, vars, shared, ChangeEnv, ClearCache, StartApp, StopApp

LEMMA AskedAlways == Spec => []Asked
<1>1. Init => Asked
  BY DEF Init, Asked
<1> QED
  BY <1>1, AskedStep, TypeCorrect, WiringAlways, PTL DEF Spec

\* Whatever other applications do while a call waits, short of create_app(),
\* its response and its audit row name the card that was asked.
THEOREM ResponsesNameTheirCard == Spec => []ResponseNamesItsCard
<1>1. Asked => ResponseNamesItsCard
  BY DEF Asked, AnsweredTruly, ResponseNamesItsCard
<1> QED
  BY <1>1, AskedAlways, PTL

\* However many applications were made before it, the newest shows and asks the
\* cards its own settings give, and no card shows that no settings ever gave.
THEOREM OwnCardsAlwaysWin == Spec => []OwnCardsWin
<1>1. ASSUME TypeOK, Wiring, Asked PROVE OwnCardsWin
  <2>1. ASSUME NEW rpc \in registry, Givers(rpc) = {} PROVE Catalog[rpc] = None
    <3>1. rpc \in Rpcs
      BY <1>1 DEF TypeOK
    <3> QED
      BY <1>1, <2>1, <3>1 DEF Wiring, LastGiven, Catalog
  <2>2. ASSUME NEW a \in DOMAIN apps, a = Len(apps), NEW rpc \in Rpcs,
               CardId(apps[a].settings, rpc) # None
        PROVE  descriptors[rpc] = CardId(apps[a].settings, rpc)
    <3>1. a \in Givers(rpc)
      BY <2>2 DEF Givers
    <3>2. PICK last \in Givers(rpc) :
             /\ \A b \in Givers(rpc) : b <= last
             /\ descriptors[rpc] = CardId(apps[last].settings, rpc)
      BY <1>1, <3>1 DEF Wiring, LastGiven
    <3>3. Len(apps) \in Nat /\ DOMAIN apps = 1..Len(apps)
      BY <1>1, LenProperties DEF TypeOK
    <3>4. last = a
      BY <2>2, <3>1, <3>2, <3>3 DEF Givers
    <3> QED
      BY <3>2, <3>4
  <2>3. ASSUME NEW a \in DOMAIN apps, a = Len(apps), NEW rpc \in registry,
               CardId(apps[a].settings, rpc) # None
        PROVE  Catalog[rpc] = CardId(apps[a].settings, rpc)
    <3>1. rpc \in Rpcs
      BY <1>1 DEF TypeOK
    <3> QED
      BY <2>2, <2>3, <3>1 DEF Catalog
  <2>4. ASSUME NEW a \in DOMAIN apps, a = Len(apps), calls[a].state = "waiting",
               ~calls[a].disturbed, CardId(apps[a].settings, calls[a].rpc) # None
        PROVE  calls[a].card = CardId(apps[a].settings, calls[a].rpc)
    <3>1. calls[a] \in Calls /\ a \in DOMAIN calls
      BY <1>1, Places
    <3>2. calls[a].rpc \in Rpcs
      BY <2>4, <3>1 DEF Calls, NoCall, Refusal, Answered, Waiting
    <3>3. calls[a].card = descriptors[calls[a].rpc]
      BY <1>1, <2>4, <3>1 DEF Asked, WaitsUnchanged
    <3> QED
      BY <2>2, <2>4, <3>2, <3>3
  <2> QED
    BY <2>1, <2>3, <2>4 DEF OwnCardsWin
<1> QED
  BY <1>1, TypeCorrect, WiringAlways, AskedAlways, PTL

-----------------------------------------------------------------------------
(***************************************************************************)
(* The cached settings, and the timeouts that are taken from them.         *)
(***************************************************************************)
CurrentIsCached == \A a \in DOMAIN apps : apps[a].current => cache = apps[a].settings

LEMMA CurrentStep == TypeOK /\ CurrentIsCached /\ [Next]_vars => CurrentIsCached'
<1> SUFFICES ASSUME TypeOK, CurrentIsCached, [Next]_vars PROVE CurrentIsCached'
  OBVIOUS
<1>1. \A b \in DOMAIN apps : /\ apps'[b].settings = apps[b].settings
                             /\ apps'[b].current => apps[b].current
  BY SettingsKept
<1>2. \A b \in DOMAIN apps : apps[b].settings \in Settings /\ apps[b].settings # None
  BY OwnTimeoutType, SettingsAssumption
<1>3. ASSUME NEW given \in Settings \union {None}, CreateApp(given) PROVE CurrentIsCached'
  <2> DEFINE n == Len(apps) + 1
  <2>1. DOMAIN apps' = DOMAIN apps \union {n} /\ apps'[n] = NewApp(given)
    BY <1>3, NewAppAppended
  <2>2. cache' = IF given = None THEN Loaded ELSE cache
    BY <1>3 DEF CreateApp, Chooses
  <2>3. apps'[n].current => cache' = apps'[n].settings
    <3>1. /\ NewApp(given).current <=> given = None
          /\ NewApp(given).settings = IF given = None THEN Loaded ELSE given
      BY DEF NewApp, Chosen
    <3> QED
      BY <2>1, <2>2, <3>1
  <2>4. \A b \in DOMAIN apps : apps'[b].current => cache' = apps'[b].settings
    BY <1>1, <1>2, <2>2 DEF CurrentIsCached, Loaded
  <2> QED
    BY <2>1, <2>3, <2>4 DEF CurrentIsCached
<1>4. ASSUME ~\E given \in Settings \union {None} : CreateApp(given),
             cache' \in {cache, Loaded}
      PROVE  CurrentIsCached'
  <2>1. DOMAIN apps' = DOMAIN apps
    BY <1>4, AppsKept
  <2> QED
    BY <1>1, <1>2, <1>4, <2>1 DEF CurrentIsCached, Loaded
<1>5. CASE ClearCache
  <2>1. \A b \in DOMAIN apps' : ~apps'[b].current
    BY <1>5, NoneIsCurrent, Places DEF App
  <2> QED
    BY <2>1 DEF CurrentIsCached
<1>6. ASSUME NEW a \in DOMAIN apps, NEW rpc \in OtherRpcs, BeginSql(a, rpc)
      PROVE  cache' \in {cache, Loaded}
  BY <1>6, SqlBegun
<1>7. ASSUME NEW given \in Settings \union {None}, CreateAppRaises(given)
      PROVE  cache' \in {cache, Loaded}
  BY <1>7 DEF CreateAppRaises, Chooses
<1>8. CASE UNCHANGED cache
  BY <1>3, <1>4, <1>8
<1> QED
  BY <1>3, <1>4, <1>5, <1>6, <1>7, <1>8
     DEF Next, vars, shared, ChangeEnv, StartApp, StopApp, BeginCard, Answer

\* What TimeoutIsOwn says of one call.
OwnTimeout(call, app) ==
    call.state = "waiting" /\ (call.rpc \in CardRpcs \/ app.current) =>
        call.timeout = app.settings.timeout

LEMMA TimeoutStep ==
    TypeOK /\ CurrentIsCached /\ TimeoutIsOwn /\ [Next]_vars => TimeoutIsOwn'
<1> SUFFICES ASSUME TypeOK, CurrentIsCached, TimeoutIsOwn, [Next]_vars,
                    NEW b \in DOMAIN calls'
             PROVE  OwnTimeout(calls[b], apps[b])'
  BY DEF TimeoutIsOwn, OwnTimeout
<1>1. ASSUME b \in DOMAIN apps
      PROVE  /\ calls[b] \in Calls /\ OwnTimeout(calls[b], apps[b])
             /\ apps'[b].settings = apps[b].settings
             /\ apps'[b].current => apps[b].current
  BY <1>1, Places, SettingsKept DEF TimeoutIsOwn, OwnTimeout
<1>2. ASSUME b \in DOMAIN apps, calls'[b] = calls[b]
      PROVE  OwnTimeout(calls[b], apps[b])'
  BY <1>1, <1>2 DEF OwnTimeout
<1>3. ASSUME b \in DOMAIN apps, calls'[b] = Disturbed[b]
      PROVE  OwnTimeout(calls[b], apps[b])'
  <2>1. calls'[b] = IF calls[b].state = "waiting"
                    THEN [calls[b] EXCEPT !.disturbed = TRUE] ELSE calls[b]
    BY <1>3, DisturbedCalls, Places
  <2>2. CASE calls[b].state = "waiting"
    <3>1. calls[b] \in Waiting
      BY <1>1, <1>3, <2>2 DEF Calls, NoCall, Refusal, Answered
    <3>2. calls'[b].rpc = calls[b].rpc /\ calls'[b].timeout = calls[b].timeout
      BY <2>1, <2>2, <3>1 DEF Waiting
    <3> QED
      BY <1>1, <1>3, <2>2, <3>2 DEF OwnTimeout
  <2>3. CASE calls[b].state # "waiting"
    BY <1>1, <1>3, <2>1, <2>3 DEF OwnTimeout
  <2> QED
    BY <2>2, <2>3
<1>4. DOMAIN calls = DOMAIN apps
  BY LenProperties DEF TypeOK
<1>5. ASSUME NEW given \in Settings \union {None}, CreateApp(given)
      PROVE  OwnTimeout(calls[b], apps[b])'
  <2>1. /\ \A c \in DOMAIN apps : calls'[c] = Disturbed[c]
        /\ calls'[Len(apps) + 1] = NoCall
        /\ DOMAIN apps' = DOMAIN apps \union {Len(apps) + 1}
        /\ apps' \in Seq(App) /\ calls' \in Seq(Calls) /\ Len(calls') = Len(apps')
    BY <1>5, NewAppAppended
  <2>2. DOMAIN calls' = DOMAIN apps'
    BY <2>1, LenProperties
  <2>3. CASE b = Len(apps) + 1
    BY <2>1, <2>3 DEF OwnTimeout, NoCall
  <2> QED
    BY <1>3, <2>1, <2>2, <2>3
<1>6. ASSUME NEW given \in Settings \union {None}, CreateAppRaises(given)
      PROVE  OwnTimeout(calls[b], apps[b])'
  BY <1>3, <1>4, <1>6, DisturbedCalls DEF CreateAppRaises
<1>7. ASSUME NEW a \in DOMAIN apps, NEW call \in Calls,
             calls' = [calls EXCEPT ![a] = call],
             OwnTimeout(call, apps[a]), UNCHANGED apps
      PROVE  OwnTimeout(calls[b], apps[b])'
  <2>1. /\ \A c \in DOMAIN apps : calls'[c] = IF c = a THEN call ELSE calls[c]
        /\ calls' \in Seq(Calls) /\ Len(calls') = Len(apps)
    BY <1>7, CallReplaced
  <2>2. b \in DOMAIN apps
    BY <1>7, <2>1, Places, LenProperties
  <2>3. CASE b = a
    BY <1>7, <2>1, <2>2, <2>3 DEF OwnTimeout
  <2> QED
    BY <1>2, <2>1, <2>2, <2>3
<1>8. ASSUME NEW a \in DOMAIN apps, NEW rpc \in CardRpcs, BeginCard(a, rpc)
      PROVE  OwnTimeout(calls[b], apps[b])'
  <2>1. PICK call \in Calls :
           /\ calls' = [calls EXCEPT ![a] = call]
           /\ call.state = "refused" \/ call.timeout = apps[a].settings.timeout
    BY <1>8, CardBegun
  <2>2. OwnTimeout(call, apps[a]) /\ UNCHANGED apps
    BY <1>8, <2>1 DEF OwnTimeout, BeginCard
  <2> QED
    BY <1>7, <2>1, <2>2
<1>9. ASSUME NEW a \in DOMAIN apps, NEW rpc \in OtherRpcs, BeginSql(a, rpc)
      PROVE  OwnTimeout(calls[b], apps[b])'
  <2>1. PICK call \in Calls :
           /\ calls' = [calls EXCEPT ![a] = call]
           /\ call.state = "refused" \/ (call.rpc = rpc /\ call.timeout = Loaded.timeout)
    BY <1>9, SqlBegun
  <2>2. rpc \notin CardRpcs
    BY SettingsAssumption
  <2>3. apps[a].current => Loaded = apps[a].settings
    BY OwnTimeoutType, SettingsAssumption DEF CurrentIsCached, Loaded
  <2>4. OwnTimeout(call, apps[a]) /\ UNCHANGED apps
    BY <1>9, <2>1, <2>2, <2>3 DEF OwnTimeout, BeginSql
  <2> QED
    BY <1>7, <2>1, <2>4
<1>10. ASSUME NEW a \in DOMAIN apps, Answer(a)
       PROVE  OwnTimeout(calls[b], apps[b])'
  <2> DEFINE call == [state |-> "answered", rpc |-> calls[a].rpc, card |-> calls[a].card,
                      timeout |-> calls[a].timeout, disturbed |-> calls[a].disturbed,
                      named |-> CardOfMeta(a, calls[a].rpc),
                      audited |-> CardOfRow(calls[a].rpc),
                      listed |-> calls[a].rpc \in registry]
  <2>1. call \in Calls /\ calls' = [calls EXCEPT ![a] = call]
    BY <1>10, CallAnswered
  <2>2. OwnTimeout(call, apps[a]) /\ UNCHANGED apps
    BY <1>10 DEF OwnTimeout, Answer
  <2> HIDE DEF call
  <2> QED
    BY <1>7, <2>1, <2>2
<1>11. CASE UNCHANGED calls
  BY <1>2, <1>4, <1>11
<1> QED
  BY <1>5, <1>6, <1>8, <1>9, <1>10, <1>11
     DEF Next, vars, ChangeEnv, ClearCache, StartApp, StopApp

\* Every application's calls wait as long as its own settings say, those of
\* execute_sql() as long as the settings it was made with are the cached ones.
THEOREM TimeoutsAreOwn == Spec => []TimeoutIsOwn
<1>1. Init => CurrentIsCached /\ TimeoutIsOwn
  BY DEF Init, CurrentIsCached, TimeoutIsOwn
<1> QED
  BY <1>1, CurrentStep, TimeoutStep, TypeCorrect, PTL DEF Spec

-----------------------------------------------------------------------------
(***************************************************************************)
(* Shutdown.                                                               *)
(***************************************************************************)
LEMMA ClosedStep == TypeOK /\ ClosedAtShutdown /\ [Next]_vars => ClosedAtShutdown'
<1> SUFFICES ASSUME TypeOK, ClosedAtShutdown, [Next]_vars PROVE ClosedAtShutdown'
  OBVIOUS
<1>1. CASE ClearCache
  <2>1. \A b \in DOMAIN apps : /\ apps'[b].phase = apps[b].phase
                               /\ apps'[b].client = apps[b].client
                               /\ apps'[b].store = apps[b].store
    BY <1>1, NoneIsCurrent, Places DEF App
  <2> QED
    BY <1>1, <2>1, NoneIsCurrent DEF ClosedAtShutdown
<1>2. ASSUME NEW given \in Settings \union {None}, CreateApp(given)
      PROVE  ClosedAtShutdown'
  <2>1. /\ DOMAIN apps' = DOMAIN apps \union {Len(apps) + 1}
        /\ \A b \in DOMAIN apps : apps'[b] = apps[b]
        /\ apps'[Len(apps) + 1] = NewApp(given)
    BY <1>2, NewAppAppended
  <2>2. NewApp(given).phase = "built"
    BY DEF NewApp
  <2> QED
    BY <2>1, <2>2 DEF ClosedAtShutdown
<1>3. ASSUME NEW a \in DOMAIN apps, StartApp(a) PROVE ClosedAtShutdown'
  <2> DEFINE app == [apps[a] EXCEPT !.phase = "up",
                        !.client = IF apps[a].settings.api_key THEN "open" ELSE "none"]
  <2>1. app \in App /\ apps' = [apps EXCEPT ![a] = app]
    BY <1>3, Started
  <2>2. app.phase = "up"
    BY Places DEF App
  <2> HIDE DEF app
  <2> QED
    BY <2>1, <2>2, AppReplaced DEF ClosedAtShutdown
<1>4. ASSUME NEW a \in DOMAIN apps, StopApp(a) PROVE ClosedAtShutdown'
  <2>1. PICK app \in App : /\ apps' = [apps EXCEPT ![a] = app]
                           /\ \/ app.store = "closed" /\ app.client # "open"
                              \/ app.client = "failed"
    BY <1>4, Stopped
  <2> QED
    BY <2>1, AppReplaced DEF ClosedAtShutdown
<1>5. CASE UNCHANGED apps
  BY <1>5 DEF ClosedAtShutdown
<1> QED
  BY <1>1, <1>2, <1>3, <1>4, <1>5
     DEF Next, vars, ChangeEnv, CreateAppRaises, BeginCard, BeginSql, Answer

\* However many applications come and go, one that was shut down has its store
\* closed unless closing its client raised.
THEOREM StoresAreClosed == Spec => []ClosedAtShutdown
<1>1. Init => ClosedAtShutdown
  BY DEF Init, ClosedAtShutdown
<1> QED
  BY <1>1, ClosedStep, TypeCorrect, PTL DEF Spec
-----------------------------------------------------------------------------
(***************************************************************************)
(* The table of keys.  parse_api_key_config() goes through the parts from  *)
(* the first to the last: after i of them, the table has the last          *)
(* well-formed entry of every key among those i.                           *)
(***************************************************************************)
Joins(f, raw, i) ==
    \A j \in 1..i : f[j] = IF j = 1 THEN raw[j] ELSE f[j - 1] \o raw[j]

LEMMA JoinsExist ==
    ASSUME NEW E, NEW raw \in Seq(Seq(E))
    PROVE  \E f \in [1..Len(raw) -> Seq(E)] : Joins(f, raw, Len(raw))
<1> DEFINE n == Len(raw)
           T == {i \in 0..n : \E f \in [1..i -> Seq(E)] : Joins(f, raw, i)}
<1>0. n \in Nat /\ \A i \in 1..n : raw[i] \in Seq(E)
  OBVIOUS
<1>1. 0 \in T
  <2>1. [i \in 1..0 |-> << >>] \in [1..0 -> Seq(E)] /\ 1..0 = {} /\ 0 \in 0..n
    BY <1>0
  <2> QED
    BY <2>1 DEF Joins
<1>2. ASSUME NEW i \in 1..n, i - 1 \in T PROVE i \in T
  <2>1. PICK f \in [1..(i - 1) -> Seq(E)] : Joins(f, raw, i - 1)
    BY <1>2
  <2> DEFINE new == IF i = 1 THEN raw[i] ELSE f[i - 1] \o raw[i]
             g == [j \in 1..i |-> IF j = i THEN new ELSE f[j]]
  <2>2. new \in Seq(E)
    <3>1. CASE i = 1
      BY <1>0, <3>1
    <3>2. CASE i # 1
      <4>1. f[i - 1] \in Seq(E)
        BY <3>2
      <4> QED
        BY <1>0, <3>2, <4>1
    <3> QED
      BY <3>1, <3>2
  <2>3. \A j \in 1..i : j # i => j \in 1..(i - 1)
    OBVIOUS
  <2>4. g \in [1..i -> Seq(E)]
    <3> HIDE DEF new
    <3> QED
      BY <2>2, <2>3
  <2>5. ASSUME NEW j \in 1..i
        PROVE  g[j] = IF j = 1 THEN raw[j] ELSE g[j - 1] \o raw[j]
    <3>1. j # 1 => j - 1 \in 1..i /\ j - 1 # i
      OBVIOUS
    <3>2. CASE j = i
      BY <3>1, <3>2
    <3>3. CASE j # i
      <4>1. f[j] = IF j = 1 THEN raw[j] ELSE f[j - 1] \o raw[j]
        BY <2>1, <2>3, <3>3 DEF Joins
      <4> HIDE DEF new
      <4> QED
        BY <3>1, <3>3, <4>1
    <3> QED
      BY <3>2, <3>3
  <2>6. Joins(g, raw, i)
    BY <2>5 DEF Joins
  <2> HIDE DEF g
  <2> QED
    BY <2>4, <2>6
<1>3. n \in T
  <2>1. n \in Nat
    BY <1>0
  <2> HIDE DEF T, n
  <2>2. \A i \in 1..n : i - 1 \in T => i \in T
    BY <1>2
  <2>3. \A i \in 0..n : i \in T
    BY <2>1, <2>2, <1>1, PrefixInduction
  <2> QED
    BY <2>1, <2>3
<1> QED
  BY <1>3

\* The parts of the lines are a sequence of parts.
LEMMA PartsAreASequence ==
    ASSUME NEW E, NEW raw \in Seq(Seq(E))
    PROVE  Parts(raw) \in Seq(E)
<1> DEFINE n == Len(raw)
           Eq(f) == [i \in 1..n |-> IF i = 1 THEN raw[i] ELSE f[i - 1] \o raw[i]]
           c == CHOOSE f : f = Eq(f)
           T == {i \in 0..n : i # 0 => c[i] \in Seq(E)}
<1>0. n \in Nat /\ \A i \in 1..n : raw[i] \in Seq(E)
  OBVIOUS
<1>1. PICK f \in [1..n -> Seq(E)] : Joins(f, raw, n)
  BY JoinsExist
<1>2. f = Eq(f)
  BY <1>1 DEF Joins
<1>3. c = Eq(c)
  <2> HIDE DEF Eq
  <2> QED
    BY <1>2
<1>4. \A i \in 1..n : c[i] = IF i = 1 THEN raw[i] ELSE c[i - 1] \o raw[i]
  <2> HIDE DEF c
  <2> QED
    BY <1>3
<1> HIDE DEF c
<1>5. 0 \in T
  BY <1>0
<1>6. ASSUME NEW i \in 1..n, i - 1 \in T PROVE i \in T
  <2>1. CASE i = 1
    BY <1>0, <1>4, <2>1
  <2>2. CASE i # 1
    <3>1. i - 1 # 0 /\ i \in 0..n
      BY <1>0, <2>2
    <3>2. c[i - 1] \in Seq(E)
      BY <1>6, <3>1
    <3>3. c[i] = c[i - 1] \o raw[i] /\ raw[i] \in Seq(E)
      BY <1>0, <1>4, <2>2
    <3>4. \A s, t \in Seq(E) : s \o t \in Seq(E)
      BY ConcatProperties
    <3>5. c[i] \in Seq(E)
      BY <3>2, <3>3, <3>4
    <3> QED
      BY <3>1, <3>5
  <2> QED
    BY <2>1, <2>2
<1>7. n \in T
  <2>1. n \in Nat
    BY <1>0
  <2> HIDE DEF T, n
  <2>2. \A i \in 1..n : i - 1 \in T => i \in T
    BY <1>6
  <2>3. \A i \in 0..n : i \in T
    BY <2>1, <2>2, <1>5, PrefixInduction
  <2> QED
    BY <2>1, <2>3
<1>8. CASE n = 0
  <2>1. raw = << >>
    BY <1>8
  <2> QED
    BY <1>8, <2>1 DEF Parts, FlattenSeq
<1>9. CASE n # 0
  <2>1. Parts(raw) = c[n]
    BY <1>9 DEF Parts, FlattenSeq, c
  <2> QED
    BY <1>7, <1>9, <2>1
<1> QED
  BY <1>8, <1>9

\* The folds of parse_api_key_config(), as steps from place to place.
IsParts(parts, n, K, A) ==
    /\ n \in Nat /\ DOMAIN parts = 1..n
    /\ \A i \in 1..n : IsWellFormed(parts[i]) =>
          parts[i].key \in K /\ Identity(parts[i]) \in A

Adds(parts, n, V) == [p \in (1..n) \X V |-> AddEntry(p[2], parts[p[1]])]

LEMMA ParseSteps ==
    ASSUME NEW parts, NEW n, NEW K, NEW A, IsParts(parts, n, K, A), NEW V, V = Tables(K, A)
    PROVE  Steps(n, V, << >>, Adds(parts, n, V))
<1>1. ASSUME NEW i \in 1..n, NEW table \in V PROVE AddEntry(table, parts[i]) \in V
  <2>1. CASE ~IsWellFormed(parts[i])
    BY <2>1 DEF AddEntry
  <2>2. CASE IsWellFormed(parts[i])
    <3>1. parts[i].key \in K /\ Identity(parts[i]) \in A
      BY <2>2 DEF IsParts
    <3>2. Puts(AddEntry(table, parts[i]), table, parts[i].key, Identity(parts[i]))
      BY <2>2 DEF AddEntry, Put, Puts
    <3>3. AddEntry(table, parts[i]) \in Tables(K, A)
      BY <3>1, <3>2, TablePut
    <3> QED
      BY <3>3
  <2> QED
    BY <2>1, <2>2
<1>2. Adds(parts, n, V) \in [(1..n) \X V -> V]
  BY <1>1 DEF Adds
<1>3. << >> \in V
  BY EmptyTable
<1>4. n \in Nat
  BY DEF IsParts
<1> QED
  BY <1>2, <1>3, <1>4 DEF Steps

LEMMA ParsePrefixes ==
    ASSUME NEW parts, NEW n, NEW K, NEW A, IsParts(parts, n, K, A), NEW V, V = Tables(K, A)
    PROVE  \E h : /\ FoldPrefixes(h, n, V, << >>, Adds(parts, n, V))
                  /\ h[n] = FoldLeft(AddEntry, << >>, parts)
<1> DEFINE S == 1..n
           pick == LastPlaces(n)
           step == Adds(parts, n, V)
           Eq(h) == [s \in SUBSET S |->
                       IF s = {} THEN << >> ELSE AddEntry(h[s \ {Max(s)}], parts[Max(s)])]
           c == CHOOSE h : h = Eq(h)
<1>0. n \in Nat /\ DOMAIN parts = 1..n
  BY DEF IsParts
<1>1. Steps(n, V, << >>, step)
  BY ParseSteps
<1>2. PICK g : Folds(g, S, V, << >>, pick, step)
  <2>1. Foldable(S, V, << >>, pick, step)
    BY <1>1, StepsFold
  <2> HIDE DEF S, pick, step
  <2> QED
    BY <2>1, FoldExists
<1>3. ASSUME NEW s \in SUBSET S, s # {}, NEW h, h[s \ {pick[s]}] \in V
      PROVE  step[<<pick[s], h[s \ {pick[s]}]>>] = AddEntry(h[s \ {Max(s)}], parts[Max(s)])
  <2>1. pick[s] = Max(s) /\ pick[s] \in S
    BY <1>0, <1>3, PlacesHaveMax DEF LastPlaces
  <2>2. <<pick[s], h[s \ {pick[s]}]>> \in S \X V
    BY <1>3, <2>1
  <2> HIDE DEF pick
  <2> QED
    BY <2>1, <2>2 DEF Adds
<1>4. g = Eq(g)
  <2>1. g \in [SUBSET S -> V]
    BY <1>2 DEF Folds
  <2>2. \A s \in SUBSET S : g[s \ {pick[s]}] \in V
    BY <2>1
  <2>3. \A s \in SUBSET S :
            g[s] = IF s = {} THEN << >> ELSE step[<<pick[s], g[s \ {pick[s]}]>>]
    BY <1>2 DEF Folds
  <2> HIDE DEF step, pick, S
  <2> QED
    BY <1>3, <2>1, <2>2, <2>3
<1>5. c = Eq(c)
  <2> HIDE DEF Eq
  <2> QED
    BY <1>4
<1>6. Follows(c, S, V, << >>, pick, step)
  <2> HIDE DEF c, S
  <2>1. c[{}] = << >>
    BY <1>5
  <2>2. \A s \in SUBSET S : s # {} => c[s] = AddEntry(c[s \ {Max(s)}], parts[Max(s)])
    BY <1>5
  <2> HIDE DEF step, pick
  <2>3. ASSUME NEW s \in SUBSET S, s # {}, c[s \ {pick[s]}] \in V
        PROVE  c[s] = step[<<pick[s], c[s \ {pick[s]}]>>]
    BY <1>3, <2>2, <2>3
  <2> QED
    BY <2>1, <2>3 DEF Follows
<1>7. \E h : FoldPrefixes(h, n, V, << >>, step) /\ h[n] = c[1..n]
  <2> HIDE DEF c, step
  <2> QED
    BY <1>1, <1>2, <1>6, FoldHasPrefixes
<1>8. FoldLeft(AddEntry, << >>, parts) = c[S]
  BY <1>0 DEF FoldLeft, MapThenFoldSet
<1> HIDE DEF c
<1> QED
  BY <1>7, <1>8

\* After i parts the table holds the last entry of each key.
IsLastEntry(parts, i, j) ==
    /\ IsWellFormed(parts[j])
    /\ \A m \in 1..i : m > j /\ IsWellFormed(parts[m]) => parts[m].key # parts[j].key

KeysUpTo(parts, i) == {parts[j].key : j \in {m \in 1..i : IsWellFormed(parts[m])}}

Identities(parts) == {Identity(parts[i]) : i \in DOMAIN parts}

HasLastEntries(table, parts, i) ==
    /\ DOMAIN table = KeysUpTo(parts, i)
    /\ \A j \in 1..i : IsLastEntry(parts, i, j) => table[parts[j].key] = Identity(parts[j])

LEMMA LastEntriesContinue ==
    ASSUME NEW n \in Nat, NEW i \in 1..n, NEW parts, NEW table,
           HasLastEntries(table, parts, i - 1)
    PROVE  HasLastEntries(AddEntry(table, parts[i]), parts, i)
<1> DEFINE new == AddEntry(table, parts[i])
           id == Identity(parts[i])
<1>1. 1..i = (1..(i - 1)) \union {i} /\ \A j \in 1..(i - 1) : i > j
  OBVIOUS
<1>2. /\ DOMAIN table = KeysUpTo(parts, i - 1)
      /\ \A j \in 1..(i - 1) : IsLastEntry(parts, i - 1, j) => table[parts[j].key] = Identity(parts[j])
  BY DEF HasLastEntries
<1>3. ASSUME NEW j \in 1..(i - 1), IsLastEntry(parts, i, j)
      PROVE  /\ IsLastEntry(parts, i - 1, j)
             /\ IsWellFormed(parts[i]) => parts[i].key # parts[j].key
             /\ parts[j].key \in DOMAIN table
  <2> HIDE DEF new, id
  <2> QED
    BY <1>1, <1>2, <1>3 DEF IsLastEntry, KeysUpTo
<1>4. CASE ~IsWellFormed(parts[i])
  <2>1. new = table /\ KeysUpTo(parts, i) = KeysUpTo(parts, i - 1)
    BY <1>1, <1>4 DEF AddEntry, KeysUpTo
  <2>2. \A j \in 1..i : IsLastEntry(parts, i, j) => j \in 1..(i - 1)
    BY <1>1, <1>4 DEF IsLastEntry
  <2> HIDE DEF new
  <2>3. HasLastEntries(new, parts, i)
    BY <1>2, <1>3, <2>1, <2>2 DEF HasLastEntries
  <2> QED
    BY <2>3 DEF new
<1>5. CASE IsWellFormed(parts[i])
  <2>1. /\ DOMAIN new = DOMAIN table \union {parts[i].key}
        /\ new[parts[i].key] = id
        /\ \A k \in DOMAIN table : k # parts[i].key => new[k] = table[k]
    <3> HIDE DEF id
    <3>1. new = Put(table, parts[i].key, id)
      BY <1>5 DEF AddEntry, id
    <3> HIDE DEF new
    <3> QED
      BY <3>1 DEF Put
  <2>2. KeysUpTo(parts, i) = KeysUpTo(parts, i - 1) \union {parts[i].key}
    BY <1>1, <1>5 DEF KeysUpTo
  <2> HIDE DEF new
  <2>3. ASSUME NEW j \in 1..i, IsLastEntry(parts, i, j)
        PROVE  new[parts[j].key] = Identity(parts[j])
    <3>1. CASE j = i
      BY <2>1, <3>1
    <3>2. CASE j # i
      <4>1. j \in 1..(i - 1)
        BY <3>2
      <4> QED
        BY <1>2, <1>3, <1>5, <2>1, <2>3, <4>1
    <3> QED
      BY <3>1, <3>2
  <2>4. HasLastEntries(new, parts, i)
    BY <1>2, <2>1, <2>2, <2>3 DEF HasLastEntries
  <2> QED
    BY <2>4 DEF new
<1> QED
  BY <1>4, <1>5

LEMMA FoldHasLastEntries ==
    ASSUME NEW parts, NEW n \in Nat, DOMAIN parts = 1..n
    PROVE  /\ HasLastEntries(FoldLeft(AddEntry, << >>, parts), parts, n)
           /\ FoldLeft(AddEntry, << >>, parts) \in Tables(KeysUpTo(parts, n), Identities(parts))
<1> DEFINE K == KeysUpTo(parts, n)
           A == Identities(parts)
           V == Tables(K, A)
           step == Adds(parts, n, V)
           table == FoldLeft(AddEntry, << >>, parts)
<1>1. PICK h : FoldPrefixes(h, n, V, << >>, step) /\ h[n] = table
  <2>1. IsParts(parts, n, K, A)
    <3>1. \A i \in 1..n : IsWellFormed(parts[i]) => parts[i].key \in K /\ Identity(parts[i]) \in A
      BY DEF KeysUpTo, Identities
    <3> HIDE DEF K, A
    <3> QED
      BY <3>1 DEF IsParts
  <2>2. V = Tables(K, A)
    OBVIOUS
  <2> HIDE DEF V, K, A
  <2> QED
    BY <2>1, <2>2, ParsePrefixes
<1> HIDE DEF V, table
<1> DEFINE T == {i \in 0..n : HasLastEntries(h[i], parts, i)}
<1>2. 0 \in T
  <2>1. h[0] = << >> /\ 0 \in 0..n /\ 1..0 = {}
    BY <1>1 DEF FoldPrefixes
  <2>2. HasLastEntries(<< >>, parts, 0)
    BY <2>1 DEF HasLastEntries, KeysUpTo
  <2> QED
    BY <2>1, <2>2
<1>3. ASSUME NEW i \in 1..n, i - 1 \in T PROVE i \in T
  <2>1. h[i] = step[<<i, h[i - 1]>>] /\ h[i - 1] \in V /\ i \in 0..n
    BY <1>1, <1>3 DEF FoldPrefixes
  <2>2. h[i] = AddEntry(h[i - 1], parts[i])
    BY <2>1 DEF Adds
  <2>3. HasLastEntries(h[i - 1], parts, i - 1)
    BY <1>3
  <2>4. HasLastEntries(AddEntry(h[i - 1], parts[i]), parts, i)
    BY <2>3, LastEntriesContinue
  <2> QED
    BY <2>1, <2>2, <2>4
<1>4. n \in T
  <2> HIDE DEF T
  <2> QED
    BY <1>2, <1>3, PrefixInduction
<1>5. h[n] \in V
  BY <1>1 DEF FoldPrefixes
<1>6. HasLastEntries(table, parts, n) /\ table \in Tables(K, A)
  BY <1>1, <1>4, <1>5 DEF V
<1> QED
  BY <1>6 DEF table

\* Folding the parts gives what an operator reads in them.
LEMMA ParsedIsLast ==
    ASSUME NEW E, NEW raw \in Seq(Seq(E))
    PROVE  ParseApiKeyConfig(raw) = [key \in KeysOf(raw) |-> Identity(LastEntry(raw, key))]
<1> DEFINE parts == Parts(raw)
           n == Len(parts)
           table == FoldLeft(AddEntry, << >>, parts)
           Mine(key) == {i \in DOMAIN parts : IsWellFormed(parts[i]) /\ parts[i].key = key}
<1>1. n \in Nat /\ DOMAIN parts = 1..n
  <2>1. parts \in Seq(E)
    BY PartsAreASequence
  <2> QED
    BY <2>1, LenProperties
<1>2. HasLastEntries(table, parts, n) /\ table \in Tables(KeysUpTo(parts, n), Identities(parts))
  <2> HIDE DEF parts, n
  <2> QED
    BY <1>1, FoldHasLastEntries
<1>3. DOMAIN table = KeysOf(raw)
  <2> HIDE DEF table, n
  <2> QED
    BY <1>1, <1>2 DEF HasLastEntries, KeysUpTo, KeysOf
<1>4. ASSUME NEW key \in KeysOf(raw) PROVE table[key] = Identity(LastEntry(raw, key))
  <2> DEFINE last == CHOOSE i \in Mine(key) : \A j \in Mine(key) : j <= i
  <2> HIDE DEF table, n
  <2>1. Mine(key) \in SUBSET (1..n) /\ Mine(key) # {}
    BY <1>1 DEF KeysOf
  <2>2. last \in Mine(key) /\ \A j \in Mine(key) : j <= last
    <3>1. \E i \in Mine(key) : \A j \in Mine(key) : j <= i
      <4> HIDE DEF Mine
      <4> QED
        BY <1>1, <2>1, PlacesHaveMax
    <3> HIDE DEF Mine
    <3> QED
      BY <3>1
  <2>3. LastEntry(raw, key) = parts[last]
    BY DEF LastEntry
  <2> HIDE DEF last, parts
  <2>4. last \in 1..n /\ parts[last].key = key /\ IsLastEntry(parts, n, last)
    BY <1>1, <2>1, <2>2 DEF IsLastEntry
  <2>5. table[parts[last].key] = Identity(parts[last])
    BY <1>2, <2>4 DEF HasLastEntries
  <2> QED
    BY <2>3, <2>4, <2>5
<1>5. ParseApiKeyConfig(raw) = table
  BY DEF ParseApiKeyConfig
<1>6. table = [key \in DOMAIN table |-> table[key]]
  <2> HIDE DEF table, parts, n
  <2>1. table \in [DOMAIN table -> Identities(parts)]
    BY <1>2, TableType
  <2> QED
    BY <2>1
<1> HIDE DEF table, parts
<1> QED
  BY <1>3, <1>4, <1>5, <1>6

-----------------------------------------------------------------------------
(***************************************************************************)
(* The keys of an application are those of its own settings.               *)
(***************************************************************************)
KeysAreParsed ==
    \A a \in DOMAIN apps : apps[a].keys = ParseApiKeyConfig(apps[a].settings.connector_api_keys)

\* An application that stays keeps its settings and its keys.
KeepsKeys(old, new) == new.settings = old.settings /\ new.keys = old.keys

LEMMA KeysKept ==
    ASSUME TypeOK, [Next]_vars, NEW b \in DOMAIN apps
    PROVE  b \in DOMAIN apps' /\ KeepsKeys(apps[b], apps'[b])
<1> USE DEF KeepsKeys
<1>1. apps[b] \in App
  BY Places
<1>2. CASE ClearCache
  BY <1>1, <1>2, NoneIsCurrent DEF App, ClearCache
<1>3. ASSUME NEW given \in Settings \union {None}, CreateApp(given)
      PROVE  b \in DOMAIN apps' /\ apps'[b] = apps[b]
  BY <1>3, NewAppAppended
<1>4. ASSUME NEW a \in DOMAIN apps, StartApp(a)
      PROVE  b \in DOMAIN apps' /\ KeepsKeys(apps[b], apps'[b])
  BY <1>1, <1>4, Places DEF StartApp, App
<1>5. ASSUME NEW a \in DOMAIN apps, StopApp(a)
      PROVE  b \in DOMAIN apps' /\ KeepsKeys(apps[b], apps'[b])
  <2>1. PICK app \in App : /\ apps' = [apps EXCEPT ![a] = app]
                           /\ KeepsKeys(apps[a], app)
    BY <1>5, Stopped
  <2> QED
    BY <2>1, AppReplaced
<1>6. CASE UNCHANGED apps
  BY <1>6
<1> QED
  BY <1>2, <1>3, <1>4, <1>5, <1>6
     DEF Next, vars, ChangeEnv, CreateAppRaises, BeginCard, BeginSql, Answer

LEMMA KeysStep == TypeOK /\ KeysAreParsed /\ [Next]_vars => KeysAreParsed'
<1> SUFFICES ASSUME TypeOK, KeysAreParsed, [Next]_vars, NEW b \in DOMAIN apps'
             PROVE  apps'[b].keys = ParseApiKeyConfig(apps'[b].settings.connector_api_keys)
  BY DEF KeysAreParsed, ParseApiKeyConfig, Parts
<1>1. CASE b \in DOMAIN apps
  <2>1. KeepsKeys(apps[b], apps'[b])
    BY <1>1, KeysKept
  <2> QED
    BY <1>1, <2>1 DEF KeysAreParsed, KeepsKeys
<1>2. CASE b \notin DOMAIN apps
  <2>1. PICK given \in Settings \union {None} : CreateApp(given)
    BY <1>2, AppsKept
  <2>2. apps'[b] = NewApp(given)
    BY <1>2, <2>1, NewAppAppended
  <2> QED
    BY <2>2 DEF NewApp
<1> QED
  BY <1>1, <1>2

\* Every application accepts the keys that have a well-formed entry in its own
\* settings, each as the last of its entries says, whatever the text, whatever
\* other applications are made and however often the settings are reloaded.
THEOREM KeysAlwaysTheLastEntries == Spec => []KeysAreTheLastEntries
<1>1. Init => KeysAreParsed
  BY DEF Init, KeysAreParsed
<1>2. TypeOK /\ KeysAreParsed => KeysAreTheLastEntries
  <2> SUFFICES ASSUME TypeOK, KeysAreParsed, NEW a \in DOMAIN apps,
                      NEW raw, raw = apps[a].settings.connector_api_keys
               PROVE  apps[a].keys = [key \in KeysOf(raw) |-> Identity(LastEntry(raw, key))]
    BY DEF KeysAreTheLastEntries
  <2>1. apps[a].settings \in Settings
    BY Places DEF App
  <2>2. raw \in Seq(Seq(PartsIn(raw)))
    BY <2>1, TextsAssumption DEF IsText
  <2>3. ParseApiKeyConfig(raw) = [key \in KeysOf(raw) |-> Identity(LastEntry(raw, key))]
    BY <2>2, ParsedIsLast
  <2>4. apps[a].keys = ParseApiKeyConfig(raw)
    BY DEF KeysAreParsed
  <2> QED
    BY <2>3, <2>4
<1> QED
  BY <1>1, <1>2, KeysStep, TypeCorrect, PTL DEF Spec
=============================================================================
