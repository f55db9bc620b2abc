--------------------------- MODULE SecretProvider ---------------------------
(***************************************************************************)
(* EnvVarSecretProvider, called from several threads, for one name: get()  *)
(* looks into the cache under the lock, reads the environment without it,  *)
(* and writes the cache under the lock again; invalidate() drops the entry *)
(* under the lock.  Meanwhile the secret is rotated in the environment.    *)
(***************************************************************************)
CONSTANTS
    Threads,
    Values,         \* what the environment may hold
    Empty,          \* "", which get() takes for a variable that is not set
    None            \* no entry in the cache

ASSUME ValuesAssumption == Empty \in Values /\ None \notin Values

VARIABLES
    environ,        \* the variable's value
    cache,          \* _cache.get(name)
    pc,             \* where each thread is in get()
    value,          \* the local variable of each thread's get()
    returned,       \* what each thread's last get() returned
    since,          \* history: what environ held since the last invalidate()
    current,        \* history: what it held since the last one before each get()
    overlapped      \* history: whether a get() was under way at the last one

locals  == <<pc, value, returned>>
history == <<since, current, overlapped>>
vars    == <<environ, cache, locals, history>>

Init ==
    /\ environ \in Values
    /\ cache = None
    /\ pc = [t \in Threads |-> "idle"]
    /\ value = [t \in Threads |-> None]
    /\ returned = [t \in Threads |-> None]
    /\ since = {environ}
    /\ current = [t \in Threads |-> {}]
    /\ overlapped = FALSE

-----------------------------------------------------------------------------
GetStarts(t) ==
    /\ pc[t] = "idle"
    /\ current' = [current EXCEPT ![t] = since]
    /\ UNCHANGED <<environ, cache, value, since, overlapped>>

\* An empty string is an entry like any other.
GetFindsCached(t) ==
    /\ cache # None
    /\ GetStarts(t)
    /\ returned' = [returned EXCEPT ![t] = cache]
    /\ UNCHANGED pc

GetMisses(t) ==
    /\ cache = None
    /\ GetStarts(t)
    /\ pc' = [pc EXCEPT ![t] = "environ"]
    /\ UNCHANGED returned

\* Faulty variant: environ.get() without its default.
ReadsEnvironWithoutDefault(t) ==
    /\ pc[t] = "environ"
    /\ pc' = [pc EXCEPT ![t] = "store"]
    /\ value' = [value EXCEPT ![t] = IF environ = Empty THEN None ELSE environ]
    /\ UNCHANGED <<environ, cache, returned, history>>

ReadsEnviron(t) ==
    /\ pc[t] = "environ"
    /\ pc' = [pc EXCEPT ![t] = "store"]
    /\ value' = [value EXCEPT ![t] = environ]
    /\ UNCHANGED <<environ, cache, returned, history>>

StoresValue(t) ==
    /\ pc[t] = "store"
    /\ cache' = value[t]
    /\ returned' = [returned EXCEPT ![t] = value[t]]
    /\ pc' = [pc EXCEPT ![t] = "idle"]
    /\ UNCHANGED <<environ, value, history>>

\* Faulty variant: the entry stays when it is empty.
InvalidateIfSet ==
    /\ cache' = IF cache = Empty THEN cache ELSE None
    /\ since' = {environ}
    /\ overlapped' = \E t \in Threads : pc[t] # "idle"
    /\ UNCHANGED <<environ, locals, current>>

Invalidate ==
    /\ cache' = None
    /\ since' = {environ}
    /\ overlapped' = \E t \in Threads : pc[t] # "idle"
    /\ UNCHANGED <<environ, locals, current>>

\* The secret is rotated, set or removed.
Rotate ==
    /\ environ' \in Values \ {environ}
    /\ since' = since \union {environ'}
    /\ current' = [t \in Threads |-> current[t] \union {environ'}]
    /\ UNCHANGED <<cache, locals, overlapped>>

Next ==
    \/ \E t \in Threads : \/ GetFindsCached(t) \/ GetMisses(t)
                          \/ ReadsEnviron(t) \/ StoresValue(t)
    \/ Invalidate
    \/ Rotate

Spec == Init /\ [][Next]_vars

-----------------------------------------------------------------------------
(***************************************************************************)
(* Properties.                                                             *)
(***************************************************************************)
\* Type invariant: get() only ever returns a string.
TypeOK ==
    /\ environ \in Values
    /\ cache \in Values \union {None}
    /\ pc \in [Threads -> {"idle", "environ", "store"}]
    /\ value \in [Threads -> Values \union {None}]
    /\ \A t \in Threads : pc[t] = "store" => value[t] \in Values
    /\ returned \in [Threads -> Values \union {None}]
    /\ since \subseteq Values
    /\ current \in [Threads -> SUBSET Values]
    /\ overlapped \in BOOLEAN

Returns(t) == GetFindsCached(t) \/ StoresValue(t)

\* After invalidate(), get() returns nothing the environment held only before
\* it (provider.py:14, "Rotation: invalidate via .invalidate(name)").
RotationTakesEffect ==
    [][\A t \in Threads : Returns(t) => returned'[t] \in current'[t]]_vars

\* A get() that started after invalidate() returned an older value only if
\* another get() was under way during the invalidate(): it alone can put a
\* value back that was dropped (provider.py:47-58).
StaleOnlyAfterOverlap ==
    [][\A t \in Threads :
           Returns(t) => returned'[t] \in current'[t] \/ overlapped']_vars

\* Why: without an overlap, what is cached and what a get() holds is no older
\* than the last invalidate().
CacheIsCurrent ==
    ~overlapped =>
        /\ cache \in since \union {None}
        /\ environ \in since
        /\ \A t \in Threads :
               /\ pc[t] # "idle" => current[t] = since
               /\ pc[t] = "store" => value[t] \in since
=============================================================================
