---------------------------- MODULE MCAuditStores ---------------------------
(***************************************************************************)
(* Both stores in one instance: build_store() chooses `backend` once, and  *)
(* each is asked the queries it keeps its promise for.                     *)
(***************************************************************************)
EXTENDS MCAuditStore

VARIABLE backend

SqliteQueries == Paged(UtcQueries)
MemoryQueries == Paged(NaiveQueries)
EitherQueries == SqliteQueries \union MemoryQueries

Sqlite == INSTANCE AuditStore WITH Backend <- "sqlite", Queries <- SqliteQueries
Memory == INSTANCE AuditStore WITH Backend <- "memory", Queries <- MemoryQueries

EitherInit == Init /\ backend \in {"memory", "sqlite"}

EitherNext ==
    /\ \/ backend = "sqlite" /\ Sqlite!Next
       \/ backend = "memory" /\ Memory!Next
    /\ UNCHANGED backend

EitherSpec == EitherInit /\ [][EitherNext]_<<store, backend>>
=============================================================================
