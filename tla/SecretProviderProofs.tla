------------------------ MODULE SecretProviderProofs ------------------------
(***************************************************************************)
(* Theorems about SecretProvider, for any number of threads and any values *)
(* of the secret.                                                          *)
(***************************************************************************)
EXTENDS SecretProvider, TLAPS

USE DEF vars, locals, history

\* The cache, the environment and each get() in progress keep their types: a
\* get() never returns anything but a string (provider.py:44-58).
THEOREM TypeCorrect == Spec => []TypeOK
<1>1. Init => TypeOK
  BY ValuesAssumption DEF Init, TypeOK
<1>2. TypeOK /\ [Next]_vars => TypeOK'
  <2> SUFFICES ASSUME TypeOK, [Next]_vars PROVE TypeOK'
    OBVIOUS
  <2> USE ValuesAssumption DEF TypeOK
  <2>1. ASSUME NEW t \in Threads, GetFindsCached(t) PROVE TypeOK'
    BY <2>1 DEF GetFindsCached, GetStarts
  <2>2. ASSUME NEW t \in Threads, GetMisses(t) PROVE TypeOK'
    BY <2>2 DEF GetMisses, GetStarts
  <2>3. ASSUME NEW t \in Threads, ReadsEnviron(t) PROVE TypeOK'
    BY <2>3 DEF ReadsEnviron
  <2>4. ASSUME NEW t \in Threads, StoresValue(t) PROVE TypeOK'
    BY <2>4 DEF StoresValue
  <2>5. CASE Invalidate
    BY <2>5 DEF Invalidate
  <2>6. CASE Rotate
    <3>1. environ' \in Values /\ since' \subseteq Values
      BY <2>6 DEF Rotate
    <3>2. current' \in [Threads -> SUBSET Values]
      BY <2>6, <3>1 DEF Rotate
    <3> QED
      BY <2>6, <3>1, <3>2 DEF Rotate
  <2>7. CASE UNCHANGED vars
    BY <2>7
  <2> QED
    BY <2>1, <2>2, <2>3, <2>4, <2>5, <2>6, <2>7 DEF Next
<1> QED
  BY <1>1, <1>2, PTL DEF Spec

\* While no get() overlapped the last invalidate(), neither the cache nor any
\* get() holds a value older than it (provider.py:44-58).  Types are needed for
\* the updates of `pc`, `value` and `current` to be read back.
THEOREM CacheAlwaysCurrent == Spec => []CacheIsCurrent
<1>1. Init => CacheIsCurrent
  BY DEF Init, CacheIsCurrent
<1>2. TypeOK /\ CacheIsCurrent /\ [Next]_vars => CacheIsCurrent'
  <2> SUFFICES ASSUME TypeOK, CacheIsCurrent, [Next]_vars, ~overlapped'
               PROVE  CacheIsCurrent'
    BY DEF CacheIsCurrent
  <2> USE DEF TypeOK, CacheIsCurrent
  <2>1. ASSUME NEW t \in Threads, GetFindsCached(t) PROVE CacheIsCurrent'
    BY <2>1 DEF GetFindsCached, GetStarts
  <2>2. ASSUME NEW t \in Threads, GetMisses(t) PROVE CacheIsCurrent'
    BY <2>2 DEF GetMisses, GetStarts
  <2>3. ASSUME NEW t \in Threads, ReadsEnviron(t) PROVE CacheIsCurrent'
    BY <2>3 DEF ReadsEnviron
  <2>4. ASSUME NEW t \in Threads, StoresValue(t) PROVE CacheIsCurrent'
    BY <2>4 DEF StoresValue
  <2>5. CASE Invalidate
    <3>1. \A t \in Threads : pc[t] = "idle"
      BY <2>5 DEF Invalidate
    <3> QED
      BY <2>5, <3>1 DEF Invalidate
  <2>6. CASE Rotate
    <3>1. \A t \in Threads : pc'[t] # "idle" => current'[t] = since'
      BY <2>6 DEF Rotate
    <3> QED
      BY <2>6, <3>1 DEF Rotate
  <2>7. CASE UNCHANGED vars
    BY <2>7
  <2> QED
    BY <2>1, <2>2, <2>3, <2>4, <2>5, <2>6, <2>7 DEF Next
<1> QED
  BY <1>1, <1>2, TypeCorrect, PTL DEF Spec

\* A get() returns a value older than the last invalidate() before it only if
\* another get() was under way at that invalidate() (provider.py:47-58).
THEOREM StaleAlwaysOverlapped == Spec => StaleOnlyAfterOverlap
<1>1. ASSUME TypeOK, CacheIsCurrent, [Next]_vars
      PROVE  [\A t \in Threads :
                Returns(t) => returned'[t] \in current'[t] \/ overlapped']_vars
  <2> SUFFICES ASSUME NEW t \in Threads, Returns(t), ~overlapped'
               PROVE  returned'[t] \in current'[t]
    OBVIOUS
  <2> USE DEF TypeOK, CacheIsCurrent
  <2>1. CASE GetFindsCached(t)
    BY <1>1, <2>1 DEF GetFindsCached, GetStarts
  <2>2. CASE StoresValue(t)
    BY <1>1, <2>2 DEF StoresValue
  <2> QED
    BY <2>1, <2>2 DEF Returns
<1> QED
  BY <1>1, TypeCorrect, CacheAlwaysCurrent, PTL DEF Spec, StaleOnlyAfterOverlap
=============================================================================
