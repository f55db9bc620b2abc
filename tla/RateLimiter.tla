---------------------------- MODULE RateLimiter ----------------------------
(***************************************************************************)
(* RateLimitMiddleware and the fixed-window storage it hits, with a clock. *)
(* The window of a bucket opens at its first hit and not at a multiple of  *)
(* the window's length, denied hits are counted like admitted ones but do  *)
(* not move the window's end.  A hit is one step: dispatch() does not      *)
(* await between storage.hit() and its decision.                           *)
(*                                                                         *)
(* Calls the middleware lets pass without a hit (path not under /rpc/, no  *)
(* consumer, no limit for the path) change nothing here; RequestPipeline   *)
(* models them.                                                            *)
(***************************************************************************)
EXTENDS ConnectorConfig, Sequences

CONSTANTS
    Window,     \* length of a window, in ticks of the clock
    MaxTime,    \* bound: the clock stops here
    MaxHits     \* bound: hits counted in one window

ASSUME WindowAssumption == Window \in Nat \ {0}
ASSUME BoundsAssumption == MaxTime \in Nat /\ MaxHits \in Nat

VARIABLES
    now,          \* time.time()
    storage,      \* hits counted for each bucket
    expirations,  \* when each bucket's count is dropped, 0 before any hit
    admitted,     \* history: the time of every hit a bucket let pass
    openings      \* history: the places of admitted that opened a window

vars == <<now, storage, expirations, admitted, openings>>

Init ==
    /\ now = 0
    /\ storage = [b \in Buckets |-> 0]
    /\ expirations = [b \in Buckets |-> 0]
    /\ admitted = [b \in Buckets |-> <<>>]
    /\ openings = [b \in Buckets |-> {}]

\* The count a hit finds: the storage drops an expired one first.
HitsIn(b) == IF expirations[b] > now THEN storage[b] ELSE 0

\* _consumer_key() and the path: callers that share a consumer id share a
\* bucket, whichever key they present.
BucketOf(key, path) == <<KeyToIdentity[key].id, path>>

\* Faulty variant: windows start at multiples of Window.
CountAligned(b) ==
    /\ HitsIn(b) < MaxHits
    /\ storage' = [storage EXCEPT ![b] = HitsIn(b) + 1]
    /\ expirations' = [expirations EXCEPT ![b] = (now \div Window + 1) * Window]

\* Faulty variant: every hit, denied ones included, moves the window's end.
CountElastic(b) ==
    /\ HitsIn(b) < MaxHits
    /\ storage' = [storage EXCEPT ![b] = HitsIn(b) + 1]
    /\ expirations' = [expirations EXCEPT ![b] = now + Window]

\* Faulty variant: the window is opened without an end.
CountForever(b) ==
    /\ HitsIn(b) < MaxHits
    /\ storage' = [storage EXCEPT ![b] = HitsIn(b) + 1]
    /\ expirations' = [expirations EXCEPT ![b] = None]

\* What every hit does: count itself and, when it is the first, start the
\* window.
Count(b) ==
    /\ HitsIn(b) < MaxHits
    /\ storage' = [storage EXCEPT ![b] = HitsIn(b) + 1]
    /\ expirations' = IF HitsIn(b) = 0
                      THEN [expirations EXCEPT ![b] = now + Window]
                      ELSE expirations

\* Faulty variant: the amount is compared with the count before the hit.
AdmitOneMore(b) ==
    /\ Count(b)
    /\ HitsIn(b) <= Amount(b)
    /\ admitted' = [admitted EXCEPT ![b] = Append(@, now)]
    /\ openings' = IF HitsIn(b) = 0
                   THEN [openings EXCEPT ![b] = @ \union {Len(admitted[b]) + 1}]
                   ELSE openings
    /\ UNCHANGED now

Admit(b) ==
    /\ Count(b)
    /\ HitsIn(b) + 1 <= Amount(b)
    /\ admitted' = [admitted EXCEPT ![b] = Append(@, now)]
    /\ openings' = IF HitsIn(b) = 0
                   THEN [openings EXCEPT ![b] = @ \union {Len(admitted[b]) + 1}]
                   ELSE openings
    /\ UNCHANGED now

Deny(b) ==
    /\ Count(b)
    /\ HitsIn(b) + 1 > Amount(b)
    /\ UNCHANGED <<now, admitted, openings>>

Tick ==
    /\ now < MaxTime
    /\ now' = now + 1
    /\ UNCHANGED <<storage, expirations, admitted, openings>>

Dispatch(key, path) ==
    Admit(BucketOf(key, path)) \/ Deny(BucketOf(key, path))

Next ==
    \/ \E key \in Keys, path \in LimitedPaths : Dispatch(key, path)
    \/ Tick

Spec == Init /\ [][Next]_vars

-----------------------------------------------------------------------------
TypeOK ==
    /\ now \in Nat
    /\ storage \in [Buckets -> Nat]
    /\ expirations \in [Buckets -> Nat]
    /\ admitted \in [Buckets -> Seq(Nat)]
    /\ openings \in [Buckets -> SUBSET Nat]

\* A fixed window lets a consumer burst across its edge, but not without
\* bound: 2*Amount consecutive admissions of a bucket span at least a
\* window's length, wherever one starts counting.  (RateLimitItem amounts
\* enforced by storage.hit(), ratelimit.py:94-101.)
BurstBounded ==
    \A b \in Buckets :
        LET log == admitted[b]
            reach == 2 * Amount(b) - 1
        IN  \A i, j \in 1 .. Len(log) :
                j = i + reach => log[i] + Window <= log[j]

\* A call is refused only to a consumer that itself had Amount calls let
\* pass, on the same path, in the window's length before: hits of other
\* consumers or paths, and its own denied hits, never cost it a call.
DenialEarned ==
    [][\A b \in Buckets :
        storage'[b] # storage[b] /\ admitted'[b] = admitted[b] =>
            LET log == admitted[b]
                first == Len(log) - Amount(b) + 1
            IN  first >= 1 /\ log[first] + Window > now]_vars

-----------------------------------------------------------------------------
\* Why BurstBounded holds.  The log of a bucket falls into windows; the one
\* that is open, or was open last, starts at the place Last(b).
Least(m, n) == IF m <= n THEN m ELSE n

Last(b) == Len(admitted[b]) - Least(storage[b], Amount(b)) + 1

\* The log is in the order of the clock, which has reached its last entry.
LogInOrder(b) ==
    /\ \A i \in 1 .. Len(admitted[b]) : admitted[b][i] <= now
    /\ \A i, j \in 1 .. Len(admitted[b]) : i <= j => admitted[b][i] <= admitted[b][j]

\* The counter and the expiry tell where the last window starts.
LastWindow(b) ==
    /\ openings[b] \subseteq 1 .. Len(admitted[b])
    /\ storage[b] = 0 => admitted[b] = <<>> /\ expirations[b] = 0
    /\ storage[b] > 0 =>
          /\ Last(b) \in openings[b]
          /\ \A t \in openings[b] : t <= Last(b)
          /\ expirations[b] = admitted[b][Last(b)] + Window

\* No admission is Amount places or more into its window.
WindowsFilled(b) ==
    \A i \in 1 .. Len(admitted[b]) :
        \E s \in openings[b] :
            /\ s <= i
            /\ i < s + Amount(b)
            /\ \A t \in openings[b] : t <= s \/ t > i

\* Every window but the last is followed by one that starts at most Amount
\* places and at least Window ticks later.
WindowsApart(b) ==
    \A s \in openings[b] :
        s = Last(b) \/ \E t \in openings[b] :
                           /\ s < t
                           /\ t <= s + Amount(b)
                           /\ admitted[b][s] + Window <= admitted[b][t]

\* The counter, the expiry and the log of admissions fit together: the
\* inductive invariant behind BurstBounded, DenialEarned and the refinement.
WindowsFit ==
    \A b \in Buckets :
        LogInOrder(b) /\ LastWindow(b) /\ WindowsFilled(b) /\ WindowsApart(b)

-----------------------------------------------------------------------------
\* The abstract promise: a window's expiry is the renewal, what the history
\* admitted since the window opened is granted, and the buckets with hits past
\* their amount have refused.
LatestOpening(b) == CHOOSE s \in openings[b] : \A t \in openings[b] : t <= s

GrantedIn(b) ==
    IF HitsIn(b) = 0 THEN 0 ELSE Len(admitted[b]) + 1 - LatestOpening(b)

Budget == INSTANCE WindowBudget WITH
    granted <- [b \in Buckets |-> GrantedIn(b)],
    refused <- {b \in Buckets : HitsIn(b) > Amount(b)}

\* The clocked limiter, storage.hit() of ratelimit.py:95 with the counters
\* behind it, implements the promise of WindowBudget.
ImplementsBudget == Budget!Spec
=============================================================================
