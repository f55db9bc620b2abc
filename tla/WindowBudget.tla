---------------------------- MODULE WindowBudget ----------------------------
(***************************************************************************)
(* What the rate limiter promises about each bucket, without a clock, a    *)
(* counter of denied calls or a request: a bucket admits at most Amount    *)
(* calls per window, refuses a call only when the window's budget is spent,*)
(* and once it has refused a call it admits nothing until the window is    *)
(* renewed.  RateLimiter and RequestPipeline are shown to implement it.    *)
(***************************************************************************)
EXTENDS Naturals

CONSTANTS Buckets, Amount(_)

VARIABLES
    granted,    \* calls each bucket admitted in its current window
    refused     \* buckets that refused a call in their current window

vars == <<granted, refused>>

Init ==
    /\ granted = [b \in Buckets |-> 0]
    /\ refused = {}

Grant(b) ==
    /\ b \notin refused
    /\ granted[b] < Amount(b)
    /\ granted' = [granted EXCEPT ![b] = @ + 1]
    /\ UNCHANGED refused

Refuse(b) ==
    /\ granted[b] = Amount(b)
    /\ refused' = refused \union {b}
    /\ UNCHANGED granted

\* Windows of different buckets may close at the same instant.
Renew(S) ==
    /\ granted' = [b \in Buckets |-> IF b \in S THEN 0 ELSE granted[b]]
    /\ refused' = refused \ S

Next ==
    \/ \E b \in Buckets : Grant(b) \/ Refuse(b)
    \/ \E S \in SUBSET Buckets : Renew(S)

Spec == Init /\ [][Next]_vars
=============================================================================
