-------------------------- MODULE RateLimiterProofs --------------------------
(***************************************************************************)
(* Proofs that the fixed-window limiter keeps its promises for every key   *)
(* table, every choice of limits and every window length.                  *)
(***************************************************************************)
EXTENDS RateLimiter, TLAPS

\* A bucket exists only for a path with a limit, and limits are positive.
LEMMA AmountType ==
    ASSUME NEW b \in Buckets
    PROVE  Amount(b) \in Nat /\ Amount(b) >= 1
<1>1. b[2] \in RpcPaths /\ ItemFor(b[2]) # None
  BY DEF Buckets, LimitedPaths
<1>2. ItemFor(b[2]) \in (Nat \ {0}) \union {None}
  BY LimitsAssumption DEF ItemFor, Or
<1> QED
  BY <1>1, <1>2 DEF Amount

\* Every call that is counted is counted in some bucket.
LEMMA BucketOfType ==
    ASSUME NEW key \in Keys, NEW path \in LimitedPaths
    PROVE  BucketOf(key, path) \in Buckets
BY KeysAssumption DEF BucketOf, Buckets, ConsumerIdentity

-----------------------------------------------------------------------------
\* The variables keep their types (app.state.limiter and its storage).
THEOREM TypeCorrect == Spec => []TypeOK
<1>1. Init => TypeOK
  BY DEF Init, TypeOK
<1>2. TypeOK /\ [Next]_vars => TypeOK'
  <2> SUFFICES ASSUME TypeOK, [Next]_vars
               PROVE  TypeOK'
    OBVIOUS
  <2> USE DEF TypeOK
  <2>1. ASSUME NEW b \in Buckets, Count(b)
        PROVE  storage' \in [Buckets -> Nat] /\ expirations' \in [Buckets -> Nat]
    BY <2>1, WindowAssumption DEF Count, HitsIn
  <2>2. ASSUME NEW b \in Buckets, Admit(b)
        PROVE  TypeOK'
    <3>1. storage' \in [Buckets -> Nat] /\ expirations' \in [Buckets -> Nat]
      BY <2>1, <2>2 DEF Admit
    <3>2. admitted' \in [Buckets -> Seq(Nat)]
      BY <2>2 DEF Admit
    <3>3. openings' \in [Buckets -> SUBSET Nat]
      BY <2>2 DEF Admit
    <3> QED
      BY <2>2, <3>1, <3>2, <3>3 DEF Admit
  <2>3. ASSUME NEW b \in Buckets, Deny(b)
        PROVE  TypeOK'
    BY <2>1, <2>3 DEF Deny
  <2>4. CASE Tick
    BY <2>4 DEF Tick
  <2>5. CASE UNCHANGED vars
    BY <2>5 DEF vars
  <2> QED
    BY <2>2, <2>3, <2>4, <2>5, BucketOfType DEF Next, Dispatch
<1> QED
  BY <1>1, <1>2, PTL DEF Spec

-----------------------------------------------------------------------------
\* What the invariant says of one bucket.
Fits(b) ==
    LogInOrder(b) /\ LastWindow(b) /\ WindowsFilled(b) /\ WindowsApart(b)

\* The clock may advance, and other buckets may be hit, without disturbing a
\* bucket.
LEMMA OtherBucketsFit ==
    ASSUME TypeOK, NEW b \in Buckets, Fits(b), now' \in Nat, now <= now',
           storage'[b] = storage[b], expirations'[b] = expirations[b],
           admitted'[b] = admitted[b], openings'[b] = openings[b]
    PROVE  Fits(b)'
<1>1. LogInOrder(b)'
  BY DEF Fits, LogInOrder, TypeOK
<1>2. Last(b)' = Last(b)
  BY DEF Last, Least, Amount
<1>3. LastWindow(b)'
  BY <1>2 DEF Fits, LastWindow
<1>4. WindowsFilled(b)' /\ WindowsApart(b)'
  BY <1>2 DEF Fits, WindowsFilled, WindowsApart, Amount
<1> QED
  BY <1>1, <1>3, <1>4 DEF Fits

\* Where the last window of a bucket that was hit starts.
LEMMA LastType ==
    ASSUME TypeOK, NEW b \in Buckets, Fits(b), storage[b] > 0
    PROVE  /\ Last(b) \in 1 .. Len(admitted[b])
           /\ Last(b) = Len(admitted[b]) - Least(storage[b], Amount(b)) + 1
BY DEF Fits, LastWindow, Last

\* A denied hit leaves the log alone, and the last window was full before it.
LEMMA DenyFits ==
    ASSUME TypeOK, NEW b \in Buckets, Fits(b), Deny(b)
    PROVE  /\ storage[b] >= Amount(b)
           /\ expirations[b] > now
           /\ Fits(b)'
<1>1. Amount(b) \in Nat /\ Amount(b) >= 1 /\ storage[b] \in Nat /\ expirations[b] \in Nat
  BY AmountType DEF TypeOK
<1>2. /\ storage[b] >= Amount(b)
      /\ expirations[b] > now
      /\ storage'[b] = storage[b] + 1
      /\ expirations'[b] = expirations[b]
  BY <1>1 DEF Deny, Count, HitsIn, TypeOK
<1>3. now' = now /\ admitted' = admitted /\ openings' = openings
  BY DEF Deny
<1>4. Last(b)' = Last(b)
  BY <1>1, <1>2, <1>3 DEF Last, Least, Amount
<1>5. LogInOrder(b)'
  BY <1>3 DEF Fits, LogInOrder
<1>6. LastWindow(b)'
  BY <1>1, <1>2, <1>3, <1>4 DEF Fits, LastWindow
<1>7. WindowsFilled(b)' /\ WindowsApart(b)'
  BY <1>3, <1>4 DEF Fits, WindowsFilled, WindowsApart, Amount
<1> QED
  BY <1>2, <1>5, <1>6, <1>7 DEF Fits

\* An admitted hit extends the open window or opens the next one.
LEMMA AdmitFits ==
    ASSUME TypeOK, NEW b \in Buckets, Fits(b), Admit(b)
    PROVE  Fits(b)'
<1> DEFINE log == admitted[b]
           n == Len(log)
           A == Amount(b)
<1>1. /\ A \in Nat /\ A >= 1 /\ storage[b] \in Nat /\ expirations[b] \in Nat
      /\ now \in Nat /\ log \in Seq(Nat) /\ n \in Nat /\ openings[b] \subseteq 1 .. n
      /\ Window \in Nat /\ Window >= 1
  BY AmountType, WindowAssumption DEF TypeOK, Fits, LastWindow
<1>2. /\ now' = now
      /\ admitted'[b] = Append(log, now)
      /\ Len(admitted'[b]) = n + 1
      /\ admitted'[b][n + 1] = now
      /\ \A i \in 1 .. n : admitted'[b][i] = log[i]
  BY <1>1 DEF Admit, TypeOK
<1>3. LogInOrder(b)'
  <2> SUFFICES ASSUME NEW i \in 1 .. n + 1, NEW j \in 1 .. n + 1
               PROVE  /\ admitted'[b][i] <= now
                      /\ i <= j => admitted'[b][i] <= admitted'[b][j]
    BY <1>2 DEF LogInOrder
  <2>1. \A k \in 1 .. n : log[k] \in Nat /\ log[k] <= now
    BY <1>1 DEF Fits, LogInOrder
  <2>2. i \in 1 .. n /\ j \in 1 .. n => (i <= j => log[i] <= log[j])
    BY DEF Fits, LogInOrder
  <2> QED
    BY <1>1, <1>2, <2>1, <2>2
<1>4. CASE HitsIn(b) = 0
  <2>1. /\ storage'[b] = 1
        /\ expirations'[b] = now + Window
        /\ openings'[b] = openings[b] \union {n + 1}
    BY <1>1, <1>4 DEF Admit, Count, TypeOK
  <2>2. Last(b)' = n + 1
    BY <1>1, <1>2, <2>1 DEF Last, Least, Amount
  <2>3. LastWindow(b)'
    BY <1>1, <1>2, <2>1, <2>2 DEF LastWindow
  <2>4. WindowsFilled(b)'
    <3> SUFFICES ASSUME NEW i \in 1 .. n + 1
                 PROVE  \E s \in openings[b] \union {n + 1} :
                            /\ s <= i
                            /\ i < s + A
                            /\ \A t \in openings[b] \union {n + 1} : t <= s \/ t > i
      BY <1>2, <2>1 DEF WindowsFilled, Amount
    <3>1. CASE i = n + 1
      <4>1. \A t \in openings[b] \union {n + 1} : t <= n + 1
        BY <1>1
      <4>2. n + 1 <= i /\ i < n + 1 + A
        BY <1>1, <3>1
      <4> QED
        BY <3>1, <4>1, <4>2
    <3>2. CASE i \in 1 .. n
      BY <1>1, <3>2 DEF Fits, WindowsFilled
    <3> QED
      BY <1>1, <3>1, <3>2
  <2>5. WindowsApart(b)'
    <3> SUFFICES ASSUME NEW s \in openings[b]
                 PROVE  \E t \in openings[b] \union {n + 1} :
                            /\ s < t
                            /\ t <= s + A
                            /\ log[s] + Window <= admitted'[b][t]
      BY <1>1, <1>2, <2>1, <2>2 DEF WindowsApart, Amount
    <3>1. storage[b] > 0
      BY <1>1 DEF Fits, LastWindow
    <3>2. expirations[b] <= now /\ expirations[b] = log[Last(b)] + Window
      BY <1>1, <1>4, <3>1 DEF HitsIn, Fits, LastWindow
    <3>3. CASE s = Last(b)
      <4>1. s = n - Least(storage[b], A) + 1
        BY <3>3 DEF Last
      <4>2. s < n + 1 /\ n + 1 <= s + A
        BY <1>1, <3>1, <4>1 DEF Least
      <4> QED
        BY <1>2, <3>2, <3>3, <4>2
    <3>4. CASE s # Last(b)
      <4>1. PICK t \in openings[b] :
                s < t /\ t <= s + A /\ log[s] + Window <= log[t]
        BY <3>4 DEF Fits, WindowsApart
      <4> QED
        BY <1>1, <1>2, <4>1
    <3> QED
      BY <3>3, <3>4
  <2> QED
    BY <1>3, <2>3, <2>4, <2>5 DEF Fits
<1>5. CASE HitsIn(b) # 0
  <2>1. /\ storage[b] > 0 /\ storage[b] < A
        /\ storage'[b] = storage[b] + 1
        /\ expirations'[b] = expirations[b]
        /\ openings'[b] = openings[b]
    BY <1>1, <1>5 DEF Admit, Count, HitsIn, TypeOK
  <2>2. /\ Last(b) \in openings[b] /\ Last(b) \in 1 .. n
        /\ \A t \in openings[b] : t <= Last(b)
        /\ expirations[b] = log[Last(b)] + Window
    BY <1>1, <2>1 DEF Fits, LastWindow
  <2>3. Last(b)' = Last(b) /\ Last(b) = n - storage[b] + 1
    BY <1>1, <1>2, <2>1 DEF Last, Least, Amount
  <2>4. LastWindow(b)'
    BY <1>1, <1>2, <2>1, <2>2, <2>3 DEF LastWindow
  <2>5. WindowsFilled(b)'
    <3> SUFFICES ASSUME NEW i \in 1 .. n + 1
                 PROVE  \E s \in openings[b] :
                            /\ s <= i
                            /\ i < s + A
                            /\ \A t \in openings[b] : t <= s \/ t > i
      BY <1>2, <2>1 DEF WindowsFilled, Amount
    <3>1. CASE i = n + 1
      <4>1. Last(b) <= i /\ i < Last(b) + A
        BY <1>1, <2>1, <2>3, <3>1
      <4> QED
        BY <2>2, <4>1
    <3>2. CASE i \in 1 .. n
      BY <3>2 DEF Fits, WindowsFilled
    <3> QED
      BY <1>1, <3>1, <3>2
  <2>6. WindowsApart(b)'
    <3> SUFFICES ASSUME NEW s \in openings[b], s # Last(b)
                 PROVE  \E t \in openings[b] :
                            /\ s < t
                            /\ t <= s + A
                            /\ log[s] + Window <= admitted'[b][t]
      BY <1>1, <1>2, <2>1, <2>3 DEF WindowsApart, Amount
    <3> QED
      BY <1>1, <1>2 DEF Fits, WindowsApart
  <2> QED
    BY <1>3, <2>4, <2>5, <2>6 DEF Fits
<1> QED
  BY <1>4, <1>5

\* Every step keeps the invariant of every bucket.
LEMMA WindowsFitStep ==
    ASSUME TypeOK, WindowsFit, [Next]_vars
    PROVE  WindowsFit'
<1> SUFFICES ASSUME NEW b \in Buckets
             PROVE  Fits(b)'
  BY DEF WindowsFit, Fits
<1>1. \A c \in Buckets : Fits(c)
  BY DEF WindowsFit, Fits
<1>2. now \in Nat
  BY DEF TypeOK
<1>3. ASSUME NEW c \in Buckets, Admit(c)
      PROVE  Fits(b)'
  <2>1. CASE c = b
    BY <1>1, <1>3, <2>1, AdmitFits
  <2>2. CASE c # b
    <3>1. /\ now' = now
          /\ storage'[b] = storage[b] /\ expirations'[b] = expirations[b]
          /\ admitted'[b] = admitted[b] /\ openings'[b] = openings[b]
      BY <1>3, <2>2 DEF Admit, Count, TypeOK
    <3> QED
      BY <1>1, <1>2, <3>1, OtherBucketsFit
  <2> QED
    BY <2>1, <2>2
<1>4. ASSUME NEW c \in Buckets, Deny(c)
      PROVE  Fits(b)'
  <2>1. CASE c = b
    BY <1>1, <1>4, <2>1, DenyFits
  <2>2. CASE c # b
    <3>1. /\ now' = now
          /\ storage'[b] = storage[b] /\ expirations'[b] = expirations[b]
          /\ admitted'[b] = admitted[b] /\ openings'[b] = openings[b]
      BY <1>4, <2>2 DEF Deny, Count, TypeOK
    <3> QED
      BY <1>1, <1>2, <3>1, OtherBucketsFit
  <2> QED
    BY <2>1, <2>2
<1>5. CASE Tick
  BY <1>1, <1>2, <1>5, OtherBucketsFit DEF Tick
<1>6. CASE UNCHANGED vars
  BY <1>1, <1>2, <1>6, OtherBucketsFit DEF vars
<1> QED
  BY <1>3, <1>4, <1>5, <1>6, BucketOfType DEF Next, Dispatch

\* The counters, expiries and logs of admissions always fit together.
THEOREM WindowsAlwaysFit == Spec => []WindowsFit
<1>1. Init => WindowsFit
  <2> SUFFICES ASSUME Init, NEW b \in Buckets
               PROVE  LogInOrder(b) /\ LastWindow(b) /\ WindowsFilled(b) /\ WindowsApart(b)
    BY DEF WindowsFit
  <2>1. admitted[b] = <<>> /\ openings[b] = {} /\ storage[b] = 0 /\ expirations[b] = 0
    BY DEF Init
  <2> QED
    BY <2>1 DEF LogInOrder, LastWindow, WindowsFilled, WindowsApart
<1>2. TypeOK /\ WindowsFit /\ [Next]_vars => WindowsFit'
  BY WindowsFitStep
<1> QED
  BY <1>1, <1>2, TypeCorrect, PTL DEF Spec

-----------------------------------------------------------------------------
\* The log of a bucket holds times.
LEMMA LogTimes ==
    ASSUME TypeOK, NEW b \in Buckets
    PROVE  /\ Len(admitted[b]) \in Nat
           /\ \A k \in 1 .. Len(admitted[b]) : admitted[b][k] \in Nat
<1>1. admitted[b] \in Seq(Nat)
  BY DEF TypeOK
<1> QED
  BY <1>1

\* From one bucket's invariant: any 2 * Amount consecutive admissions span a
\* window's length.  Counting from place i in window s, the next window starts
\* within the next Amount - 1 places (or i starts a window itself), and the
\* one after it at most Amount places later.
LEMMA BurstOfOneBucket ==
    ASSUME TypeOK, NEW b \in Buckets, Fits(b),
           NEW i \in 1 .. Len(admitted[b]), NEW j \in 1 .. Len(admitted[b]),
           j = i + 2 * Amount(b) - 1
    PROVE  admitted[b][i] + Window <= admitted[b][j]
<1> DEFINE log == admitted[b]
           n == Len(log)
           A == Amount(b)
<1>1. /\ A \in Nat /\ A >= 1 /\ storage[b] \in Nat
      /\ n \in Nat /\ openings[b] \subseteq 1 .. n
      /\ Window \in Nat
  BY LogTimes, AmountType, WindowAssumption DEF TypeOK, Fits, LastWindow
<1>2. \A k, l \in 1 .. n : k <= l => log[k] <= log[l]
  BY DEF Fits, LogInOrder
<1>3. storage[b] > 0
  BY <1>1 DEF Fits, LastWindow
<1>4. Last(b) \in Nat /\ n < Last(b) + A
  BY <1>1, <1>3 DEF Last, Least
<1>5. PICK s \in openings[b] :
          s <= i /\ i < s + A /\ \A t \in openings[b] : t <= s \/ t > i
  BY DEF Fits, WindowsFilled
<1>6. s # Last(b)
  BY <1>1, <1>4, <1>5
<1>7. PICK t \in openings[b] : s < t /\ t <= s + A /\ log[s] + Window <= log[t]
  BY <1>6 DEF Fits, WindowsApart
<1>8. t > i
  BY <1>1, <1>5, <1>7
<1>9. /\ s \in 1 .. n /\ t \in 1 .. n
      /\ log[s] \in Nat /\ log[t] \in Nat /\ log[i] \in Nat /\ log[j] \in Nat
  BY LogTimes, <1>1
<1>10. CASE s = i
  <2>1. t <= j
    BY <1>1, <1>7, <1>9, <1>10
  <2>2. log[t] <= log[j]
    BY <1>2, <1>9, <2>1
  <2>3. log[i] + Window <= log[t]
    BY <1>7, <1>10
  <2>4. \A x, y, z, w \in Nat : x + w <= y /\ y <= z => x + w <= z
    OBVIOUS
  <2>5. log[i] + Window <= log[j]
    BY <1>1, <1>9, <2>2, <2>3, <2>4
  <2> QED
    BY <2>5
<1>11. CASE s # i
  <2>1. t <= i + A - 1
    BY <1>1, <1>5, <1>7, <1>9, <1>11
  <2>2. t # Last(b)
    BY <1>1, <1>4, <2>1
  <2>3. PICK u \in openings[b] : t < u /\ u <= t + A /\ log[t] + Window <= log[u]
    BY <2>2 DEF Fits, WindowsApart
  <2>4. u \in 1 .. n /\ log[u] \in Nat
    BY LogTimes, <1>1
  <2>5. i <= t /\ u <= j
    BY <1>1, <1>8, <1>9, <2>1, <2>3, <2>4
  <2>6. log[i] <= log[t] /\ log[u] <= log[j]
    BY <1>2, <1>9, <2>4, <2>5
  <2>7. Window \in Nat
    BY WindowAssumption
  <2> QED
    BY <1>9, <2>3, <2>4, <2>6, <2>7
<1> QED
  BY <1>10, <1>11

\* However a consumer times its calls, no span shorter than a window lets
\* 2 * Amount of them pass (ratelimit.py:94-101).
THEOREM BurstAlwaysBounded == Spec => []BurstBounded
<1>1. TypeOK /\ WindowsFit => BurstBounded
  BY BurstOfOneBucket DEF WindowsFit, Fits, BurstBounded
<1> QED
  BY <1>1, TypeCorrect, WindowsAlwaysFit, PTL

\* A consumer that is refused has spent its whole budget on the same path
\* within the window's length before (ratelimit.py:96-101).
THEOREM DenialAlwaysEarned == Spec => DenialEarned
<1> DEFINE Earned(b) ==
        storage'[b] # storage[b] /\ admitted'[b] = admitted[b] =>
            LET log == admitted[b]
                first == Len(log) - Amount(b) + 1
            IN  first >= 1 /\ log[first] + Window > now
<1>1. TypeOK /\ WindowsFit /\ [Next]_vars => [\A b \in Buckets : Earned(b)]_vars
  <2> SUFFICES ASSUME TypeOK, WindowsFit, Next, NEW b \in Buckets
               PROVE  Earned(b)
    BY DEF Earned
  <2>1. ASSUME NEW c \in Buckets, Admit(c)
        PROVE  Earned(b)
    <3>1. CASE c = b
      <4>1. admitted[b] \in Seq(Nat) /\ now \in Nat /\ admitted'[b] = Append(admitted[b], now)
        BY <2>1, <3>1 DEF Admit, TypeOK
      <4>2. Len(admitted'[b]) # Len(admitted[b])
        BY <4>1
      <4> QED
        BY <4>2
    <3>2. CASE c # b
      BY <2>1, <3>2 DEF Admit, Count, TypeOK
    <3> QED
      BY <3>1, <3>2
  <2>2. ASSUME NEW c \in Buckets, Deny(c)
        PROVE  Earned(b)
    <3>1. CASE c = b
      <4>1. Fits(b) /\ Deny(b)
        BY <2>2, <3>1 DEF WindowsFit, Fits
      <4>2. storage[b] >= Amount(b) /\ expirations[b] > now
        BY <4>1, DenyFits
      <4>3. Amount(b) \in Nat /\ Amount(b) >= 1 /\ storage[b] \in Nat
        BY AmountType DEF TypeOK
      <4>4. /\ Last(b) = Len(admitted[b]) - Amount(b) + 1
            /\ Last(b) \in 1 .. Len(admitted[b])
            /\ expirations[b] = admitted[b][Last(b)] + Window
        BY <4>1, <4>2, <4>3 DEF Fits, LastWindow, Last, Least
      <4> QED
        BY <4>2, <4>4
    <3>2. CASE c # b
      BY <2>2, <3>2 DEF Deny, Count, TypeOK
    <3> QED
      BY <3>1, <3>2
  <2>3. CASE Tick
    BY <2>3 DEF Tick
  <2> QED
    BY <2>1, <2>2, <2>3, BucketOfType DEF Next, Dispatch
<1> QED
  BY <1>1, TypeCorrect, WindowsAlwaysFit, PTL DEF Spec, DenialEarned

-----------------------------------------------------------------------------
\* The admissions of the open window are its hits, up to the amount.
LEMMA GrantedIsCounted ==
    ASSUME TypeOK, NEW b \in Buckets, Fits(b)
    PROVE  /\ GrantedIn(b) = Least(HitsIn(b), Amount(b))
           /\ HitsIn(b) \in Nat
           /\ GrantedIn(b) \in Nat
<1>1. Amount(b) \in Nat /\ Amount(b) >= 1 /\ storage[b] \in Nat
  BY AmountType DEF TypeOK
<1>2. CASE HitsIn(b) = 0
  BY <1>1, <1>2 DEF GrantedIn, Least
<1>3. CASE HitsIn(b) # 0
  <2>1. HitsIn(b) = storage[b] /\ storage[b] > 0
    BY <1>1, <1>3 DEF HitsIn
  <2>2. Last(b) \in openings[b] /\ \A t \in openings[b] : t <= Last(b)
    BY <2>1 DEF Fits, LastWindow
  <2>3. openings[b] \subseteq Nat
    BY DEF TypeOK
  <2>4. LatestOpening(b) = Last(b)
    <3>1. \A s \in openings[b] : (\A t \in openings[b] : t <= s) => s = Last(b)
      BY <2>2, <2>3
    <3> QED
      BY <2>2, <3>1 DEF LatestOpening
  <2>5. Len(admitted[b]) \in Nat
    BY LogTimes
  <2> QED
    BY <1>1, <1>3, <2>1, <2>4, <2>5 DEF GrantedIn, Last, Least
<1> QED
  BY <1>2, <1>3

\* Every behaviour of the clocked limiter is, seen through its history, one of
\* the promise (RateLimitMiddleware.dispatch, ratelimit.py:82-102).
THEOREM LimiterImplementsBudget == Spec => ImplementsBudget
<1>1. Init => Budget!Init
  <2> SUFFICES ASSUME Init
               PROVE  Budget!Init
    OBVIOUS
  <2>1. \A b \in Buckets : HitsIn(b) = 0
    BY DEF Init, HitsIn
  <2>2. \A b \in Buckets : GrantedIn(b) = 0
    BY <2>1 DEF GrantedIn
  <2>3. {b \in Buckets : HitsIn(b) > Amount(b)} = {}
    BY <2>1, AmountType
  <2> QED
    BY <2>2, <2>3 DEF Budget!Init
<1>2. TypeOK /\ WindowsFit /\ TypeOK' /\ WindowsFit' /\ [Next]_vars => [Budget!Next]_Budget!vars
  <2> SUFFICES ASSUME TypeOK, WindowsFit, TypeOK', WindowsFit', [Next]_vars
               PROVE  [Budget!Next]_Budget!vars
    OBVIOUS
  <2> DEFINE Refused == {b \in Buckets : HitsIn(b) > Amount(b)}
             Granted == [b \in Buckets |-> GrantedIn(b)]
  <2>1. \A b \in Buckets :
            /\ Amount(b) \in Nat /\ Amount(b) >= 1
            /\ HitsIn(b) \in Nat /\ GrantedIn(b) = Least(HitsIn(b), Amount(b))
    BY AmountType, GrantedIsCounted DEF WindowsFit, Fits
  <2>2. \A b \in Buckets :
            /\ HitsIn(b)' \in Nat
            /\ GrantedIn(b)' = Least(HitsIn(b)', Amount(b))
    <3> SUFFICES ASSUME NEW b \in Buckets
                 PROVE  /\ HitsIn(b)' \in Nat
                        /\ GrantedIn(b)' = Least(HitsIn(b)', Amount(b))
      OBVIOUS
    <3>1. Fits(b)'
      BY DEF WindowsFit, Fits
    <3>2. (TypeOK /\ Fits(b) => GrantedIn(b) = Least(HitsIn(b), Amount(b)) /\ HitsIn(b) \in Nat)'
      BY GrantedIsCounted, PTL
    <3> QED
      BY <3>1, <3>2 DEF Least, Amount
  <2>3. ASSUME NEW b \in Buckets, Count(b), now' = now
        PROVE  /\ HitsIn(b)' = HitsIn(b) + 1
               /\ \A c \in Buckets \ {b} : HitsIn(c)' = HitsIn(c)
    BY <2>1, <2>3, WindowAssumption DEF Count, HitsIn, TypeOK
  <2>4. ASSUME NEW b \in Buckets, Admit(b)
        PROVE  Budget!Next
    <3>1. HitsIn(b)' = HitsIn(b) + 1 /\ HitsIn(b) < Amount(b)
      BY <2>1, <2>3, <2>4 DEF Admit
    <3>2. \A c \in Buckets \ {b} : HitsIn(c)' = HitsIn(c)
      BY <2>3, <2>4 DEF Admit
    <3>3. GrantedIn(b) < Amount(b) /\ GrantedIn(b)' = GrantedIn(b) + 1
      BY <2>1, <2>2, <3>1 DEF Least
    <3>4. \A c \in Buckets \ {b} : GrantedIn(c)' = GrantedIn(c)
      BY <2>1, <2>2, <3>2
    <3>5. Granted' = [Granted EXCEPT ![b] = @ + 1]
      BY <3>3, <3>4
    <3>6. Refused' = Refused /\ b \notin Refused
      BY <2>1, <3>1, <3>2 DEF Amount
    <3>7. Budget!Grant(b)
      BY <3>3, <3>5, <3>6 DEF Budget!Grant
    <3> QED
      BY <3>7 DEF Budget!Next
  <2>5. ASSUME NEW b \in Buckets, Deny(b)
        PROVE  Budget!Next
    <3>1. HitsIn(b)' = HitsIn(b) + 1 /\ HitsIn(b) >= Amount(b)
      BY <2>1, <2>3, <2>5 DEF Deny
    <3>2. \A c \in Buckets \ {b} : HitsIn(c)' = HitsIn(c)
      BY <2>3, <2>5 DEF Deny
    <3>3. GrantedIn(b) = Amount(b) /\ GrantedIn(b)' = Amount(b)
      BY <2>1, <2>2, <3>1 DEF Least
    <3>4. Granted' = Granted
      BY <2>1, <2>2, <3>2, <3>3
    <3>5. Refused' = Refused \union {b}
      BY <2>1, <3>1, <3>2 DEF Amount
    <3>6. Budget!Refuse(b)
      BY <3>3, <3>4, <3>5 DEF Budget!Refuse
    <3> QED
      BY <3>6 DEF Budget!Next
  <2>6. CASE Tick
    <3> DEFINE S == {b \in Buckets : expirations[b] <= now'}
    <3>1. \A b \in Buckets : HitsIn(b)' = IF b \in S THEN 0 ELSE HitsIn(b)
      BY <2>6 DEF Tick, HitsIn, TypeOK
    <3>2. Granted' = [b \in Buckets |-> IF b \in S THEN 0 ELSE Granted[b]]
      BY <2>1, <2>2, <3>1 DEF Least
    <3>3. Refused' = Refused \ S
      BY <2>1, <3>1 DEF Amount
    <3>4. Budget!Renew(S)
      BY <3>2, <3>3 DEF Budget!Renew
    <3>5. S \in SUBSET Buckets
      OBVIOUS
    <3> QED
      BY <3>4, <3>5 DEF Budget!Next
  <2>7. CASE UNCHANGED vars
    BY <2>7 DEF vars, Budget!vars, GrantedIn, HitsIn, LatestOpening, Amount
  <2> QED
    BY <2>4, <2>5, <2>6, <2>7, BucketOfType DEF Next, Dispatch
<1> QED
  BY <1>1, <1>2, TypeCorrect, WindowsAlwaysFit, PTL DEF Spec, ImplementsBudget, Budget!Spec
=============================================================================
