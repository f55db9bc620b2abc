--------------------------- MODULE CardRpcsProofs ---------------------------
(***************************************************************************)
(* What one call of an RPC with a card, or of execute_sql(), returns, for  *)
(* any body and any payload, of any number of rows.  A call makes three    *)
(* steps, so one invariant ties the response to what came back; the rest   *)
(* are facts about the reshaping of the rows, most of them by induction on *)
(* the rows (FoldFacts).                                                   *)
(***************************************************************************)
EXTENDS CardRpcs, FoldFacts, SequenceTheorems

\* The answer to an input that is not valid.
Rejected == Response(422, "VALIDATION_ERROR")

\* What the handler makes of what came back.
Concluded(r, w) ==
    IF PostQuery(w) # Success THEN PostQuery(w)
    ELSE IF Raises(r, w.body) THEN Exception ELSE Success

\* The response is the one of what came back, a success shows what was made of
\* it, and nothing else is shown.
CallInv ==
    /\ rpc \in DOMAIN Inputs /\ input \in Inputs[rpc]
    /\ sent # None => Valid(rpc, input) /\ sent = Params(rpc, input)
    /\ outcome \in QueryAnswers \union {Rejected, None}
    /\ outcome = None => wire = None
    /\ wire # None => wire \in Wires[rpc] /\ outcome = Concluded(rpc, wire)
    /\ outcome # Success => data = None
    /\ outcome = Success =>
          /\ wire \in Wires[rpc] /\ PostQuery(wire) = Success
          /\ ~Raises(rpc, wire.body) /\ data = Data(rpc, wire.body)

\* Success is no error, and no answer is None.
LEMMA AnswersDiffer ==
    /\ None \notin QueryAnswers \union {Rejected}
    /\ \A status, code : Response(status, code) = Success => status = 200
    /\ Exception # Success
BY ResponsesAssumption DEF QueryAnswers, Rejected, Responses, Response, Success, Exception

\* What the client makes of an exchange with Metabase.
LEMMA PostQueryAnswers ==
    ASSUME NEW w
    PROVE  PostQuery(w) \in QueryAnswers
BY DEF PostQuery, QueryAnswers

LEMMA ConcludedAnswers ==
    ASSUME NEW r, NEW w
    PROVE  Concluded(r, w) \in QueryAnswers
BY PostQueryAnswers DEF Concluded, QueryAnswers

\* The invariant holds before a call,
LEMMA CallInit == Init => CallInv
BY AnswersDiffer DEF Init, CallInv, QueryAnswers

\* and at each of its steps,
LEMMA CallStep == CallInv /\ [Next]_vars => CallInv'
<1> SUFFICES ASSUME CallInv, [Next]_vars PROVE CallInv'
  OBVIOUS
<1> USE DEF CallInv
<1>1. CASE Reject
  <2>1. Rejected # Success /\ Rejected # None
    BY AnswersDiffer DEF Rejected, Response, Success
  <2>2. outcome' = Rejected /\ outcome = None /\ UNCHANGED <<rpc, input, sent, wire, data>>
    BY <1>1 DEF Reject, Rejected
  <2>3. data = None /\ wire = None
    BY <2>2, AnswersDiffer DEF QueryAnswers
  <2> QED
    BY <2>1, <2>2, <2>3
<1>2. CASE Ask
  BY <1>2, AnswersDiffer DEF Ask, QueryAnswers
<1>3. CASE Receive
  <2>1. PICK w \in Wires[rpc] : wire' = w /\ (Fail(w) \/ Unpack(w))
    BY <1>3 DEF Receive
  <2>2. UNCHANGED <<rpc, input, sent>> /\ outcome = None
    BY <1>3 DEF Receive
  <2>3. data = None
    BY <2>2, AnswersDiffer DEF QueryAnswers
  <2>4. outcome' = Concluded(rpc, w)
    BY <2>1 DEF Fail, Unpack, Concluded
  <2>5. outcome' \in QueryAnswers /\ outcome' # None
    BY <2>4, ConcludedAnswers, AnswersDiffer
  <2>6. CASE Fail(w)
    <3>1. outcome' # Success /\ data' = None
      BY <2>3, <2>6 DEF Fail
    <3> QED
      BY <2>1, <2>2, <2>4, <2>5, <3>1
  <2>7. CASE Unpack(w)
    <3>1. CASE Raises(rpc, w.body)
      <4>1. outcome' # Success /\ data' = None
        BY <2>3, <2>7, <3>1, AnswersDiffer DEF Unpack
      <4> QED
        BY <2>1, <2>2, <2>4, <2>5, <4>1
    <3>2. CASE ~Raises(rpc, w.body)
      <4>1. PostQuery(w) = Success /\ outcome' = Success /\ data' = Data(rpc, w.body)
        BY <2>7, <3>2 DEF Unpack
      <4> QED
        BY <2>1, <2>2, <2>4, <2>5, <3>2, <4>1
    <3> QED
      BY <3>1, <3>2
  <2> QED
    BY <2>1, <2>6, <2>7
<1>4. CASE UNCHANGED vars
  BY <1>4 DEF vars
<1> QED
  BY <1>1, <1>2, <1>3, <1>4 DEF Next

\* so at all times.
LEMMA CallAlways == Spec => []CallInv
<1>1. Init => CallInv
  BY CallInit
<1>2. CallInv /\ [Next]_vars => CallInv'
  BY CallStep
<1> QED
  BY <1>1, <1>2, PTL DEF Spec

\* What a call that is done has seen.
LEMMA DoneFacts ==
    ASSUME CallInv, Done
    PROVE  /\ rpc \in CardRpcNames \union {"execute_sql"}
           /\ wire \in Wires[rpc] /\ IsWire(wire)
           /\ wire.kind = "answer" /\ wire.status < 400
           /\ wire.body.kind = "object"
           /\ ~RowsRaise(wire.body) /\ ~Raises(rpc, wire.body)
           /\ data = Data(rpc, wire.body) /\ data # None
<1>1. /\ rpc \in DOMAIN Inputs /\ wire \in Wires[rpc] /\ PostQuery(wire) = Success
      /\ ~Raises(rpc, wire.body) /\ data = Data(rpc, wire.body)
  BY DEF CallInv, Done
<1>2. rpc \in CardRpcNames \union {"execute_sql"} /\ rpc \in DOMAIN Wires
  BY <1>1, RpcsAssumption
<1>3. IsWire(wire)
  BY <1>1, <1>2, WiresAssumption
<1>4. data # None
  BY <1>1, NoneAssumption
<1>5. ~RowsRaise(wire.body)
  BY <1>1 DEF Raises
<1>6. wire.body.kind = "object"
  BY <1>5 DEF RowsRaise
<1>7. wire.kind # "timeout" /\ wire.kind # "broken" /\ ~(wire.status >= 500) /\ ~(wire.status >= 400)
  BY <1>1, AnswersDiffer DEF PostQuery
<1>8. wire.kind = "answer" /\ wire.status < 400
  BY <1>3, <1>7 DEF IsWire
<1> QED
  BY <1>1, <1>2, <1>3, <1>4, <1>5, <1>6, <1>8

\* However Metabase answers, a call ends in one of the answers the pipeline is
\* built for, with a payload exactly if it succeeds (rpcs/_helpers.py,
\* clients/metabase.py).
THEOREM AlwaysAnswersAsAssumed == Spec => []AnswersAsAssumed
<1>1. ASSUME CallInv PROVE AnswersAsAssumed
  <2>1. outcome \in QueryAnswers \union {Response(422, "VALIDATION_ERROR"), None}
    BY <1>1 DEF CallInv, Rejected
  <2>2. data # None <=> outcome = Success
    BY <1>1, DoneFacts DEF CallInv, Done
  <2>3. Health(wire) \in HealthAnswers
    BY DEF Health, HealthAnswers
  <2> QED
    BY <2>1, <2>2, <2>3 DEF AnswersAsAssumed
<1> QED
  BY <1>1, CallAlways, PTL

\* Only a 202 that is JSON without rows and not "completed" is told to wait, and
\* every such 202 is (clients/metabase.py, _post_query() and _looks_completed()).
THEOREM QueuedAlwaysToldApart == Spec => []QueuedIsToldApart
<1> DEFINE Queued == Response(504, "EXCEEDED_SYNC_WINDOW")
<1>1. /\ Success # Queued /\ Exception # Queued
      /\ \A code : code # "EXCEEDED_SYNC_WINDOW" =>
            \A status : Response(status, code) # Queued
  BY DEF Success, Exception, Response
<1> HIDE DEF Queued
<1>2. ASSUME CallInv PROVE QueuedIsToldApart
  <2> SUFFICES ASSUME wire # None PROVE QueuedIsToldApart
    BY DEF QueuedIsToldApart
  <2>1. outcome = Concluded(rpc, wire) /\ IsWire(wire)
    BY <1>2, RpcsAssumption, WiresAssumption DEF CallInv
  <2>2. outcome = Queued <=> PostQuery(wire) = Queued
    BY <1>1, <2>1 DEF Concluded
  <2> DEFINE Running == /\ wire.kind = "answer" /\ wire.status = 202 /\ wire.body.kind # "text"
                        /\ ~HasRows(wire.body) /\ ~Completed(wire.body)
  <2>3. Running => PostQuery(wire) = Queued
    BY DEF PostQuery, LooksCompleted, Queued
  <2>4. ASSUME PostQuery(wire) = Queued PROVE Running
    <3>1. /\ wire.kind # "timeout" /\ wire.kind # "broken" /\ ~(wire.status >= 500)
          /\ ~(wire.status >= 400) /\ wire.body.kind # "text"
          /\ wire.status = 202 /\ ~LooksCompleted(wire.body)
      BY <1>1, <2>4 DEF PostQuery
    <3> QED
      BY <2>1, <3>1 DEF IsWire, LooksCompleted
  <2> QED
    BY <2>2, <2>3, <2>4 DEF QueuedIsToldApart, Queued
<1> QED
  BY <1>2, CallAlways, PTL

\* Each filter of a valid body is among the card's parameters, as it was given.
THEOREM EveryFilterAlwaysSent == Spec => []EveryFilterIsSent
<1>1. ASSUME CallInv PROVE EveryFilterIsSent
  <2> SUFFICES ASSUME sent # None, rpc \in CardRpcNames \ {"revenue_comparison"},
                      NEW tag \in DOMAIN input, input[tag] # None
               PROVE  tag \in DOMAIN sent /\ sent[tag] = input[tag]
    BY DEF EveryFilterIsSent
  <2>0. Valid(rpc, input) /\ sent = Params(rpc, input)
    BY <1>1 DEF CallInv
  <2>1. CASE rpc = "partner_revenue"
    BY <2>0, <2>1 DEF Valid, Params, PartnerRevenueInputs, PartnerRevenueParams
  <2>2. CASE rpc = "channel_split"
    BY <2>0, <2>2 DEF Valid, Params, ChannelSplitInputs, ChannelSplitParams
  <2>3. CASE rpc = "top_partners"
    BY <2>0, <2>3 DEF Valid, Params, TopPartnersInputs, TopPartnersParams
  <2>4. CASE rpc = "mrr_trend"
    BY <2>0, <2>4 DEF Valid, Params, MrrTrendInputs, MrrTrendParams, Given
  <2>5. CASE rpc = "arr_at_risk"
    BY <2>0, <2>5 DEF Valid, Params, ArrAtRiskInputs, ArrAtRiskParams
  <2>6. CASE rpc = "upsell_opportunities"
    BY <2>0, <2>6 DEF Valid, Params, UpsellInputs, UpsellParams
  <2>7. CASE rpc = "license_query"
    BY <2>0, <2>7 DEF Valid, Params, LicenseQueryInputs, LicenseQueryParams, Given
  <2>8. CASE rpc = "data_quality_signals"
    BY <2>0, <2>8 DEF Valid, DataQualitySignalsInputs
  <2> QED
    BY <2>1, <2>2, <2>3, <2>4, <2>5, <2>6, <2>7, <2>8 DEF CardRpcNames, ListRpcs
<1> QED
  BY <1>1, CallAlways, PTL
-----------------------------------------------------------------------------
(***************************************************************************)
(* Periods.                                                                *)
(***************************************************************************)
LEMMA RecordParts ==
    ASSUME NEW A, NEW B, NEW p \in [quarter : A, year : B]
    PROVE  \E q \in A, y \in B : p = [quarter |-> q, year |-> y]
<1>1. p = [quarter |-> p.quarter, year |-> p.year]
  OBVIOUS
<1>2. p.quarter \in A /\ p.year \in B
  OBVIOUS
<1> QED
  BY <1>1, <1>2

\* The quarters of a year, and the years of a date.
Numbers == 1..4
Years == 1..9999
Quarter(q, y)  == [quarter |-> q, year |-> y]

\* A quarter is given by its number and its year.
LEMMA QuarterType ==
    ASSUME NEW p \in Quarters
    PROVE  \E q \in Numbers, y \in Years : p = Quarter(q, y)
<1> DEFINE S == [quarter : Numbers, year : Years]
<1>1. Quarters = {q \in S : ~(q.quarter = 4 /\ q.year = 9999)}
  BY DEF Quarters, Numbers, Years
<1> HIDE DEF S
<1>2. p \in S
  BY <1>1
<1>3. \E q \in Numbers, y \in Years : p = [quarter |-> q, year |-> y]
  BY <1>2, RecordParts DEF S
<1> QED
  BY <1>3 DEF Quarter

\* The days of a quarter, read off parse_period().
FirstDay(q, y) == <<y, 3 * q - 2, 1>>
LastDay(q, y)  == <<y, 3 * q, IF q \in {2, 3} THEN 30 ELSE 31>>

\* The bounds of a quarter are its first day and its last.
LEMMA QuarterDays ==
    ASSUME NEW q \in Numbers, NEW y \in Years
    PROVE  /\ Parsed(Quarter(q, y)).start_date = FirstDay(q, y)
           /\ Parsed(Quarter(q, y)).end_date = LastDay(q, y)
<1> USE DEF Numbers, Years
<1> DEFINE start == (q - 1) * 3 + 1
           end   == start + 2
<1>1. Parsed(Quarter(q, y)) =
        [start_date |-> <<y, start, 1>>,
         end_date |-> IF end < 12 THEN DayBeforeFirst(y, end + 1)
                      ELSE DayBeforeFirst(y + 1, 1)]
  BY DEF Parsed, ParsePeriod, Quarter
<1>2. start = 3 * q - 2 /\ end = 3 * q
  OBVIOUS
<1>3. (IF end < 12 THEN DayBeforeFirst(y, end + 1) ELSE DayBeforeFirst(y + 1, 1)) = LastDay(q, y)
  <2>1. CASE q = 4
    <3>1. y + 1 - 1 = y /\ ~(end < 12)
      BY <1>2, <2>1
    <3> HIDE DEF end
    <3>2. DayBeforeFirst(y + 1, 1) = <<y, 12, 31>>
      BY <3>1 DEF DayBeforeFirst
    <3> QED
      BY <2>1, <3>1, <3>2 DEF LastDay
  <2>2. CASE q # 4
    <3>1. end < 12 /\ end + 1 # 1 /\ end + 1 - 1 = 3 * q
      BY <1>2, <2>2
    <3> DEFINE m == end + 1
    <3>4. m # 1 /\ m - 1 = 3 * q
      BY <3>1
    <3> HIDE DEF m
    <3>2. DayBeforeFirst(y, m) = <<y, 3 * q, LengthOf(3 * q)>>
      BY <3>4 DEF DayBeforeFirst
    <3>3. LengthOf(3 * q) = IF q \in {2, 3} THEN 30 ELSE 31
      BY <2>2 DEF LengthOf
    <3> QED
      BY <3>1, <3>2, <3>3 DEF LastDay, m
  <2> QED
    BY <2>1, <2>2
<1> HIDE DEF start, end
<1> QED
  BY <1>1, <1>2, <1>3 DEF FirstDay

\* A period that was accepted, given by its days or by its quarter, ends on or
\* after the day it begins.
LEMMA PeriodsAreForward ==
    ASSUME NEW p, p \in Periods \union Quarters
    PROVE  AtOrBefore(Parsed(p).start_date, Parsed(p).end_date)
<1>1. CASE p \in Periods
  <2>1. Periods \subseteq [start_date : Days, end_date : Days]
    BY DEF Periods
  <2>2. "quarter" \notin DOMAIN p
    BY <1>1, <2>1
  <2> QED
    BY <1>1, <2>2 DEF Periods, Parsed
<1>2. CASE p \in Quarters
  <2>1. PICK q \in Numbers, y \in Years : p = Quarter(q, y)
    BY <1>2, QuarterType DEF Quarter
  <2>2. AtOrBefore(FirstDay(q, y), LastDay(q, y))
    BY DEF AtOrBefore, FirstDay, LastDay, Numbers, Years
  <2> QED
    BY <2>1, <2>2, QuarterDays
<1> QED
  BY <1>1, <1>2

\* The day after a quarter's last is the next quarter's first.
LEMMA NextQuarter ==
    ASSUME NEW q \in Numbers, NEW y \in Years, NEW r \in Numbers, NEW z \in Years,
           4 * z + r = 4 * y + q + 1
    PROVE  FirstDay(r, z) = NextDay(LastDay(q, y))
<1> USE DEF Numbers, Years
<1>0. y \in Int /\ z \in Int
  OBVIOUS
<1>1. CASE q = 4
  <2>1. 4 * z + r = 4 * y + 5
    BY <1>1
  <2>2. ASSUME z >= y + 2 PROVE FALSE
    BY <2>1, <2>2
  <2>3. ASSUME z <= y PROVE FALSE
    BY <2>1, <2>3
  <2>4. z = y + 1
    BY <2>2, <2>3
  <2>5. r = 1
    BY <2>1, <2>4
  <2>6. LastDay(q, y) = <<y, 12, 31>> /\ FirstDay(r, z) = <<y + 1, 1, 1>>
    BY <1>1, <2>4, <2>5 DEF LastDay, FirstDay
  <2>7. NextDay(<<y, 12, 31>>) = <<y + 1, 1, 1>>
    BY DEF NextDay, LengthOf
  <2> QED
    BY <2>6, <2>7
<1>2. CASE q # 4
  <2>1. ASSUME z > y PROVE FALSE
    BY <1>2, <2>1
  <2>2. ASSUME z < y PROVE FALSE
    BY <1>2, <2>2
  <2>3. z = y
    BY <2>1, <2>2
  <2>4. r = q + 1
    BY <2>3
  <2> DEFINE m == 3 * q
             e == IF q \in {2, 3} THEN 30 ELSE 31
  <2>5. LengthOf(m) = e /\ m < 12 /\ e \in Int /\ m \in Int
    BY <1>2 DEF LengthOf
  <2>6. LastDay(q, y) = <<y, m, e>>
    BY DEF LastDay
  <2>7. FirstDay(r, z) = <<y, m + 1, 1>>
    BY <2>3, <2>4 DEF FirstDay
  <2> HIDE DEF m, e
  <2>8. NextDay(<<y, m, e>>) = <<y, m + 1, 1>>
    BY <2>5 DEF NextDay
  <2> QED
    BY <2>6, <2>7, <2>8
<1> QED
  BY <1>1, <1>2

\* parse_period(): quarters in a row meet, over the turn of every year the code
\* can represent, and no accepted period ends before it begins.
THEOREM QuartersAlwaysMeet == Spec => []QuartersMeet
<1>1. ASSUME CallInv PROVE QuartersMeet
  <2> SUFFICES ASSUME sent # None, rpc = "revenue_comparison" PROVE QuartersMeet
    BY DEF QuartersMeet
  <2>1. input \in ComparisonInputs /\ sent = ComparisonParams(input)
    BY <1>1 DEF CallInv, Valid, Params
  <2> DEFINE a == input.period_a
             b == input.period_b
  <2>2. a \in Periods \union Quarters /\ b \in Periods \union Quarters
    BY <2>1 DEF ComparisonInputs
  <2>3. /\ sent.period_a_start = Parsed(a).start_date /\ sent.period_a_end = Parsed(a).end_date
        /\ sent.period_b_start = Parsed(b).start_date /\ sent.period_b_end = Parsed(b).end_date
    BY <2>1 DEF ComparisonParams
  <2> HIDE DEF a, b
  <2>4. /\ AtOrBefore(Parsed(a).start_date, Parsed(a).end_date)
        /\ AtOrBefore(Parsed(b).start_date, Parsed(b).end_date)
    BY <2>2, PeriodsAreForward
  <2>5. ASSUME DOMAIN a = {"quarter", "year"}, DOMAIN b = {"quarter", "year"},
               4 * b.year + b.quarter = 4 * a.year + a.quarter + 1
        PROVE  sent.period_b_start = NextDay(sent.period_a_end)
    <3>1. Periods \subseteq [start_date : Days, end_date : Days]
      BY DEF Periods
    <3>2. a \in Quarters /\ b \in Quarters
      BY <2>2, <2>5, <3>1
    <3>3. PICK q \in Numbers, y \in Years : a = Quarter(q, y)
      BY <3>2, QuarterType DEF Quarter
    <3>4. PICK r \in Numbers, z \in Years : b = Quarter(r, z)
      BY <3>2, QuarterType DEF Quarter
    <3>5. 4 * z + r = 4 * y + q + 1
      BY <2>5, <3>3, <3>4 DEF Quarter
    <3>6. FirstDay(r, z) = NextDay(LastDay(q, y))
      BY <3>5, NextQuarter
    <3> QED
      BY <2>3, <3>3, <3>4, <3>6, QuarterDays
  <2> QED
    BY <2>3, <2>4, <2>5 DEF QuartersMeet, a, b
<1> QED
  BY <1>1, CallAlways, PTL
-----------------------------------------------------------------------------
(***************************************************************************)
(* The rows that were delivered.                                           *)
(***************************************************************************)
LEMMA SequenceLength ==
    ASSUME NEW s, NEW n \in Nat, DOMAIN s = 1..n, s = [i \in 1..n |-> s[i]]
    PROVE  Len(s) = n
<1> DEFINE S == {s[i] : i \in 1..n}
<1>1. s \in [1..n -> S]
  OBVIOUS
<1>2. s \in Seq(S)
  BY <1>1, SeqDef
<1>3. DOMAIN s = 1..Len(s) /\ Len(s) \in Nat
  BY <1>2, LenProperties
<1> DEFINE m == Len(s)
<1> HIDE DEF m
<1>4. 1..m = 1..n /\ m \in Nat
  BY <1>3 DEF m
<1>5. m = n
  <2>1. CASE m < n
    BY <1>4, <2>1, n \in 1..n
  <2>2. CASE n < m
    BY <1>4, <2>2, m \in 1..m
  <2> QED
    BY <1>4, <2>1, <2>2
<1> QED
  BY <1>5 DEF m

\* A sequence of no places is the empty one.
LEMMA NoPlaces ==
    ASSUME NEW s, s = [i \in 1..0 |-> s[i]]
    PROVE  s = << >> /\ DOMAIN s = {}
<1>1. 1..0 = {}
  OBVIOUS
<1> QED
  BY <1>1

\* A cell of a column that is added up, of one row.
LEMMA CellIsAmount ==
    ASSUME NEW names, NEW row, NEW c \in AmountColumns, IsSequence(names), IsSequence(row),
           \A j \in DOMAIN row \intersect DOMAIN names :
               names[j] \in AmountColumns => IsAmount(row[j])
    PROVE  IsAmount(Get(RowDict(names, row), c))
<1> DEFINE n == Min({Len(names), Len(row)})
           places == {i \in 1..n : names[i] = c}
<1>1. /\ DOMAIN names = 1..Len(names) /\ DOMAIN row = 1..Len(row)
      /\ Len(names) \in Nat /\ Len(row) \in Nat
  BY DEF IsSequence
<1>2. n \in Nat /\ n <= Len(names) /\ n <= Len(row)
  BY <1>1 DEF Min
<1>3. RowDict(names, row) = [d \in {names[i] : i \in 1..n} |-> row[Max({i \in 1..n : names[i] = d})]]
  BY DEF RowDict
<1>4. CASE c \in {names[i] : i \in 1..n}
  <2>1. places # {} /\ places \in SUBSET (1..n)
    BY <1>4
  <2>2. Max(places) \in places
    <3> HIDE DEF places, n
    <3> QED
      BY <1>2, <2>1, PlacesHaveMax
  <2>3. Get(RowDict(names, row), c) = row[Max(places)]
    BY <1>3, <1>4 DEF Get
  <2>4. \A i \in 1..n : i \in DOMAIN row \intersect DOMAIN names
    BY <1>1, <1>2
  <2>5. IsAmount(row[Max(places)])
    <3> DEFINE m == Max(places)
    <3>1. m \in 1..n /\ names[m] = c
      BY <2>2
    <3> HIDE DEF m, n
    <3>2. IsAmount(row[m])
      BY <2>4, <3>1
    <3> QED
      BY <3>2 DEF m
  <2> QED
    BY <2>3, <2>5
<1>5. CASE c \notin {names[i] : i \in 1..n}
  BY <1>3, <1>5 DEF Get, IsAmount
<1> QED
  BY <1>4, <1>5

\* Rows come in a sequence, with numbers, None or Junk where amounts belong.
IsRows(rows, n) ==
    /\ n \in Nat /\ DOMAIN rows = 1..n
    /\ \A i \in 1..n : \A c \in AmountColumns : IsAmount(Get(rows[i], c))

\* The rows that are read are those of the body.
LEMMA RowsDelivered ==
    ASSUME CallInv, Done
    PROVE  IsRows(Delivered, CountDelivered)
<1> DEFINE body == wire.body
           table == body.data
           names == IF table.cols = None THEN << >> ELSE table.cols
<1>1. CASE ~HasRows(body)
  <2>1. Delivered = << >> /\ CountDelivered = 0 /\ 1..0 = {}
    BY <1>1 DEF Delivered, CountDelivered, Rows
  <2> QED
    BY <2>1 DEF IsRows
<1>2. CASE HasRows(body)
  <2>1. IsTable(table)
    BY <1>2, DoneFacts DEF IsWire
  <2>2. /\ Delivered = [i \in DOMAIN table.rows |-> RowDict(names, table.rows[i])]
        /\ CountDelivered = Len(table.rows)
    BY <1>2 DEF Delivered, CountDelivered, Rows
  <2>3. IsSequence(table.rows) /\ \A i \in DOMAIN table.rows : IsSequence(table.rows[i])
    BY <2>1 DEF IsTable
  <2>4. DOMAIN table.rows = 1..Len(table.rows) /\ Len(table.rows) \in Nat
    BY <2>3 DEF IsSequence
  <2>5. IsSequence(names)
    <3>1. CASE table.cols = None
      BY <3>1 DEF IsSequence
    <3>2. CASE table.cols # None
      BY <2>1, <3>2 DEF IsTable
    <3> QED
      BY <3>1, <3>2
  <2>6. ASSUME NEW i \in DOMAIN table.rows, NEW j \in DOMAIN table.rows[i] \intersect DOMAIN names,
               names[j] \in AmountColumns
        PROVE  IsAmount(table.rows[i][j])
    <3>1. CASE table.cols = None
      BY <2>6, <3>1
    <3>2. CASE table.cols # None
      BY <2>1, <2>6, <3>2 DEF IsTable
    <3> QED
      BY <3>1, <3>2
  <2>7. ASSUME NEW i \in DOMAIN table.rows, NEW c \in AmountColumns
        PROVE  IsAmount(Get(RowDict(names, table.rows[i]), c))
    <3> HIDE DEF names, table
    <3> QED
      BY <2>3, <2>5, <2>6, CellIsAmount
  <2> HIDE DEF names, table
  <2> QED
    BY <2>2, <2>4, <2>7 DEF IsRows
<1> QED
  BY <1>1, <1>2
-----------------------------------------------------------------------------
(***************************************************************************)
(* The RPCs that return what each row says.                                *)
(***************************************************************************)
LEMMA ListHasItsRows ==
    ASSUME NEW list, NEW n, NEW rows, IsRows(rows, n), list = [i \in DOMAIN rows |-> list[i]]
    PROVE  DOMAIN list = 1..n /\ Len(list) = n
<1>1. n \in Nat /\ DOMAIN list = 1..n /\ list = [i \in 1..n |-> list[i]]
  BY DEF IsRows
<1>2. Len(list) = n
  <2> DEFINE s == list
  <2>1. DOMAIN s = 1..n /\ s = [i \in 1..n |-> s[i]]
    BY <1>1
  <2> HIDE DEF s
  <2>2. Len(s) = n
    BY <1>1, <2>1, SequenceLength
  <2> QED
    BY <2>2 DEF s
<1> QED
  BY <1>1, <1>2

\* What each of them returns, by the place of a row.
LEMMA ListData ==
    ASSUME CallInv, Done, rpc \in ListRpcs
    PROVE  data = [i \in DOMAIN Delivered |-> data[i]]
<1>1. data = Data(rpc, wire.body)
  BY DoneFacts
<1>2. CASE rpc = "top_partners"
  BY <1>1, <1>2 DEF Data, Delivered, TopPartners
<1>3. CASE rpc = "partner_revenue"
  BY <1>1, <1>3 DEF Data, Delivered, PartnerRevenue, Each
<1>4. CASE rpc = "upsell_opportunities"
  BY <1>1, <1>4 DEF Data, Delivered, UpsellOpportunities, Each
<1>5. CASE rpc = "license_query"
  BY <1>1, <1>5 DEF Data, Delivered, LicenseQuery, Each
<1>6. CASE rpc = "data_quality_signals"
  BY <1>1, <1>6 DEF Data, Delivered, DataQualitySignals, Each
<1> QED
  BY <1>2, <1>3, <1>4, <1>5, <1>6 DEF ListRpcs

\* A partner of the answer is made of the row in its place.
LEMMA PartnersByPlace ==
    ASSUME CallInv, Done, rpc = "top_partners", NEW i \in DOMAIN data
    PROVE  /\ i \in DOMAIN Delivered
           /\ data[i].rank = Or(Get(Delivered[i], "rank"), i)
           /\ data[i].net_revenue = GetOr(Delivered[i], "net_revenue", 0)
<1>1. data = TopPartners(Delivered)
  BY DoneFacts DEF Data, Delivered
<1> QED
  BY <1>1 DEF TopPartners

\* Every row of a card reaches the consumer: lists have one element for each
\* row, in order, execute_sql() hands the rows on and counts them, and the
\* ranks a card does not give are the places (rpcs/top_partners.py and the
\* other list RPCs, rpcs/execute_sql.py).
THEOREM RowsAlwaysKept == Spec => []RowsAreKept
<1>1. ASSUME CallInv PROVE EveryRowIsThere
  <2> SUFFICES ASSUME Done, rpc \in ListRpcs PROVE Len(data) = CountDelivered
    BY DEF EveryRowIsThere
  <2>1. IsRows(Delivered, CountDelivered) /\ data = [i \in DOMAIN Delivered |-> data[i]]
    BY <1>1, RowsDelivered, ListData
  <2> QED
    BY <2>1, ListHasItsRows
<1>2. ASSUME CallInv PROVE SqlCountsItsRows
  <2> SUFFICES ASSUME Done, rpc = "execute_sql"
               PROVE  /\ Len(data.rows) = CountDelivered
                      /\ data.row_count \in {Len(data.rows)} \union ({wire.body.row_count} \ {None, 0})
    BY DEF SqlCountsItsRows
  <2>1. data = SqlResult(wire.body)
    BY <1>2, DoneFacts DEF Data
  <2>2. Len(data.rows) = CountDelivered
    <3>1. CASE HasRows(wire.body)
      BY <2>1, <3>1 DEF SqlResult, CountDelivered
    <3>2. CASE ~HasRows(wire.body)
      <4>1. data.rows = << >> /\ CountDelivered = 0
        BY <2>1, <3>2 DEF SqlResult, CountDelivered
      <4> QED
        BY <4>1
    <3> QED
      BY <3>1, <3>2
  <2>3. data.row_count = Or(wire.body.row_count, CountDelivered)
    BY <2>1 DEF SqlResult, CountDelivered
  <2> QED
    BY <2>2, <2>3 DEF Or
<1>3. ASSUME CallInv PROVE RanksFollowTheRows
  <2> SUFFICES ASSUME Done, rpc = "top_partners",
                      \A j \in DOMAIN Delivered : Get(Delivered[j], "rank") \in {None, 0, j},
                      NEW i \in DOMAIN data
               PROVE  data[i].rank = i
    BY DEF RanksFollowTheRows
  <2>1. i \in DOMAIN Delivered /\ data[i].rank = Or(Get(Delivered[i], "rank"), i)
    BY <1>3, PartnersByPlace
  <2> QED
    BY <2>1 DEF Or
<1>4. CallInv => RowsAreKept
  BY <1>1, <1>2, <1>3 DEF RowsAreKept
<1> QED
  BY <1>4, CallAlways, PTL

\* strip() and upper() leave the word of a text, whatever its spelling.
LEMMA SpellingIsIgnored ==
    ASSUME NEW v, NEW words
    PROVE  IsOneOf(v, words) <=> Says(v, words)
<1>1. Upper(Strip(v)) = Plain(v.word)
  BY DEF Upper, Strip, Plain
<1>2. \A w1, w2 : Plain(w1) = Plain(w2) => w1 = w2
  BY DEF Plain
<1> QED
  BY <1>1, <1>2 DEF IsOneOf, Says

\* So the severity of a text is that of its word.
LEMMA SeverityOfWord ==
    ASSUME NEW v
    PROVE  /\ CoerceStatus(v) = "OK" <=> Says(v, {"OK", "PASS"})
           /\ CoerceStatus(v) = "ACTION" <=> Says(v, {"ACTION", "FAIL"})
<1>1. ~(Says(v, {"OK", "PASS"}) /\ Says(v, {"ACTION", "FAIL"}))
  BY DEF Says
<1> QED
  BY <1>1, SpellingIsIgnored DEF CoerceStatus

\* A check is in order, or an alarm, exactly if the card says so, however it is
\* spelt (rpcs/data_quality_signals.py).
THEOREM AlarmsAlwaysKept == Spec => []AlarmsAreKept
<1>1. ASSUME CallInv PROVE AlarmsAreKept
  <2>1. ASSUME Done, rpc = "data_quality_signals", NEW i \in DOMAIN data
        PROVE  data[i].status = CoerceStatus(Get(Delivered[i], "status"))
    <3>1. data = DataQualitySignals(Delivered)
      BY <1>1, <2>1, DoneFacts DEF Data, Delivered
    <3> QED
      BY <2>1, <3>1 DEF DataQualitySignals, Each, Check
  <2> QED
    BY <2>1, SeverityOfWord DEF AlarmsAreKept
<1> QED
  BY <1>1, CallAlways, PTL
-----------------------------------------------------------------------------
(***************************************************************************)
(* The sums over the rows.                                                 *)
(***************************************************************************)
LEMMA TotalIsTableSum ==
    ASSUME NEW f
    PROVE  Total(f) = TableSum(f)
BY DEF Total, TableSum

\* FoldRight takes the first place first.
FirstPlaces(n) == [s \in SUBSET (1..n) |-> Min(s)]

\* r.get(c1) or r.get(c2) or ... or 0 is one of the cells, or 0, and never null.
LEMMA AmountAmong ==
    ASSUME NEW row, NEW columns, NEW n \in Nat, DOMAIN columns = 1..n, NEW V, 0 \in V,
           \A i \in 1..n : Get(row, columns[i]) \in V \union {None}
    PROVE  Amount(row, columns) \in V
<1> DEFINE S == 1..n
           pick == [s \in SUBSET S |-> Min(s)]
           step == [p \in S \X V |-> Or(Get(row, columns[p[1]]), p[2])]
           Eq(h) == [s \in SUBSET S |->
                       IF s = {} THEN 0 ELSE Or(Get(row, columns[Min(s)]), h[s \ {Min(s)}])]
           c == CHOOSE h : h = Eq(h)
<1>1. Foldable(S, V, 0, pick, step)
  <2>1. \A s \in SUBSET S : s # {} => pick[s] \in s
    BY PlacesHaveMin
  <2>2. step \in [S \X V -> V]
    BY DEF Or
  <2>3. IsFiniteSet(S) /\ 0 \in V
    BY FS_Interval
  <2> HIDE DEF step, pick, S
  <2> QED
    BY <2>1, <2>2, <2>3 DEF Foldable
<1>2. PICK g : Folds(g, S, V, 0, pick, step)
  <2> HIDE DEF step, pick, S
  <2> QED
    BY <1>1, FoldExists
<1>3. ASSUME NEW s \in SUBSET S, s # {}, NEW h, h[s \ {pick[s]}] \in V
      PROVE  step[<<pick[s], h[s \ {pick[s]}]>>] = Or(Get(row, columns[Min(s)]), h[s \ {Min(s)}])
  <2>1. pick[s] = Min(s) /\ pick[s] \in S
    BY <1>3, PlacesHaveMin
  <2>2. <<pick[s], h[s \ {pick[s]}]>> \in S \X V
    BY <1>3, <2>1
  <2> HIDE DEF pick, S
  <2> QED
    BY <2>1, <2>2
<1>4. /\ g \in [SUBSET S -> V]
      /\ \A s \in SUBSET S :
            g[s] = IF s = {} THEN 0 ELSE Or(Get(row, columns[Min(s)]), g[s \ {Min(s)}])
  <2>1. g \in [SUBSET S -> V]
    BY <1>2 DEF Folds
  <2>2. \A s \in SUBSET S : g[s \ {pick[s]}] \in V
    BY <2>1
  <2>3. \A s \in SUBSET S :
            g[s] = IF s = {} THEN 0 ELSE step[<<pick[s], g[s \ {pick[s]}]>>]
    BY <1>2 DEF Folds
  <2> HIDE DEF step, pick, S
  <2> QED
    BY <1>3, <2>1, <2>2, <2>3
<1>5. c = Eq(c)
  <2>1. g = Eq(g)
    <3> HIDE DEF S
    <3> QED
      BY <1>4
  <2> HIDE DEF Eq
  <2> QED
    BY <2>1
<1>6. Follows(c, S, V, 0, pick, step)
  <2> HIDE DEF c, S
  <2>1. c[{}] = 0
    BY <1>5
  <2>2. \A s \in SUBSET S : s # {} => c[s] = Or(Get(row, columns[Min(s)]), c[s \ {Min(s)}])
    BY <1>5
  <2> HIDE DEF step, pick
  <2>3. ASSUME NEW s \in SUBSET S, s # {}, c[s \ {pick[s]}] \in V
        PROVE  c[s] = step[<<pick[s], c[s \ {pick[s]}]>>]
    BY <1>3, <2>2, <2>3
  <2> QED
    BY <2>1, <2>3 DEF Follows
<1>7. \A s \in SUBSET S : c[s] = g[s]
  <2> HIDE DEF c, step, pick, S
  <2> QED
    BY <1>1, <1>2, <1>6, FoldUnique
<1>8. Amount(row, columns) = c[S]
  BY DEF Amount, FoldRight, MapThenFoldSet
<1> HIDE DEF c, S
<1>9. c[S] \in V
  BY <1>4, <1>7
<1> QED
  BY <1>8, <1>9

\* So it is a number or Junk where the cells are,
LEMMA AmountNumber ==
    ASSUME NEW row, NEW columns, NEW n \in Nat, DOMAIN columns = 1..n,
           \A i \in 1..n : IsAmount(Get(row, columns[i]))
    PROVE  Amount(row, columns) \in Int \union {Junk}
<1> DEFINE V == Int \union {Junk}
<1>1. 0 \in V /\ \A i \in 1..n : Get(row, columns[i]) \in V \union {None}
  BY DEF IsAmount
<1> HIDE DEF V
<1>2. Amount(row, columns) \in V
  BY <1>1, AmountAmong
<1> QED
  BY <1>2 DEF V

\* and Junk only where a cell is.
LEMMA AmountReadable ==
    ASSUME NEW row, NEW columns, NEW n \in Nat, DOMAIN columns = 1..n,
           \A i \in 1..n : Get(row, columns[i]) # Junk
    PROVE  Amount(row, columns) # Junk
<1> DEFINE V == {0} \union {Get(row, columns[i]) : i \in 1..n}
<1>1. 0 \in V /\ \A i \in 1..n : Get(row, columns[i]) \in V \union {None}
  OBVIOUS
<1>2. Junk \notin V
  BY NumbersAssumption
<1> HIDE DEF V
<1>3. Amount(row, columns) \in V
  BY <1>1, AmountAmong
<1> QED
  BY <1>2, <1>3

\* The sum of one amount,
LEMMA AmountOfOne ==
    ASSUME NEW row, NEW c, IsAmount(Get(row, c))
    PROVE  Amount(row, <<c>>) \in Int \union {Junk}
<1> DEFINE columns == <<c>>
<1>1. DOMAIN columns = 1..1 /\ \A i \in 1..1 : columns[i] = c
  OBVIOUS
<1> HIDE DEF columns
<1>2. Amount(row, columns) \in Int \union {Junk}
  BY <1>1, AmountNumber, 1 \in Nat
<1> QED
  BY <1>2 DEF columns

\* and of two.
LEMMA AmountOfTwo ==
    ASSUME NEW row, NEW c, NEW d, IsAmount(Get(row, c)), IsAmount(Get(row, d))
    PROVE  Amount(row, <<c, d>>) \in Int \union {Junk}
<1> DEFINE columns == <<c, d>>
<1>1. DOMAIN columns = 1..2 /\ \A i \in 1..2 : columns[i] = c \/ columns[i] = d
  OBVIOUS
<1> HIDE DEF columns
<1>2. Amount(row, columns) \in Int \union {Junk}
  BY <1>1, AmountNumber, 2 \in Nat
<1> QED
  BY <1>2 DEF columns

-----------------------------------------------------------------------------
(***************************************************************************)
(* arr_at_risk                                                             *)
(***************************************************************************)
LEMMA BucketNumber ==
    ASSUME NEW rows, NEW n, IsRows(rows, n), ~ArrAtRiskRaises(rows), NEW i \in 1..n
    PROVE  Bucket(rows[i]).arr \in Int
<1>1. IsAmount(Get(rows[i], "arr")) /\ IsAmount(Get(rows[i], "arr_at_risk"))
  BY DEF IsRows, AmountColumns
<1>2. Amount(rows[i], <<"arr", "arr_at_risk">>) \in Int \union {Junk}
  BY <1>1, AmountOfTwo
<1>3. Bucket(rows[i]).arr # Junk
  BY DEF IsRows, ArrAtRiskRaises, Some
<1>4. Bucket(rows[i]).arr = Amount(rows[i], <<"arr", "arr_at_risk">>)
  BY DEF Bucket
<1> QED
  BY <1>2, <1>3, <1>4

\* sum(b.arr for b in breakdown), as it is added up.
LEMMA ArrPrefixes ==
    ASSUME NEW rows, NEW n \in Nat, DOMAIN rows = 1..n, NEW f, Amounts(f, 1..n),
           \A i \in 1..n : f[i] = Bucket(rows[i]).arr
    PROVE  \E h : FoldPrefixes(h, n, Int, 0, Plus(f, n)) /\ h[n] = ArrAtRisk(rows).total_arr_at_risk
<1> DEFINE S == 1..n
           pick == LastPlaces(n)
           step == Plus(f, n)
           Eq(h) == [s \in SUBSET S |->
                       IF s = {} THEN 0 ELSE h[s \ {Max(s)}] + Bucket(rows[Max(s)]).arr]
           c == CHOOSE h : h = Eq(h)
<1>1. Steps(n, Int, 0, step)
  BY DEF Steps, Plus, Amounts
<1>2. PICK g : Folds(g, S, Int, 0, pick, step)
  <2>1. Foldable(S, Int, 0, pick, step)
    BY <1>1, StepsFold
  <2> HIDE DEF S, pick, step
  <2> QED
    BY <2>1, FoldExists
<1>3. ASSUME NEW s \in SUBSET S, s # {}, NEW h, h[s \ {pick[s]}] \in Int
      PROVE  step[<<pick[s], h[s \ {pick[s]}]>>] = h[s \ {Max(s)}] + Bucket(rows[Max(s)]).arr
  <2>1. pick[s] = Max(s) /\ pick[s] \in S
    BY <1>3, PlacesHaveMax DEF LastPlaces
  <2>2. <<pick[s], h[s \ {pick[s]}]>> \in S \X Int
    BY <1>3, <2>1
  <2>3. f[pick[s]] = Bucket(rows[pick[s]]).arr
    BY <2>1
  <2> HIDE DEF pick
  <2> QED
    BY <2>1, <2>2, <2>3 DEF Plus
<1>4. g = Eq(g)
  <2>1. g \in [SUBSET S -> Int]
    BY <1>2 DEF Folds
  <2>2. \A s \in SUBSET S : g[s \ {pick[s]}] \in Int
    BY <2>1
  <2>3. \A s \in SUBSET S :
            g[s] = IF s = {} THEN 0 ELSE step[<<pick[s], g[s \ {pick[s]}]>>]
    BY <1>2 DEF Folds
  <2> HIDE DEF step, pick, S
  <2> QED
    BY <1>3, <2>1, <2>2, <2>3
<1>5. c = Eq(c)
  <2> HIDE DEF Eq
  <2> QED
    BY <1>4
<1>6. Follows(c, S, Int, 0, pick, step)
  <2> HIDE DEF c, S
  <2>1. c[{}] = 0
    BY <1>5
  <2>2. \A s \in SUBSET S : s # {} => c[s] = c[s \ {Max(s)}] + Bucket(rows[Max(s)]).arr
    BY <1>5
  <2> HIDE DEF step, pick
  <2>3. ASSUME NEW s \in SUBSET S, s # {}, c[s \ {pick[s]}] \in Int
        PROVE  c[s] = step[<<pick[s], c[s \ {pick[s]}]>>]
    BY <1>3, <2>2, <2>3
  <2> QED
    BY <2>1, <2>3 DEF Follows
<1>7. \E h : FoldPrefixes(h, n, Int, 0, step) /\ h[n] = c[1..n]
  <2> HIDE DEF c, step
  <2> QED
    BY <1>1, <1>2, <1>6, FoldHasPrefixes
<1>8. ArrAtRisk(rows).total_arr_at_risk = c[S]
  BY DEF ArrAtRisk, FoldLeft, MapThenFoldSet
<1> HIDE DEF c
<1> QED
  BY <1>7, <1>8

\* The buckets of arr_at_risk add up to the rows.
LEMMA ArrAlwaysAddsUp ==
    ASSUME CallInv
    PROVE  ArrAddsUp
<1> SUFFICES ASSUME Done, rpc = "arr_at_risk" PROVE ArrAddsUp
  BY DEF ArrAddsUp
<1> DEFINE rows == Delivered
           n == CountDelivered
           f == [i \in 1..n |-> Bucket(rows[i]).arr]
<1>1. data = ArrAtRisk(rows) /\ ~ArrAtRiskRaises(rows) /\ IsRows(rows, n)
  BY DoneFacts, RowsDelivered DEF Data, Raises, Delivered
<1> HIDE DEF rows, n
<1>2. n \in Nat /\ DOMAIN rows = 1..n
  BY <1>1 DEF IsRows
<1>3. Amounts(f, 1..n)
  <2>1. \A i \in 1..n : Bucket(rows[i]).arr \in Int
    BY <1>1, BucketNumber
  <2> QED
    BY <1>2, <2>1, FS_Interval DEF Amounts
<1>4. data.total_arr_at_risk = TableSum(f)
  <2>1. \A i \in 1..n : f[i] = Bucket(rows[i]).arr
    OBVIOUS
  <2> HIDE DEF f
  <2>2. PICK h : FoldPrefixes(h, n, Int, 0, Plus(f, n)) /\ h[n] = ArrAtRisk(rows).total_arr_at_risk
    BY <1>2, <1>3, <2>1, ArrPrefixes
  <2> QED
    BY <1>1, <1>2, <1>3, <2>2, PrefixesAddUp
<1>5. [i \in DOMAIN data.breakdown |-> data.breakdown[i].arr] = f
  BY <1>1, <1>2 DEF ArrAtRisk, Each
<1>6. SumOver(DOMAIN data.breakdown, LAMBDA i : data.breakdown[i].arr) = TableSum(f)
  <2>1. Total([i \in DOMAIN data.breakdown |-> data.breakdown[i].arr]) = TableSum(f)
    BY <1>5, TotalIsTableSum
  <2> QED
    BY <2>1 DEF SumOver
<1> QED
  BY <1>4, <1>6 DEF ArrAddsUp
-----------------------------------------------------------------------------
(***************************************************************************)
(* mrr_trend                                                               *)
(***************************************************************************)
\* The point of a day in a series, empty before its first row.
PointOf(series, day) == IF day \in DOMAIN series THEN series[day] ELSE NewPoint

\* A point of the series, with customer types of C and partner types of P.
Points(C, P) ==
    [mrr : Int, by_customer_type : Tables(C, Int), by_partner_type : Tables(P, Int)]

\* AddTo adds an amount to the sum of its table, unless the key is null.
LEMMA AddToFacts ==
    ASSUME NEW C, IsFiniteSet(C), NEW table \in Tables(C, Int), NEW key \in C, NEW amount \in Int
    PROVE  /\ AddTo(table, key, amount) \in Tables(C, Int)
           /\ TableSum(AddTo(table, key, amount)) =
                  TableSum(table) + (IF key = None THEN 0 ELSE amount)
<1>1. TableSum(table) \in Int
  <2>1. DOMAIN table \in SUBSET C /\ table \in [DOMAIN table -> Int]
    BY TableType
  <2>2. Amounts(table, DOMAIN table)
    BY <2>1, FS_Subset DEF Amounts
  <2> QED
    BY <2>2, TableSumNumber
<1>2. CASE key = None
  BY <1>1, <1>2 DEF AddTo
<1>3. CASE key # None
  <2> DEFINE new == At(table, key) + amount
             u == AddTo(table, key, amount)
  <2>1. new = (IF key \in DOMAIN table THEN table[key] ELSE 0) + amount
    BY DEF At
  <2>2. new \in Int
    <3>1. table \in [DOMAIN table -> Int]
      BY TableType
    <3> QED
      BY <2>1, <3>1
  <2>3. Puts(u, table, key, new)
    BY <1>3 DEF AddTo, Put, Puts
  <2> HIDE DEF new, u
  <2>4. u \in Tables(C, Int)
    BY <2>2, <2>3, TablePut
  <2>5. TableSum(u) = TableSum(table) + amount
    BY <2>1, <2>2, <2>3, TableSumPut
  <2> QED
    BY <1>3, <2>4, <2>5 DEF u
<1> QED
  BY <1>2, <1>3

\* The point of a day, or a new one, has its type.
LEMMA PointType ==
    ASSUME NEW K, NEW C, NEW P, NEW series \in Tables(K, Points(C, P)), NEW day
    PROVE  PointOf(series, day) \in Points(C, P)
<1>1. series \in [DOMAIN series -> Points(C, P)]
  BY TableType
<1>2. NewPoint \in Points(C, P)
  <2>1. << >> \in Tables(C, Int) /\ << >> \in Tables(P, Int)
    BY EmptyTable
  <2> QED
    BY <2>1 DEF NewPoint, Points
<1> QED
  BY <1>1, <1>2 DEF PointOf

\* What one row with a month does to the series.
AddsPoint(new, series, row) ==
    LET day == Day(Month(row))
        old == PointOf(series, day)
    IN  /\ DOMAIN new = DOMAIN series \union {day}
        /\ \A d : d # day => PointOf(new, d) = PointOf(series, d)
        /\ PointOf(new, day).mrr = old.mrr + Contribution(row)
        /\ PointOf(new, day).by_customer_type =
               AddTo(old.by_customer_type, Get(row, "customer_type"), Contribution(row))
        /\ PointOf(new, day).by_partner_type =
               AddTo(old.by_partner_type, Get(row, "partner_type"), Contribution(row))

\* AddPoint keeps the type of the series and adds the row to its day's point.
LEMMA AddPointFacts ==
    ASSUME NEW K, NEW C, NEW P, IsFiniteSet(C), IsFiniteSet(P),
           NEW series \in Tables(K, Points(C, P)), NEW row,
           Month(row) # None, Day(Month(row)) \in K, Contribution(row) \in Int,
           Get(row, "customer_type") \in C, Get(row, "partner_type") \in P
    PROVE  /\ AddPoint(series, row) \in Tables(K, Points(C, P))
           /\ AddsPoint(AddPoint(series, row), series, row)
<1> DEFINE day == Day(Month(row))
           new == AddPoint(series, row)
           old == PointOf(series, day)
           c   == Contribution(row)
           point == [mrr |-> old.mrr + c,
                     by_customer_type |-> AddTo(old.by_customer_type, Get(row, "customer_type"), c),
                     by_partner_type  |-> AddTo(old.by_partner_type, Get(row, "partner_type"), c)]
<1>1. Puts(new, series, day, point)
  BY DEF AddPoint, Puts, Put, PointOf
<1>2. old \in Points(C, P)
  BY PointType
<1>3. point \in Points(C, P)
  <2> HIDE DEF old, c, day, new
  <2>1. old.mrr \in Int /\ old.by_customer_type \in Tables(C, Int) /\ old.by_partner_type \in Tables(P, Int)
    BY <1>2 DEF Points
  <2>2. c \in Int
    BY DEF c
  <2>3. /\ AddTo(old.by_customer_type, Get(row, "customer_type"), c) \in Tables(C, Int)
        /\ AddTo(old.by_partner_type, Get(row, "partner_type"), c) \in Tables(P, Int)
    BY <2>1, <2>2, AddToFacts
  <2>4. old.mrr + c \in Int
    BY <2>1, <2>2
  <2> QED
    BY <2>3, <2>4 DEF Points
<1>4. new \in Tables(K, Points(C, P))
  <2> HIDE DEF new, point
  <2>1. day \in K
    OBVIOUS
  <2> HIDE DEF day
  <2> QED
    BY <1>1, <1>3, <2>1, TablePut
<1>5. DOMAIN new = DOMAIN series \union {day} /\ PointOf(new, day) = point
      /\ \A d : d # day => PointOf(new, d) = PointOf(series, d)
  <2> HIDE DEF new, point, day
  <2> QED
    BY <1>1 DEF Puts, PointOf
<1>6. /\ PointOf(new, day).mrr = old.mrr + c
      /\ PointOf(new, day).by_customer_type = AddTo(old.by_customer_type, Get(row, "customer_type"), c)
      /\ PointOf(new, day).by_partner_type = AddTo(old.by_partner_type, Get(row, "partner_type"), c)
  <2> HIDE DEF new, day, old, c
  <2> QED
    BY <1>5
<1>7. AddsPoint(new, series, row)
  <2> HIDE DEF point, new
  <2> QED
    BY <1>5, <1>6 DEF AddsPoint
<1> QED
  BY <1>4, <1>7

\* Rows that mrr_trend() can add up, with their days in K and types in C and P.
IsTrend(rows, n, K, C, P) ==
    /\ n \in Nat /\ DOMAIN rows = 1..n /\ IsFiniteSet(C) /\ IsFiniteSet(P)
    /\ \A i \in 1..n : Month(rows[i]) # None => Day(Month(rows[i])) \in K
                                               /\ Contribution(rows[i]) \in Int
    /\ \A i \in 1..n : Get(rows[i], "customer_type") \in C /\ Get(rows[i], "partner_type") \in P

\* The fold of mrr_trend, as steps from row to row.
Adds(rows, n, V) == [p \in (1..n) \X V |-> AddPoint(p[2], rows[p[1]])]

\* Its steps have their types.
LEMMA TrendSteps ==
    ASSUME NEW rows, NEW n, NEW K, NEW C, NEW P, IsTrend(rows, n, K, C, P), NEW V, V = Tables(K, Points(C, P))
    PROVE  Steps(n, V, << >>, Adds(rows, n, V))
<1>1. ASSUME NEW i \in 1..n, NEW series \in V PROVE AddPoint(series, rows[i]) \in V
  <2>1. CASE Month(rows[i]) = None
    BY <2>1 DEF AddPoint
  <2>2. CASE Month(rows[i]) # None
    <3>1. /\ Day(Month(rows[i])) \in K /\ Contribution(rows[i]) \in Int
          /\ Get(rows[i], "customer_type") \in C /\ Get(rows[i], "partner_type") \in P
          /\ IsFiniteSet(C) /\ IsFiniteSet(P)
      BY <2>2 DEF IsTrend
    <3>2. AddPoint(series, rows[i]) \in Tables(K, Points(C, P))
      BY <2>2, <3>1, AddPointFacts
    <3> QED
      BY <3>2
  <2> QED
    BY <2>1, <2>2
<1>2. Adds(rows, n, V) \in [(1..n) \X V -> V]
  BY <1>1 DEF Adds
<1>3. << >> \in V
  BY EmptyTable
<1>4. n \in Nat
  BY DEF IsTrend
<1> QED
  BY <1>2, <1>3, <1>4 DEF Steps

\* And its prefixes are those of the fold the RPC computes.
LEMMA TrendPrefixes ==
    ASSUME NEW rows, NEW n, NEW K, NEW C, NEW P, IsTrend(rows, n, K, C, P), NEW V, V = Tables(K, Points(C, P))
    PROVE  \E h : FoldPrefixes(h, n, V, << >>, Adds(rows, n, V)) /\ h[n] = MrrTrend(rows)
<1> DEFINE S == 1..n
           pick == LastPlaces(n)
           step == Adds(rows, n, V)
           Eq(h) == [s \in SUBSET S |->
                       IF s = {} THEN << >> ELSE AddPoint(h[s \ {Max(s)}], rows[Max(s)])]
           c == CHOOSE h : h = Eq(h)
<1>0. n \in Nat /\ DOMAIN rows = 1..n
  BY DEF IsTrend
<1>1. Steps(n, V, << >>, step)
  BY TrendSteps
<1>2. PICK g : Folds(g, S, V, << >>, pick, step)
  <2>1. Foldable(S, V, << >>, pick, step)
    BY <1>1, StepsFold
  <2> HIDE DEF S, pick, step
  <2> QED
    BY <2>1, FoldExists
<1>3. ASSUME NEW s \in SUBSET S, s # {}, NEW h, h[s \ {pick[s]}] \in V
      PROVE  step[<<pick[s], h[s \ {pick[s]}]>>] = AddPoint(h[s \ {Max(s)}], rows[Max(s)])
  <2>1. pick[s] = Max(s) /\ pick[s] \in S
    BY <1>0, <1>3, PlacesHaveMax DEF LastPlaces
  <2>2. <<pick[s], h[s \ {pick[s]}]>> \in S \X V
    BY <1>3, <2>1
  <2> HIDE DEF pick
  <2> QED
    BY <2>1, <2>2 DEF Adds
<1>4. g = Eq(g)
  <2>1. g \in [SUBSET S -> V]
    BY <1>2 DEF Folds
  <2>2. \A s \in SUBSET S : g[s \ {pick[s]}] \in V
    BY <2>1
  <2>3. \A s \in SUBSET S :
            g[s] = IF s = {} THEN << >> ELSE step[<<pick[s], g[s \ {pick[s]}]>>]
    BY <1>2 DEF Folds
  <2> HIDE DEF step, pick, S
  <2> QED
    BY <1>3, <2>1, <2>2, <2>3
<1>5. c = Eq(c)
  <2> HIDE DEF Eq
  <2> QED
    BY <1>4
<1>6. Follows(c, S, V, << >>, pick, step)
  <2> HIDE DEF c, S
  <2>1. c[{}] = << >>
    BY <1>5
  <2>2. \A s \in SUBSET S : s # {} => c[s] = AddPoint(c[s \ {Max(s)}], rows[Max(s)])
    BY <1>5
  <2> HIDE DEF step, pick
  <2>3. ASSUME NEW s \in SUBSET S, s # {}, c[s \ {pick[s]}] \in V
        PROVE  c[s] = step[<<pick[s], c[s \ {pick[s]}]>>]
    BY <1>3, <2>2, <2>3
  <2> QED
    BY <2>1, <2>3 DEF Follows
<1>7. \E h : FoldPrefixes(h, n, V, << >>, step) /\ h[n] = c[1..n]
  <2> HIDE DEF c, step
  <2> QED
    BY <1>1, <1>2, <1>6, FoldHasPrefixes
<1>8. MrrTrend(rows) = c[S]
  BY <1>0 DEF MrrTrend, FoldLeft, MapThenFoldSet
<1> HIDE DEF c
<1> QED
  BY <1>7, <1>8

\* After i rows every day has the sums of those of its rows that were read.
Dated(rows, n)     == {j \in 1..n : Month(rows[j]) # None}
OfDay(rows, n, d)  == {j \in 1..n : Month(rows[j]) # None /\ Day(Month(rows[j])) = d}
\* The places of the rows that have a type, and what each dated row adds.
WithType(rows, places, column) == {j \in places : Get(rows[j], column) # None}
Contributions(rows, n) == [j \in Dated(rows, n) |-> Contribution(rows[j])]

\* The invariant over the rows: after i of them, the point of a day and its two
\* tables hold the sums of those among the i rows that belong in them.
TrendUpTo(series, rows, n, i) ==
    /\ DOMAIN series = {Day(Month(rows[j])) : j \in Dated(rows, n) \intersect (1..i)}
    /\ \A d : /\ PointOf(series, d).mrr = UpTo(Contributions(rows, n), OfDay(rows, n, d), i)
              /\ TableSum(PointOf(series, d).by_customer_type) =
                     UpTo(Contributions(rows, n), WithType(rows, OfDay(rows, n, d), "customer_type"), i)
              /\ TableSum(PointOf(series, d).by_partner_type) =
                     UpTo(Contributions(rows, n), WithType(rows, OfDay(rows, n, d), "partner_type"), i)

\* What the rows add is a number each.
LEMMA ContributionAmounts ==
    ASSUME NEW rows, NEW n, NEW K, NEW C, NEW P, IsTrend(rows, n, K, C, P)
    PROVE  /\ n \in Nat /\ Dated(rows, n) \in SUBSET (1..n)
           /\ Amounts(Contributions(rows, n), Dated(rows, n))
           /\ \A d : OfDay(rows, n, d) \in SUBSET Dated(rows, n)
           /\ \A d, column : WithType(rows, OfDay(rows, n, d), column) \in SUBSET Dated(rows, n)
<1>1. n \in Nat
  BY DEF IsTrend
<1>2. Dated(rows, n) \in SUBSET (1..n)
  BY DEF Dated
<1>3. IsFiniteSet(Dated(rows, n))
  BY <1>1, <1>2, FS_Interval, FS_Subset
<1>4. \A j \in Dated(rows, n) : Contribution(rows[j]) \in Int
  BY DEF Dated, IsTrend
<1>5. Amounts(Contributions(rows, n), Dated(rows, n))
  BY <1>3, <1>4 DEF Amounts, Contributions
<1>6. \A d : OfDay(rows, n, d) \in SUBSET Dated(rows, n)
  BY DEF OfDay, Dated
<1>7. \A d, column : WithType(rows, OfDay(rows, n, d), column) \in SUBSET OfDay(rows, n, d)
  BY DEF WithType
<1> QED
  BY <1>1, <1>2, <1>5, <1>6, <1>7

\* The invariant holds of the empty series,
LEMMA TrendBegins ==
    ASSUME NEW rows, NEW n, NEW K, NEW C, NEW P, IsTrend(rows, n, K, C, P)
    PROVE  TrendUpTo(<< >>, rows, n, 0)
<1> DEFINE f == Contributions(rows, n)
<1>1. \A Q : UpTo(f, Q, 0) = 0
  <2> HIDE DEF f
  <2>1. Amounts(f, Dated(rows, n))
    BY ContributionAmounts DEF f
  <2> QED
    BY <2>1, UpToNone
<1>2. TableSum(<< >>) = 0
  <2>1. Amounts(<< >>, {})
    BY FS_EmptySet DEF Amounts
  <2> QED
    BY <2>1, TableSumEmpty
<1>3. \A d : PointOf(<< >>, d) = NewPoint
  BY DEF PointOf
<1>4. 1..0 = {}
  OBVIOUS
<1>5. DOMAIN << >> = {Day(Month(rows[j])) : j \in Dated(rows, n) \intersect (1..0)}
  BY <1>4
<1> QED
  BY <1>1, <1>2, <1>3, <1>5 DEF TrendUpTo, NewPoint

\* is kept by a row,
LEMMA TrendContinues ==
    ASSUME NEW rows, NEW n, NEW K, NEW C, NEW P, IsTrend(rows, n, K, C, P),
           NEW i \in 1..n, NEW series \in Tables(K, Points(C, P)), TrendUpTo(series, rows, n, i - 1)
    PROVE  TrendUpTo(AddPoint(series, rows[i]), rows, n, i)
<1> DEFINE f == Contributions(rows, n)
           new == AddPoint(series, rows[i])
           Of(d) == OfDay(rows, n, d)
           Typed(d, column) == WithType(rows, OfDay(rows, n, d), column)
           Days_(m) == {Day(Month(rows[j])) : j \in Dated(rows, n) \intersect (1..m)}
<1>1. /\ \A d : UpTo(f, Of(d), i) = UpTo(f, Of(d), i - 1) + (IF i \in Of(d) THEN f[i] ELSE 0)
      /\ \A d, column : UpTo(f, Typed(d, column), i) =
             UpTo(f, Typed(d, column), i - 1) + (IF i \in Typed(d, column) THEN f[i] ELSE 0)
      /\ \A d : UpTo(f, Of(d), i - 1) \in Int
      /\ \A d, column : UpTo(f, Typed(d, column), i - 1) \in Int
  <2>1. /\ n \in Nat /\ Dated(rows, n) \in SUBSET (1..n) /\ Amounts(f, Dated(rows, n))
        /\ \A d : Of(d) \in SUBSET Dated(rows, n)
        /\ \A d, column : Typed(d, column) \in SUBSET Dated(rows, n)
    BY ContributionAmounts
  <2> HIDE DEF f, Of, Typed
  <2> QED
    BY <2>1, UpToStep, UpToNumber
<1>2. /\ DOMAIN series = Days_(i - 1)
      /\ \A d : /\ PointOf(series, d).mrr = UpTo(f, Of(d), i - 1)
                /\ TableSum(PointOf(series, d).by_customer_type) = UpTo(f, Typed(d, "customer_type"), i - 1)
                /\ TableSum(PointOf(series, d).by_partner_type) = UpTo(f, Typed(d, "partner_type"), i - 1)
  BY DEF TrendUpTo
<1>3. /\ \A d : i \in Of(d) <=> Month(rows[i]) # None /\ Day(Month(rows[i])) = d
      /\ \A d, column : i \in Typed(d, column) <=> i \in Of(d) /\ Get(rows[i], column) # None
      /\ i \in Dated(rows, n) <=> Month(rows[i]) # None
      /\ i \in Dated(rows, n) => f[i] = Contribution(rows[i])
  BY DEF OfDay, WithType, Dated, Contributions
<1>4. 1..i = (1..(i - 1)) \union {i}
  BY DEF IsTrend
<1>5. CASE Month(rows[i]) = None
  <2>1. new = series
    BY <1>5 DEF AddPoint
  <2>2. Days_(i) = Days_(i - 1)
    BY <1>3, <1>4, <1>5
  <2>3. \A d : UpTo(f, Of(d), i) = UpTo(f, Of(d), i - 1)
    <3> HIDE DEF f, Of, Typed
    <3> QED
      BY <1>1, <1>3, <1>5
  <2>4. \A d, column : UpTo(f, Typed(d, column), i) = UpTo(f, Typed(d, column), i - 1)
    <3> HIDE DEF f, Of, Typed
    <3> QED
      BY <1>1, <1>3, <1>5
  <2> QED
    BY <1>2, <2>1, <2>2, <2>3, <2>4 DEF TrendUpTo
<1>6. CASE Month(rows[i]) # None
  <2> DEFINE day == Day(Month(rows[i]))
             old == PointOf(series, day)
             c == Contribution(rows[i])
  <2>1. /\ DOMAIN new = DOMAIN series \union {day}
        /\ \A d : d # day => PointOf(new, d) = PointOf(series, d)
        /\ PointOf(new, day).mrr = old.mrr + c
        /\ PointOf(new, day).by_customer_type = AddTo(old.by_customer_type, Get(rows[i], "customer_type"), c)
        /\ PointOf(new, day).by_partner_type = AddTo(old.by_partner_type, Get(rows[i], "partner_type"), c)
    <3>1. /\ Day(Month(rows[i])) \in K /\ Contribution(rows[i]) \in Int
          /\ Get(rows[i], "customer_type") \in C /\ Get(rows[i], "partner_type") \in P
          /\ IsFiniteSet(C) /\ IsFiniteSet(P)
      BY <1>6 DEF IsTrend
    <3>2. AddsPoint(new, series, rows[i])
      BY <1>6, <3>1, AddPointFacts
    <3> HIDE DEF new
    <3> QED
      BY <3>2 DEF AddsPoint
  <2>2. old \in Points(C, P)
    BY PointType
  <2>3. /\ TableSum(PointOf(new, day).by_customer_type) =
               TableSum(old.by_customer_type) + (IF Get(rows[i], "customer_type") = None THEN 0 ELSE c)
        /\ TableSum(PointOf(new, day).by_partner_type) =
               TableSum(old.by_partner_type) + (IF Get(rows[i], "partner_type") = None THEN 0 ELSE c)
    <3>1. /\ c \in Int
          /\ Get(rows[i], "customer_type") \in C /\ Get(rows[i], "partner_type") \in P
          /\ IsFiniteSet(C) /\ IsFiniteSet(P)
      BY <1>6 DEF IsTrend
    <3> HIDE DEF old, c, new, day
    <3>2. old.by_customer_type \in Tables(C, Int) /\ old.by_partner_type \in Tables(P, Int)
      BY <2>2 DEF Points
    <3> QED
      BY <2>1, <3>1, <3>2, AddToFacts
  <2>4. Days_(i) = Days_(i - 1) \union {day}
    BY <1>3, <1>4, <1>6
  <2>5. f[i] = c /\ i \in Of(day) /\ (\A d : d # day => i \notin Of(d))
        /\ (\A d, column : d # day => i \notin Typed(d, column))
        /\ (\A column : i \in Typed(day, column) <=> Get(rows[i], column) # None)
    <3> HIDE DEF f, Of, Typed
    <3> QED
      BY <1>3, <1>6
  <2> HIDE DEF f, Of, Typed, new, Days_, day, old, c
  <2>6. ASSUME NEW d
        PROVE  /\ PointOf(new, d).mrr = UpTo(f, Of(d), i)
               /\ TableSum(PointOf(new, d).by_customer_type) = UpTo(f, Typed(d, "customer_type"), i)
               /\ TableSum(PointOf(new, d).by_partner_type) = UpTo(f, Typed(d, "partner_type"), i)
    <3>1. CASE d # day
      <4>1. /\ UpTo(f, Of(d), i) = UpTo(f, Of(d), i - 1)
            /\ \A column : UpTo(f, Typed(d, column), i) = UpTo(f, Typed(d, column), i - 1)
        BY <1>1, <2>5, <3>1
      <4> QED
        BY <1>2, <2>1, <3>1, <4>1
    <3>2. CASE d = day
      <4>1. /\ UpTo(f, Of(d), i) = UpTo(f, Of(d), i - 1) + c
            /\ \A column : UpTo(f, Typed(d, column), i) =
                   UpTo(f, Typed(d, column), i - 1) + (IF Get(rows[i], column) = None THEN 0 ELSE c)
        BY <1>1, <2>5, <3>2
      <4>2. /\ old.mrr = UpTo(f, Of(d), i - 1)
            /\ TableSum(old.by_customer_type) = UpTo(f, Typed(d, "customer_type"), i - 1)
            /\ TableSum(old.by_partner_type) = UpTo(f, Typed(d, "partner_type"), i - 1)
        BY <1>2, <3>2 DEF old
      <4> QED
        BY <2>1, <2>3, <3>2, <4>1, <4>2
    <3> QED
      BY <3>1, <3>2
  <2>7. DOMAIN new = Days_(i)
    BY <1>2, <2>1, <2>4
  <2> QED
    BY <2>6, <2>7 DEF TrendUpTo, f, Of, Typed, new, Days_
<1> QED
  BY <1>5, <1>6

\* and so holds of the series that are returned.
LEMMA TrendAddsUp ==
    ASSUME NEW rows, NEW n, NEW K, NEW C, NEW P, IsTrend(rows, n, K, C, P)
    PROVE  TrendUpTo(MrrTrend(rows), rows, n, n)
<1> DEFINE V == Tables(K, Points(C, P))
           step == Adds(rows, n, V)
<1>1. PICK h : FoldPrefixes(h, n, V, << >>, step) /\ h[n] = MrrTrend(rows)
  <2>1. V = Tables(K, Points(C, P))
    OBVIOUS
  <2> HIDE DEF V
  <2> QED
    BY <2>1, TrendPrefixes
<1> DEFINE T == {i \in 0..n : TrendUpTo(h[i], rows, n, i)}
<1>2. 0 \in T
  <2>1. h[0] = << >> /\ 0 \in 0..n
    BY <1>1 DEF FoldPrefixes, IsTrend
  <2>2. TrendUpTo(<< >>, rows, n, 0)
    BY TrendBegins
  <2> QED
    BY <2>1, <2>2
<1>3. ASSUME NEW i \in 1..n, i - 1 \in T PROVE i \in T
  <2>1. h[i] = step[<<i, h[i - 1]>>] /\ h[i - 1] \in V /\ i \in 0..n
    BY <1>1, <1>3 DEF FoldPrefixes, IsTrend
  <2>2. h[i] = AddPoint(h[i - 1], rows[i])
    BY <2>1 DEF Adds
  <2>3. TrendUpTo(h[i - 1], rows, n, i - 1)
    BY <1>3
  <2>4. TrendUpTo(AddPoint(h[i - 1], rows[i]), rows, n, i)
    BY <2>1, <2>3, TrendContinues
  <2> QED
    BY <2>1, <2>2, <2>4
<1>4. n \in T
  <2>1. n \in Nat
    BY DEF IsTrend
  <2> HIDE DEF T
  <2> QED
    BY <1>2, <1>3, <2>1, PrefixInduction
<1> QED
  BY <1>1, <1>4

\* The rows of mrr_trend, as the fold reads them.
LEMMA TrendRows ==
    ASSUME NEW rows, NEW n, IsRows(rows, n), ~MrrRaises(rows)
    PROVE  \E K, C, P : IsTrend(rows, n, K, C, P)
<1> DEFINE days == [i \in 1..n |-> Day(Month(rows[i]))]
           customers == [i \in 1..n |-> Get(rows[i], "customer_type")]
           partners == [i \in 1..n |-> Get(rows[i], "partner_type")]
           K == {days[i] : i \in 1..n}
           C == {customers[i] : i \in 1..n}
           P == {partners[i] : i \in 1..n}
<1>1. n \in Nat /\ DOMAIN rows = 1..n
  BY DEF IsRows
<1>2. IsFiniteSet(C) /\ IsFiniteSet(P)
  <2> HIDE DEF customers, partners
  <2> QED
    BY <1>1, FiniteValues
<1>3. ASSUME NEW i \in 1..n, Month(rows[i]) # None
      PROVE  Day(Month(rows[i])) \in K /\ Contribution(rows[i]) \in Int
  <2>1. IsAmount(Get(rows[i], "mrr_contribution")) /\ IsAmount(Get(rows[i], "mrr"))
    BY DEF IsRows, AmountColumns
  <2>2. Amount(rows[i], <<"mrr_contribution", "mrr">>) \in Int \union {Junk}
    BY <2>1, AmountOfTwo
  <2>3. Contribution(rows[i]) # Junk
    BY <1>1, <1>3 DEF MrrRaises, Some
  <2> QED
    BY <2>2, <2>3 DEF Contribution
<1>4. \A i \in 1..n : Get(rows[i], "customer_type") \in C /\ Get(rows[i], "partner_type") \in P
  OBVIOUS
<1> HIDE DEF K, C, P
<1>5. IsTrend(rows, n, K, C, P)
  BY <1>1, <1>2, <1>3, <1>4 DEF IsTrend
<1> QED
  BY <1>5

\* The points of mrr_trend add up to the rows.
LEMMA MrrAlwaysAddsUp ==
    ASSUME CallInv
    PROVE  MrrAddsUp
<1> SUFFICES ASSUME Done, rpc = "mrr_trend" PROVE MrrAddsUp
  BY DEF MrrAddsUp
<1> DEFINE rows == Delivered
           n == CountDelivered
           f == Contributions(rows, n)
           Of(day) == {i \in DOMAIN rows : Month(rows[i]) # None /\ Day(Month(rows[i])) = day}
           Sum(places) == SumOver(places, LAMBDA i : Contribution(rows[i]))
           Typed(places, column) == {i \in places : Get(rows[i], column) # None}
<1>1. data = MrrTrend(rows) /\ ~MrrRaises(rows) /\ IsRows(rows, n)
  BY DoneFacts, RowsDelivered DEF Data, Raises, Delivered
<1> HIDE DEF rows, n
<1>2. n \in Nat /\ DOMAIN rows = 1..n
  BY <1>1 DEF IsRows
<1>3. PICK K, C, P : IsTrend(rows, n, K, C, P)
  BY <1>1, TrendRows
<1>4. TrendUpTo(data, rows, n, n)
  BY <1>1, <1>3, TrendAddsUp
<1>5. /\ Dated(rows, n) \in SUBSET (1..n) /\ Amounts(f, Dated(rows, n))
      /\ \A d : OfDay(rows, n, d) \in SUBSET Dated(rows, n)
      /\ \A d, column : WithType(rows, OfDay(rows, n, d), column) \in SUBSET Dated(rows, n)
  BY <1>3, ContributionAmounts
<1>6. ASSUME NEW places \in SUBSET Dated(rows, n)
      PROVE  UpTo(f, places, n) = Sum(places)
  <2>1. places \in SUBSET (1..n)
    BY <1>5
  <2>2. UpTo(f, places, n) = TableSum(Restrict(f, places))
    <3> HIDE DEF f
    <3> QED
      BY <1>2, <2>1, UpToAll
  <2>3. Restrict(f, places) = [i \in places |-> Contribution(rows[i])]
    BY DEF Restrict, Contributions
  <2>4. Sum(places) = Total([i \in places |-> Contribution(rows[i])])
    BY DEF SumOver
  <2> QED
    BY <2>2, <2>3, <2>4, TotalIsTableSum
<1>7. \A day : Of(day) = OfDay(rows, n, day)
  BY <1>2 DEF OfDay
<1>8. \A day, column : Typed(Of(day), column) = WithType(rows, OfDay(rows, n, day), column)
  BY <1>7 DEF WithType
<1>9. DOMAIN data = {Day(Month(rows[i])) : i \in {j \in DOMAIN rows : Month(rows[j]) # None}}
  <2>1. Dated(rows, n) \intersect (1..n) = {j \in DOMAIN rows : Month(rows[j]) # None}
    BY <1>2 DEF Dated
  <2> QED
    BY <1>4, <2>1 DEF TrendUpTo
<1>10. ASSUME NEW day \in DOMAIN data
       PROVE  /\ data[day].mrr = Sum(Of(day))
              /\ Total(data[day].by_customer_type) = Sum(Typed(Of(day), "customer_type"))
              /\ Total(data[day].by_partner_type) = Sum(Typed(Of(day), "partner_type"))
  <2>1. data[day] = PointOf(data, day)
    BY DEF PointOf
  <2>2. /\ data[day].mrr = UpTo(f, OfDay(rows, n, day), n)
        /\ TableSum(data[day].by_customer_type) =
               UpTo(f, WithType(rows, OfDay(rows, n, day), "customer_type"), n)
        /\ TableSum(data[day].by_partner_type) =
               UpTo(f, WithType(rows, OfDay(rows, n, day), "partner_type"), n)
    BY <1>4, <2>1 DEF TrendUpTo
  <2> HIDE DEF f, Of, Typed, Sum
  <2> QED
    BY <1>5, <1>6, <1>7, <1>8, <2>2, TotalIsTableSum
<1> QED
  BY <1>9, <1>10 DEF MrrAddsUp, rows
-----------------------------------------------------------------------------
(***************************************************************************)
(* revenue_comparison                                                      *)
(***************************************************************************)
\* Rows that revenue_comparison() can add up, with their keys in K.
IsCompared(rows, n, K) ==
    /\ n \in Nat /\ DOMAIN rows = 1..n /\ IsFiniteSet(K)
    /\ \A i \in 1..n : Key(rows[i]) \in K /\ Revenue(rows[i]) \in Int

\* table[key] = revenue, for a row of the period.
Enter(table, row, period) ==
    IF Period(row) = period THEN Put(table, Key(row), Revenue(row)) ELSE table

\* The fold of revenue_comparison, as steps from row to row.
Enters(rows, n, period, V) == [p \in (1..n) \X V |-> Enter(p[2], rows[p[1]], period)]

\* Its steps have their types.
LEMMA CompareSteps ==
    ASSUME NEW rows, NEW n, NEW K, IsCompared(rows, n, K), NEW period, NEW V, V = Tables(K, Int)
    PROVE  Steps(n, V, << >>, Enters(rows, n, period, V))
<1>1. ASSUME NEW i \in 1..n, NEW table \in V PROVE Enter(table, rows[i], period) \in V
  <2>1. CASE Period(rows[i]) # period
    BY <2>1 DEF Enter
  <2>2. CASE Period(rows[i]) = period
    <3>1. Key(rows[i]) \in K /\ Revenue(rows[i]) \in Int
      BY DEF IsCompared
    <3>2. Puts(Enter(table, rows[i], period), table, Key(rows[i]), Revenue(rows[i]))
      BY <2>2 DEF Enter, Put, Puts
    <3>3. Enter(table, rows[i], period) \in Tables(K, Int)
      BY <3>1, <3>2, TablePut
    <3> QED
      BY <3>3
  <2> QED
    BY <2>1, <2>2
<1>2. Enters(rows, n, period, V) \in [(1..n) \X V -> V]
  BY <1>1 DEF Enters
<1>3. << >> \in V
  BY EmptyTable
<1>4. n \in Nat
  BY DEF IsCompared
<1> QED
  BY <1>2, <1>3, <1>4 DEF Steps

\* And its prefixes are those of the fold the RPC computes.
LEMMA ComparePrefixes ==
    ASSUME NEW rows, NEW n, NEW K, IsCompared(rows, n, K), NEW period, NEW V, V = Tables(K, Int)
    PROVE  \E h : /\ FoldPrefixes(h, n, V, << >>, Enters(rows, n, period, V))
                 /\ h[n] = ByKey(rows, period)
<1> DEFINE S == 1..n
           pick == LastPlaces(n)
           step == Enters(rows, n, period, V)
           Eq(h) == [s \in SUBSET S |->
                       IF s = {} THEN << >>
                       ELSE IF Period(rows[Max(s)]) = period
                            THEN Put(h[s \ {Max(s)}], Key(rows[Max(s)]), Revenue(rows[Max(s)]))
                            ELSE h[s \ {Max(s)}]]
           c == CHOOSE h : h = Eq(h)
<1>0. n \in Nat /\ DOMAIN rows = 1..n
  BY DEF IsCompared
<1>1. Steps(n, V, << >>, step)
  BY CompareSteps
<1>2. PICK g : Folds(g, S, V, << >>, pick, step)
  <2>1. Foldable(S, V, << >>, pick, step)
    BY <1>1, StepsFold
  <2> HIDE DEF S, pick, step
  <2> QED
    BY <2>1, FoldExists
<1>3. ASSUME NEW s \in SUBSET S, s # {}, NEW h, h[s \ {pick[s]}] \in V
      PROVE  step[<<pick[s], h[s \ {pick[s]}]>>] = Enter(h[s \ {Max(s)}], rows[Max(s)], period)
  <2>1. pick[s] = Max(s) /\ pick[s] \in S
    BY <1>0, <1>3, PlacesHaveMax DEF LastPlaces
  <2>2. <<pick[s], h[s \ {pick[s]}]>> \in S \X V
    BY <1>3, <2>1
  <2> HIDE DEF pick
  <2> QED
    BY <2>1, <2>2 DEF Enters
<1>4. \A h : Eq(h) = [s \in SUBSET S |->
                       IF s = {} THEN << >> ELSE Enter(h[s \ {Max(s)}], rows[Max(s)], period)]
  BY DEF Enter
<1>5. g = Eq(g)
  <2>1. g \in [SUBSET S -> V]
    BY <1>2 DEF Folds
  <2>2. \A s \in SUBSET S : g[s \ {pick[s]}] \in V
    BY <2>1
  <2>3. \A s \in SUBSET S :
            g[s] = IF s = {} THEN << >> ELSE step[<<pick[s], g[s \ {pick[s]}]>>]
    BY <1>2 DEF Folds
  <2> HIDE DEF step, pick, S, Eq
  <2>4. g = [s \in SUBSET S |->
                IF s = {} THEN << >> ELSE Enter(g[s \ {Max(s)}], rows[Max(s)], period)]
    BY <1>3, <2>1, <2>2, <2>3
  <2> QED
    BY <1>4, <2>4
<1>6. c = Eq(c)
  <2> HIDE DEF Eq
  <2> QED
    BY <1>5
<1>7. Follows(c, S, V, << >>, pick, step)
  <2> HIDE DEF c, S, Eq
  <2>0. c = [s \in SUBSET S |->
                IF s = {} THEN << >> ELSE Enter(c[s \ {Max(s)}], rows[Max(s)], period)]
    BY <1>4, <1>6
  <2>1. c[{}] = << >>
    BY <2>0
  <2>2. \A s \in SUBSET S : s # {} => c[s] = Enter(c[s \ {Max(s)}], rows[Max(s)], period)
    BY <2>0
  <2> HIDE DEF step, pick
  <2>3. ASSUME NEW s \in SUBSET S, s # {}, c[s \ {pick[s]}] \in V
        PROVE  c[s] = step[<<pick[s], c[s \ {pick[s]}]>>]
    BY <1>3, <2>2, <2>3
  <2> QED
    BY <2>1, <2>3 DEF Follows
<1>8. \E h : FoldPrefixes(h, n, V, << >>, step) /\ h[n] = c[1..n]
  <2> HIDE DEF c, step
  <2> QED
    BY <1>1, <1>2, <1>7, FoldHasPrefixes
<1>9. ByKey(rows, period) = c[S]
  BY <1>0 DEF ByKey, FoldLeft, MapThenFoldSet
<1> HIDE DEF c
<1> QED
  BY <1>8, <1>9

\* After i rows the table holds the last row of each key.
IsLast(rows, i, period, j) ==
    /\ Period(rows[j]) = period
    /\ \A m \in 1..i : m > j /\ Period(rows[m]) = period => Key(rows[m]) # Key(rows[j])

\* The table holds the last row of every key so far.
LastRows(table, rows, period, i) ==
    /\ DOMAIN table = {Key(rows[j]) : j \in {m \in 1..i : Period(rows[m]) = period}}
    /\ \A j \in 1..i : IsLast(rows, i, period, j) => table[Key(rows[j])] = Revenue(rows[j])

\* One more row keeps that so.
LEMMA LastRowsContinue ==
    ASSUME NEW n \in Nat, NEW i \in 1..n, NEW rows, NEW period, NEW table,
           LastRows(table, rows, period, i - 1)
    PROVE  LastRows(Enter(table, rows[i], period), rows, period, i)
<1> DEFINE new == Enter(table, rows[i], period)
           KeysUpTo(m) == {Key(rows[j]) : j \in {l \in 1..m : Period(rows[l]) = period}}
<1>1. 1..i = (1..(i - 1)) \union {i} /\ \A j \in 1..(i - 1) : i > j
  OBVIOUS
<1>2. /\ DOMAIN table = KeysUpTo(i - 1)
      /\ \A j \in 1..(i - 1) : IsLast(rows, i - 1, period, j) => table[Key(rows[j])] = Revenue(rows[j])
  BY DEF LastRows
<1>3. ASSUME NEW j \in 1..(i - 1), IsLast(rows, i, period, j)
      PROVE  /\ IsLast(rows, i - 1, period, j)
             /\ Period(rows[i]) = period => Key(rows[i]) # Key(rows[j])
             /\ Key(rows[j]) \in DOMAIN table
  BY <1>1, <1>2, <1>3 DEF IsLast
<1>4. CASE Period(rows[i]) # period
  <2>1. new = table /\ KeysUpTo(i) = KeysUpTo(i - 1)
    BY <1>1, <1>4 DEF Enter
  <2>2. \A j \in 1..i : IsLast(rows, i, period, j) => j \in 1..(i - 1)
    BY <1>1, <1>4 DEF IsLast
  <2> QED
    BY <1>2, <1>3, <2>1, <2>2 DEF LastRows
<1>5. CASE Period(rows[i]) = period
  <2>1. /\ DOMAIN new = DOMAIN table \union {Key(rows[i])}
        /\ new[Key(rows[i])] = Revenue(rows[i])
        /\ \A k \in DOMAIN table : k # Key(rows[i]) => new[k] = table[k]
    BY <1>5 DEF Enter, Put
  <2>2. KeysUpTo(i) = KeysUpTo(i - 1) \union {Key(rows[i])}
    BY <1>1, <1>5
  <2> HIDE DEF new, KeysUpTo
  <2>3. ASSUME NEW j \in 1..i, IsLast(rows, i, period, j)
        PROVE  new[Key(rows[j])] = Revenue(rows[j])
    <3>1. CASE j = i
      BY <2>1, <3>1
    <3>2. CASE j # i
      <4>1. j \in 1..(i - 1)
        BY <3>2
      <4> QED
        BY <1>2, <1>3, <1>5, <2>1, <2>3, <4>1
    <3> QED
      BY <3>1, <3>2
  <2> QED
    BY <1>2, <2>1, <2>2, <2>3 DEF LastRows, new, KeysUpTo
<1> QED
  BY <1>4, <1>5

\* And so it is of the table that is compared.
LEMMA ByKeyKeepsLast ==
    ASSUME NEW rows, NEW n, NEW K, IsCompared(rows, n, K), NEW period
    PROVE  /\ ByKey(rows, period) \in Tables(K, Int)
           /\ LastRows(ByKey(rows, period), rows, period, n)
<1> DEFINE V == Tables(K, Int)
           step == Enters(rows, n, period, V)
<1>0. n \in Nat
  BY DEF IsCompared
<1>1. PICK h : FoldPrefixes(h, n, V, << >>, step) /\ h[n] = ByKey(rows, period)
  <2>1. V = Tables(K, Int)
    OBVIOUS
  <2> HIDE DEF V
  <2> QED
    BY <2>1, ComparePrefixes
<1> DEFINE T == {i \in 0..n : LastRows(h[i], rows, period, i)}
<1>2. 0 \in T
  <2>1. h[0] = << >> /\ 0 \in 0..n /\ 1..0 = {}
    BY <1>0, <1>1 DEF FoldPrefixes
  <2>2. LastRows(<< >>, rows, period, 0)
    BY <2>1 DEF LastRows
  <2> QED
    BY <2>1, <2>2
<1>3. ASSUME NEW i \in 1..n, i - 1 \in T PROVE i \in T
  <2>1. h[i] = step[<<i, h[i - 1]>>] /\ h[i - 1] \in V /\ i \in 0..n
    BY <1>0, <1>1, <1>3 DEF FoldPrefixes
  <2>2. h[i] = Enter(h[i - 1], rows[i], period)
    BY <2>1 DEF Enters
  <2>3. LastRows(h[i - 1], rows, period, i - 1)
    BY <1>3
  <2>4. LastRows(Enter(h[i - 1], rows[i], period), rows, period, i)
    BY <1>0, <2>3, LastRowsContinue
  <2> QED
    BY <2>1, <2>2, <2>4
<1>4. n \in T
  <2> HIDE DEF T
  <2> QED
    BY <1>0, <1>2, <1>3, PrefixInduction
<1>5. h[n] \in V
  BY <1>0, <1>1 DEF FoldPrefixes
<1> QED
  BY <1>1, <1>4, <1>5

\* The places of the last rows.
LastPlacesOf(rows, n, period) == {i \in 1..n : IsLast(rows, n, period, i)}

\* A table of numbers over finitely many keys has a sum.
LEMMA TableIsAmounts ==
    ASSUME NEW K, IsFiniteSet(K), NEW table \in Tables(K, Int)
    PROVE  Amounts(table, DOMAIN table)
<1>1. DOMAIN table \in SUBSET K /\ table \in [DOMAIN table -> Int]
  BY TableType
<1> QED
  BY <1>1, FS_Subset DEF Amounts

\* The total of a period is the sum of the last rows of its keys.
LEMMA PeriodAddsUp ==
    ASSUME NEW rows, NEW n, NEW K, IsCompared(rows, n, K), NEW period
    PROVE  TableSum(ByKey(rows, period)) =
               TableSum([i \in LastPlacesOf(rows, n, period) |-> Revenue(rows[i])])
<1> DEFINE table == ByKey(rows, period)
           D == LastPlacesOf(rows, n, period)
           E == DOMAIN table
           f == [i \in D |-> Revenue(rows[i])]
           h == [i \in D |-> Key(rows[i])]
<1>0. n \in Nat /\ IsFiniteSet(K) /\ \A i \in 1..n : Revenue(rows[i]) \in Int
  BY DEF IsCompared
<1>1. table \in Tables(K, Int) /\ LastRows(table, rows, period, n)
  BY ByKeyKeepsLast
<1> HIDE DEF table
<1>2. Amounts(table, E)
  BY <1>0, <1>1, TableIsAmounts
<1>3. D \in SUBSET (1..n) /\ \A i \in D : IsLast(rows, n, period, i)
  BY DEF LastPlacesOf
<1>4. Amounts(f, D)
  <2>1. IsFiniteSet(D)
    BY <1>0, <1>3, FS_Interval, FS_Subset
  <2> HIDE DEF D
  <2> QED
    BY <1>0, <1>3, <2>1 DEF Amounts
<1>5. ASSUME NEW i \in D PROVE h[i] \in E /\ f[i] = table[h[i]]
  <2>1. i \in 1..n /\ IsLast(rows, n, period, i) /\ Period(rows[i]) = period
    BY <1>3 DEF IsLast
  <2> QED
    BY <1>1, <2>1 DEF LastRows
<1>6. ASSUME NEW i \in D, NEW j \in D, h[i] = h[j] PROVE i = j
  <2>1. i \in 1..n /\ j \in 1..n /\ Key(rows[i]) = Key(rows[j])
    BY <1>3, <1>6
  <2>2. ~(i > j) /\ ~(j > i)
    BY <1>3, <2>1 DEF IsLast
  <2> QED
    BY <2>1, <2>2
<1>7. ASSUME NEW k \in E PROVE \E i \in D : h[i] = k
  <2> DEFINE places == {i \in 1..n : Period(rows[i]) = period /\ Key(rows[i]) = k}
             last == Max(places)
  <2>1. places # {} /\ places \in SUBSET (1..n)
    BY <1>1 DEF LastRows
  <2>2. last \in places /\ \A i \in places : i <= last
    <3> HIDE DEF places
    <3> QED
      BY <1>0, <2>1, PlacesHaveMax
  <2>3. last \in 1..n /\ Period(rows[last]) = period /\ Key(rows[last]) = k
    BY <2>2
  <2> HIDE DEF last
  <2>4. IsLast(rows, n, period, last)
    BY <2>2, <2>3 DEF IsLast
  <2> QED
    BY <2>3, <2>4 DEF LastPlacesOf
<1>8. Corresponds(h, f, D, table, E)
  <2> HIDE DEF h, f, D, E
  <2> QED
    BY <1>5, <1>6, <1>7 DEF Corresponds
<1>9. TableSum(f) = TableSum(table)
  <2> HIDE DEF h, f, D, E
  <2> QED
    BY <1>2, <1>4, <1>8, TableSumSame
<1> QED
  BY <1>9 DEF table

\* Keys that one table lacks count as 0.
LEMMA FilledUp ==
    ASSUME NEW K, IsFiniteSet(K), NEW a \in Tables(K, Int), NEW D \in SUBSET K, DOMAIN a \in SUBSET D
    PROVE  /\ Amounts([k \in D |-> At(a, k)], D)
           /\ TableSum([k \in D |-> At(a, k)]) = TableSum(a)
<1> DEFINE f == [k \in D |-> At(a, k)]
           E == DOMAIN a
<1>1. IsFiniteSet(D) /\ a \in [E -> Int]
  BY TableType, FS_Subset
<1>2. Amounts(f, D)
  BY <1>1 DEF At, Amounts
<1>3. \A k \in D \ E : f[k] = 0
  BY DEF At
<1>4. Restrict(f, E) = a
  BY <1>1 DEF Restrict, At
<1>5. TableSum(f) = TableSum(Restrict(f, E))
  <2> HIDE DEF f, E
  <2>1. E \in SUBSET D
    BY DEF E
  <2> QED
    BY <1>2, <1>3, <2>1, TableSumWithoutZeros
<1> QED
  BY <1>2, <1>4, <1>5

\* The deltas add up to the difference of the totals.
LEMMA DeltasAddUp ==
    ASSUME NEW K, IsFiniteSet(K), NEW a \in Tables(K, Int), NEW b \in Tables(K, Int)
    PROVE  TableSum([k \in DOMAIN Deltas(a, b) |-> Deltas(a, b)[k].delta]) = TableSum(b) - TableSum(a)
<1> DEFINE D == DOMAIN a \union DOMAIN b
           f == [k \in D |-> At(a, k)]
           g == [k \in D |-> At(b, k)]
           d == [k \in DOMAIN Deltas(a, b) |-> Deltas(a, b)[k].delta]
<1>1. D \in SUBSET K /\ DOMAIN a \in SUBSET D /\ DOMAIN b \in SUBSET D
  BY TableType
<1>2. d = [k \in D |-> At(b, k) - At(a, k)]
  BY DEF Deltas
<1>3. /\ Amounts(f, D) /\ TableSum(f) = TableSum(a)
      /\ Amounts(g, D) /\ TableSum(g) = TableSum(b)
  <2> HIDE DEF D
  <2> QED
    BY <1>1, FilledUp
<1>4. \A k \in D : d[k] = g[k] - f[k]
  BY <1>2
<1>5. Amounts(d, D)
  <2>1. \A k \in D : g[k] - f[k] \in Int
    <3> HIDE DEF f, g, D
    <3> QED
      BY <1>3 DEF Amounts
  <2>2. d \in [D -> Int]
    <3> HIDE DEF D
    <3> QED
      BY <1>2, <2>1
  <2> QED
    BY <1>3, <2>2 DEF Amounts
<1>6. TableSum(d) = TableSum(g) - TableSum(f)
  <2> HIDE DEF d, f, g, D
  <2> QED
    BY <1>3, <1>4, <1>5, TableSumMinus
<1> QED
  BY <1>3, <1>6

\* The rows of revenue_comparison, as the fold reads them.
LEMMA ComparedRows ==
    ASSUME NEW rows, NEW n, IsRows(rows, n), ~ComparisonRaises(rows)
    PROVE  \E K : IsCompared(rows, n, K)
<1> DEFINE keys == [i \in 1..n |-> Key(rows[i])]
           K == {keys[i] : i \in 1..n}
<1>1. n \in Nat /\ DOMAIN rows = 1..n
  BY DEF IsRows
<1>2. IsFiniteSet(K)
  <2> HIDE DEF keys
  <2> QED
    BY <1>1, FiniteValues
<1>3. ASSUME NEW i \in 1..n PROVE Revenue(rows[i]) \in Int
  <2>1. IsAmount(Get(rows[i], "revenue"))
    BY DEF IsRows, AmountColumns
  <2>2. Amount(rows[i], <<"revenue">>) \in Int \union {Junk}
    BY <2>1, AmountOfOne
  <2>3. Revenue(rows[i]) # Junk
    BY <1>1 DEF ComparisonRaises, Some
  <2> QED
    BY <2>2, <2>3 DEF Revenue
<1>4. \A i \in 1..n : Key(rows[i]) \in K
  OBVIOUS
<1> HIDE DEF K
<1>5. IsCompared(rows, n, K)
  BY <1>1, <1>2, <1>3, <1>4 DEF IsCompared
<1> QED
  BY <1>5

\* The totals of a comparison are those of its entries.
LEMMA ComparisonAlwaysAddsUp ==
    ASSUME CallInv
    PROVE  ComparisonAddsUp
<1> SUFFICES ASSUME Done, rpc = "revenue_comparison" PROVE ComparisonAddsUp
  BY DEF ComparisonAddsUp
<1> DEFINE rows == Delivered
           n == CountDelivered
           Same(i, j) == Period(rows[i]) = Period(rows[j]) /\ Key(rows[i]) = Key(rows[j])
           Kept(p) == {i \in DOMAIN rows : Period(rows[i]) = p
                                          /\ \A j \in DOMAIN rows : j > i => ~Same(i, j)}
           Sum(p)  == SumOver(Kept(p), LAMBDA i : Revenue(rows[i]))
           a == ByKey(rows, "a")
           b == ByKey(rows, "b")
<1>1. data = Comparison(rows) /\ ~ComparisonRaises(rows) /\ IsRows(rows, n)
  BY DoneFacts, RowsDelivered DEF Data, Raises, Delivered
<1> HIDE DEF rows, n
<1>2. n \in Nat /\ DOMAIN rows = 1..n
  BY <1>1 DEF IsRows
<1>3. PICK K : IsCompared(rows, n, K)
  BY <1>1, ComparedRows
<1>4. ASSUME NEW p PROVE TableSum(ByKey(rows, p)) = Sum(p)
  <2>1. Kept(p) = LastPlacesOf(rows, n, p)
    BY <1>2 DEF LastPlacesOf, IsLast
  <2>2. Sum(p) = Total([i \in Kept(p) |-> Revenue(rows[i])])
    BY DEF SumOver
  <2>3. TableSum(ByKey(rows, p)) = TableSum([i \in LastPlacesOf(rows, n, p) |-> Revenue(rows[i])])
    BY <1>3, PeriodAddsUp
  <2> HIDE DEF Kept, Sum
  <2> QED
    BY <2>1, <2>2, <2>3, TotalIsTableSum
<1>5. /\ data.period_a.total = Total(a) /\ data.period_b.total = Total(b)
      /\ data.deltas = Deltas(a, b)
  BY <1>1 DEF Comparison, Summary
<1>6. SumOver(DOMAIN data.deltas, LAMBDA k : data.deltas[k].delta) = TableSum(b) - TableSum(a)
  <2>1. IsFiniteSet(K) /\ a \in Tables(K, Int) /\ b \in Tables(K, Int)
    BY <1>3, ByKeyKeepsLast DEF IsCompared
  <2> HIDE DEF a, b
  <2>2. TableSum([k \in DOMAIN Deltas(a, b) |-> Deltas(a, b)[k].delta]) = TableSum(b) - TableSum(a)
    BY <2>1, DeltasAddUp
  <2>3. SumOver(DOMAIN data.deltas, LAMBDA k : data.deltas[k].delta) =
            Total([k \in DOMAIN Deltas(a, b) |-> Deltas(a, b)[k].delta])
    BY <1>5 DEF SumOver
  <2> QED
    BY <2>2, <2>3, TotalIsTableSum
<1>7. /\ data.period_a.total = Sum("a") /\ data.period_b.total = Sum("b")
      /\ SumOver(DOMAIN data.deltas, LAMBDA k : data.deltas[k].delta) = Sum("b") - Sum("a")
  <2>1. TableSum(a) = Sum("a") /\ TableSum(b) = Sum("b")
    BY <1>4
  <2>2. Total(a) = TableSum(a) /\ Total(b) = TableSum(b)
    BY TotalIsTableSum
  <2> HIDE DEF Sum, a, b
  <2> QED
    BY <1>5, <1>6, <2>1, <2>2
<1> QED
  BY <1>7 DEF ComparisonAddsUp, rows

-----------------------------------------------------------------------------
\* Every total a report shows is the sum of the amounts of the rows it was made
\* of, for any number of rows in any order: of one key in a period the last row
\* counts, deltas add up to the difference of the periods, and the breakdowns
\* of a month to those of its rows that name a type (rpcs/revenue_comparison.py,
\* rpcs/mrr_trend.py, rpcs/arr_at_risk.py).
THEOREM ReportsAlwaysAddUp == Spec => []ReportsAddUp
<1>1. ASSUME CallInv PROVE ReportsAddUp
  BY <1>1, ComparisonAlwaysAddsUp, MrrAlwaysAddsUp, ArrAlwaysAddsUp DEF ReportsAddUp
<1> QED
  BY <1>1, CallAlways, PTL
-----------------------------------------------------------------------------
(***************************************************************************)
(* Nulls.                                                                  *)
(***************************************************************************)
LEMMA OneReadable ==
    ASSUME NEW row, NEW c, Get(row, c) # Junk
    PROVE  Amount(row, <<c>>) # Junk
<1> DEFINE columns == <<c>>
<1>1. DOMAIN columns = 1..1 /\ \A i \in 1..1 : columns[i] = c
  OBVIOUS
<1> HIDE DEF columns
<1>2. Amount(row, columns) # Junk
  BY <1>1, AmountReadable, 1 \in Nat
<1> QED
  BY <1>2 DEF columns

LEMMA TwoReadable ==
    ASSUME NEW row, NEW c, NEW d, Get(row, c) # Junk, Get(row, d) # Junk
    PROVE  Amount(row, <<c, d>>) # Junk
<1> DEFINE columns == <<c, d>>
<1>1. DOMAIN columns = 1..2 /\ \A i \in 1..2 : columns[i] = c \/ columns[i] = d
  OBVIOUS
<1> HIDE DEF columns
<1>2. Amount(row, columns) # Junk
  BY <1>1, AmountReadable, 2 \in Nat
<1> QED
  BY <1>2 DEF columns

\* No cell of a readable row is unreadable, the ones it lacks included.
LEMMA CellReadable ==
    ASSUME NEW rows, Readable(rows), NEW i \in DOMAIN rows, NEW c
    PROVE  Get(rows[i], c) # Junk /\ GetOr(rows[i], c, 0) # Junk
BY JunkAssumption, NumbersAssumption, 0 \in Int DEF Readable, Get, GetOr

\* A required amount that is null raises,
LEMMA NullRaises ==
    ASSUME NEW body, None \in RequiredAmounts(Rows(body))
    PROVE  Raises(rpc, body)
<1> DEFINE rows == Rows(body)
<1>1. CASE rpc = "partner_revenue"
  <2>1. PICK i \in DOMAIN rows : Get(rows[i], "net_revenue") = None
    BY <1>1 DEF RequiredAmounts
  <2>2. PartnerRevenueRaises(rows)
    BY <2>1 DEF PartnerRevenueRaises, Some
  <2> QED
    BY <1>1, <2>2 DEF Raises
<1>2. CASE rpc = "top_partners"
  <2>1. PICK i \in DOMAIN rows : GetOr(rows[i], "net_revenue", 0) = None
    BY <1>2 DEF RequiredAmounts
  <2>2. TopPartnersRaises(rows)
    BY <2>1 DEF TopPartnersRaises, Some
  <2> QED
    BY <1>2, <2>2 DEF Raises
<1>3. CASE rpc = "channel_split"
  <2>1. /\ rows # << >>
        /\ \/ GetOr(rows[1], "partner_revenue", 0) = None
           \/ GetOr(rows[1], "direct_revenue", 0) = None
    BY <1>3 DEF RequiredAmounts
  <2>2. NotANumber(PartnerGroup(rows[1])) \/ NotANumber(DirectGroup(rows[1]))
    BY <2>1 DEF NotANumber, PartnerGroup, DirectGroup, Group
  <2>3. SplitRaises(rows)
    BY <2>1, <2>2 DEF SplitRaises
  <2> QED
    BY <1>3, <2>3 DEF Raises
<1>4. CASE rpc \notin {"partner_revenue", "top_partners", "channel_split"}
  BY <1>4 DEF RequiredAmounts
<1> QED
  BY <1>1, <1>2, <1>3, <1>4

\* and with no such amount, rows that can be read raise nothing.
LEMMA NothingElseRaises ==
    ASSUME NEW body, rpc \in CardRpcNames, HasRows(body),
           NEW n \in Nat, DOMAIN Rows(body) = 1..n,
           Readable(Rows(body)), None \notin RequiredAmounts(Rows(body))
    PROVE  ~Raises(rpc, body)
<1> DEFINE rows == Rows(body)
<1>0. ~RowsRaise(body)
  BY DEF RowsRaise, HasRows
<1>a. /\ \A i \in DOMAIN rows : \A c : Get(rows[i], c) # Junk /\ GetOr(rows[i], c, 0) # Junk
  BY CellReadable
<1>b. \A i \in DOMAIN rows : \A c, d : /\ Amount(rows[i], <<c>>) # Junk
                                     /\ Amount(rows[i], <<c, d>>) # Junk
  <2> HIDE DEF rows
  <2> QED
    BY <1>a, OneReadable, TwoReadable
<1>1. CASE rpc = "partner_revenue"
  <2>1. \A i \in DOMAIN rows : Get(rows[i], "net_revenue") # None
    BY <1>1 DEF RequiredAmounts
  <2>2. ~PartnerRevenueRaises(rows)
    BY <1>a, <2>1 DEF PartnerRevenueRaises, Some
  <2> QED
    BY <1>0, <1>1, <2>2 DEF Raises
<1>2. CASE rpc = "top_partners"
  <2>1. \A i \in DOMAIN rows : GetOr(rows[i], "net_revenue", 0) # None
    BY <1>2 DEF RequiredAmounts
  <2>2. ~TopPartnersRaises(rows)
    BY <1>a, <2>1 DEF TopPartnersRaises, Some
  <2> QED
    BY <1>0, <1>2, <2>2 DEF Raises
<1>3. CASE rpc = "channel_split"
  <2>1. ASSUME rows # << >> PROVE ~NotANumber(PartnerGroup(rows[1])) /\ ~NotANumber(DirectGroup(rows[1]))
    <3>1. 1 \in DOMAIN rows
      <4>1. rows = [i \in DOMAIN rows |-> rows[i]]
        BY DEF Rows
      <4>2. n # 0
        <5> SUFFICES ASSUME n = 0 PROVE FALSE
          OBVIOUS
        <5>1. rows = [i \in 1..0 |-> rows[i]]
          BY <4>1
        <5> HIDE DEF rows
        <5> QED
          BY <2>1, <5>1, NoPlaces
      <4> QED
        BY <4>2
    <3>2. /\ GetOr(rows[1], "partner_revenue", 0) \notin {None, Junk}
          /\ GetOr(rows[1], "direct_revenue", 0) \notin {None, Junk}
      BY <1>3, <1>a, <2>1, <3>1 DEF RequiredAmounts
    <3> HIDE DEF rows
    <3> QED
      BY <1>b, <3>1, <3>2 DEF NotANumber, PartnerGroup, DirectGroup, Group
  <2>2. ~SplitRaises(rows)
    BY <2>1 DEF SplitRaises
  <2> QED
    BY <1>0, <1>3, <2>2 DEF Raises
<1>4. CASE rpc = "mrr_trend"
  <2>1. \A i \in DOMAIN rows : Month(rows[i]) # None => Day(Month(rows[i])) \in Dates
    BY <1>4 DEF Readable
  <2> HIDE DEF rows
  <2>2. ~MrrRaises(rows)
    BY <1>b, <2>1 DEF MrrRaises, Some, Contribution
  <2> QED
    BY <1>0, <1>4, <2>2 DEF Raises, rows
<1>5. CASE rpc = "arr_at_risk"
  <2> HIDE DEF rows
  <2>1. ~ArrAtRiskRaises(rows)
    BY <1>b DEF ArrAtRiskRaises, Some, Bucket
  <2> QED
    BY <1>0, <1>5, <2>1 DEF Raises, rows
<1>6. CASE rpc = "upsell_opportunities"
  <2>1. ~UpsellRaises(rows)
    BY <1>a DEF UpsellRaises, Some
  <2> QED
    BY <1>0, <1>6, <2>1 DEF Raises
<1>7. CASE rpc = "license_query"
  <2>1. ASSUME NEW i \in DOMAIN rows,
               NEW c \in {"partner", "company", "addon", "status", "hosting", "license_type"}
        PROVE  License(rows[i])[c] # Junk
    <3> DEFINE row == rows[i]
    <3>1. \A d : Get(row, d) # Junk
      BY <1>a
    <3>2. \A d, e : OrText(Get(row, d), Get(row, e)) # Junk
      BY <3>1 DEF OrText
    <3> HIDE DEF row
    <3>3. /\ License(row).partner # Junk /\ License(row).company # Junk
          /\ License(row).addon # Junk /\ License(row).status # Junk
          /\ License(row).hosting # Junk /\ License(row).license_type # Junk
      BY <3>1, <3>2 DEF License
    <3> QED
      BY <3>3 DEF row
  <2>2. ~LicenseRaises(rows)
    <3> HIDE DEF rows
    <3> QED
      BY <2>1 DEF LicenseRaises, Some
  <2> QED
    BY <1>0, <1>7, <2>2 DEF Raises
<1>8. CASE rpc = "revenue_comparison"
  <2> HIDE DEF rows
  <2>1. ~ComparisonRaises(rows)
    BY <1>b DEF ComparisonRaises, Some, Revenue
  <2> QED
    BY <1>0, <1>8, <2>1 DEF Raises, rows
<1>9. CASE rpc = "data_quality_signals"
  <2>1. ~ThresholdRaises(rows)
    BY <1>a DEF ThresholdRaises, Some
  <2> QED
    BY <1>0, <1>9, <2>1 DEF Raises
<1> QED
  BY <1>1, <1>2, <1>3, <1>4, <1>5, <1>6, <1>7, <1>8, <1>9 DEF CardRpcNames, ListRpcs

\* A null fails the call, whatever the rest of the payload, where
\* partner_revenue, top_partners and channel_split require an amount, and
\* readable rows without such a null are always a success (the handlers of the
\* RPCs with a card and the models they validate with).
THEOREM NullsAlwaysFailWhereRequired == Spec => []NullsFailWhereRequired
<1>1. ASSUME CallInv PROVE NullsFailWhereRequired
  <2> SUFFICES ASSUME wire # None, rpc \in CardRpcNames,
                      wire.kind = "answer", wire.status < 400, HasRows(wire.body)
               PROVE  /\ None \in RequiredAmounts(Delivered) => outcome = Exception
                      /\ None \notin RequiredAmounts(Delivered) /\ Readable(Delivered) =>
                            outcome = Success
    BY DEF NullsFailWhereRequired
  <2>1. outcome = Concluded(rpc, wire) /\ IsWire(wire)
    BY <1>1, RpcsAssumption, WiresAssumption DEF CallInv
  <2>2. PostQuery(wire) = Success
    <3>1. wire.status \in Nat
      BY <2>1 DEF IsWire
    <3>2. ~(wire.status >= 500) /\ ~(wire.status >= 400)
      BY <3>1
    <3>3. wire.body.kind # "text" /\ LooksCompleted(wire.body)
      BY DEF HasRows, LooksCompleted
    <3> QED
      BY <3>2, <3>3 DEF PostQuery
  <2>3. outcome = IF Raises(rpc, wire.body) THEN Exception ELSE Success
    BY <2>1, <2>2 DEF Concluded
  <2>4. \E n \in Nat : DOMAIN Delivered = 1..n
    <3>1. IsSequence(wire.body.data.rows)
      BY <2>1 DEF IsWire, IsTable
    <3>2. DOMAIN Delivered = DOMAIN wire.body.data.rows
      BY DEF Delivered, Rows
    <3> QED
      BY <3>1, <3>2 DEF IsSequence
  <2> QED
    BY <2>3, <2>4, NullRaises, NothingElseRaises DEF Delivered
<1> QED
  BY <1>1, CallAlways, PTL
=============================================================================
