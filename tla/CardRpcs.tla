------------------------------ MODULE CardRpcs ------------------------------
(***************************************************************************)
(* One call of one of the nine RPCs with a card, or of execute_sql(), from *)
(* its validated body to its response: the body becomes the card's         *)
(* parameters, Metabase is asked, and what comes back is classified and    *)
(* reshaped.  Scopes, cards and the client are taken to be in order; see   *)
(* RequestPipeline and AppFactory.  A date is <<year, month, day>>.        *)
(***************************************************************************)
EXTENDS CardReshape

CONSTANTS
    Inputs,         \* the request bodies that are tried, of each RPC
    Wires           \* what may come back from Metabase, for each RPC

VARIABLES
    rpc, input,     \* the call
    sent,           \* the parameters sent to Metabase, None before
    wire,           \* what came back, None before
    outcome,        \* the response, None before
    data            \* the payload of a success, None otherwise

vars == <<rpc, input, sent, wire, outcome, data>>

ListRpcs == {"top_partners", "partner_revenue", "upsell_opportunities",
             "license_query", "data_quality_signals"}
CardRpcNames == ListRpcs \union {"revenue_comparison", "mrr_trend", "channel_split", "arr_at_risk"}

-----------------------------------------------------------------------------
\* The bodies each RPC accepts.
Days == (1..9999) \X (1..12) \X (1..31)

AtOrBefore(a, b) ==
    \/ a[1] < b[1]
    \/ a[1] = b[1] /\ a[2] < b[2]
    \/ a[1] = b[1] /\ a[2] = b[2] /\ a[3] <= b[3]

LicenseTypes == {"COMMERCIAL", "ACADEMIC"}

PartnerRevenueInputs ==
    {i \in [start_date : Days, end_date : Days, consolidate : BOOLEAN,
            license_types : SUBSET LicenseTypes] : AtOrBefore(i.start_date, i.end_date)}
ChannelSplitInputs ==
    {i \in [start_date : Days, end_date : Days, license_types : SUBSET LicenseTypes] :
        AtOrBefore(i.start_date, i.end_date)}
TopPartnersInputs ==
    {i \in [start_date : Days, end_date : Days, limit : 1..100, consolidate : BOOLEAN] :
        AtOrBefore(i.start_date, i.end_date)}
MrrTrendInputs == [months_back : 1..120, partner_subtype : {None} \union STRING]
ArrAtRiskInputs == [horizon_days : 1..730, group_by : {"overall", "partner", "app"}]
UpsellInputs    == [horizon_days : 1..730, min_seat_delta : Nat \ {0}]
LicenseQueryInputs ==
    [partner : {None} \union STRING, company : {None} \union STRING, addon : {None} \union STRING,
     status : {None, "active", "inactive", "cancelled"},
     hosting : {None, "Cloud", "DataCenter", "Server"},
     license_type : {None} \union LicenseTypes, limit : 1..1000]

\* Period, and the texts parse_period() reads: a quarter of a year whose first
\* day and whose following day are dates.
Periods == {p \in [start_date : Days, end_date : Days] : AtOrBefore(p.start_date, p.end_date)}
Quarters == {q \in [quarter : 1..4, year : 1..9999] : ~(q.quarter = 4 /\ q.year = 9999)}
ComparisonInputs ==
    [period_a : Periods \union Quarters, period_b : Periods \union Quarters,
     dimension : {"channel", "sale_type", "partner"}]

DataQualitySignalsInputs == {<< >>}

Valid(r, i) ==
    CASE r = "partner_revenue"      -> i \in PartnerRevenueInputs
      [] r = "channel_split"        -> i \in ChannelSplitInputs
      [] r = "top_partners"         -> i \in TopPartnersInputs
      [] r = "mrr_trend"            -> i \in MrrTrendInputs
      [] r = "arr_at_risk"          -> i \in ArrAtRiskInputs
      [] r = "upsell_opportunities" -> i \in UpsellInputs
      [] r = "license_query"        -> i \in LicenseQueryInputs
      [] r = "revenue_comparison"   -> i \in ComparisonInputs
      [] r = "data_quality_signals" -> i \in DataQualitySignalsInputs
      [] OTHER                      -> TRUE

-----------------------------------------------------------------------------
\* The parameters, by template tag.
LengthOf(month) == IF month \in {4, 6, 9, 11} THEN 30 ELSE 31

\* The day before the first of a month other than March.
DayBeforeFirst(year, month) ==
    IF month = 1 THEN <<year - 1, 12, 31>> ELSE <<year, month - 1, LengthOf(month - 1)>>

\* Faulty variant: the fourth quarter ends before the first of its own year.
ParsePeriodSameYear(p) ==
    LET start == (p.quarter - 1) * 3 + 1
        end   == start + 2
    IN  [start_date |-> <<p.year, start, 1>>,
         end_date |-> IF end < 12 THEN DayBeforeFirst(p.year, end + 1)
                      ELSE DayBeforeFirst(p.year, 1)]

\* parse_period()
ParsePeriod(p) ==
    LET start == (p.quarter - 1) * 3 + 1
        end   == start + 2
    IN  [start_date |-> <<p.year, start, 1>>,
         end_date |-> IF end < 12 THEN DayBeforeFirst(p.year, end + 1)
                      ELSE DayBeforeFirst(p.year + 1, 1)]

Parsed(p) == IF "quarter" \in DOMAIN p THEN ParsePeriod(p) ELSE p

ComparisonParams(i) ==
    [period_a_start |-> Parsed(i.period_a).start_date, period_a_end |-> Parsed(i.period_a).end_date,
     period_b_start |-> Parsed(i.period_b).start_date, period_b_end |-> Parsed(i.period_b).end_date,
     dimension |-> i.dimension]

PartnerRevenueParams(i) ==
    [start_date |-> i.start_date, end_date |-> i.end_date,
     consolidate |-> i.consolidate, license_types |-> i.license_types]
ChannelSplitParams(i) ==
    [start_date |-> i.start_date, end_date |-> i.end_date, license_types |-> i.license_types]
TopPartnersParams(i) ==
    [start_date |-> i.start_date, end_date |-> i.end_date,
     limit |-> i.limit, consolidate |-> i.consolidate]
ArrAtRiskParams(i) == [horizon_days |-> i.horizon_days, group_by |-> i.group_by]
UpsellParams(i)    == [horizon_days |-> i.horizon_days, min_seat_delta |-> i.min_seat_delta]

Given(i) == [tag \in {t \in DOMAIN i : i[t] # None} |-> i[tag]]

MrrTrendParams(i) == Given([months_back |-> i.months_back, partner_subtype |-> i.partner_subtype])

\* Faulty variant: the value of one optional filter is forgotten.
LicenseQueryParamsNoHosting(i) ==
    Given([partner |-> i.partner, company |-> i.company, addon |-> i.addon, status |-> i.status,
           license_type |-> i.license_type, limit |-> i.limit])

LicenseQueryParams(i) ==
    Given([partner |-> i.partner, company |-> i.company, addon |-> i.addon, status |-> i.status,
           hosting |-> i.hosting, license_type |-> i.license_type, limit |-> i.limit])

Params(r, i) ==
    CASE r = "partner_revenue"      -> PartnerRevenueParams(i)
      [] r = "channel_split"        -> ChannelSplitParams(i)
      [] r = "top_partners"         -> TopPartnersParams(i)
      [] r = "mrr_trend"            -> MrrTrendParams(i)
      [] r = "arr_at_risk"          -> ArrAtRiskParams(i)
      [] r = "upsell_opportunities" -> UpsellParams(i)
      [] r = "license_query"        -> LicenseQueryParams(i)
      [] r = "revenue_comparison"   -> ComparisonParams(i)
      [] OTHER                      -> << >>

-----------------------------------------------------------------------------
\* The handlers, from the payload on.
Raises(r, body) ==
    \/ RowsRaise(body)
    \/ CASE r = "partner_revenue"      -> PartnerRevenueRaises(Rows(body))
         [] r = "channel_split"        -> SplitRaises(Rows(body))
         [] r = "top_partners"         -> TopPartnersRaises(Rows(body))
         [] r = "mrr_trend"            -> MrrRaises(Rows(body))
         [] r = "arr_at_risk"          -> ArrAtRiskRaises(Rows(body))
         [] r = "upsell_opportunities" -> UpsellRaises(Rows(body))
         [] r = "license_query"        -> LicenseRaises(Rows(body))
         [] r = "revenue_comparison"   -> ComparisonRaises(Rows(body))
         [] r = "data_quality_signals" -> ThresholdRaises(Rows(body))
         [] r = "execute_sql"          -> SqlRaises(body)

Data(r, body) ==
    CASE r = "partner_revenue"      -> PartnerRevenue(Rows(body))
      [] r = "channel_split"        -> ChannelSplit(Rows(body))
      [] r = "top_partners"         -> TopPartners(Rows(body))
      [] r = "mrr_trend"            -> MrrTrend(Rows(body))
      [] r = "arr_at_risk"          -> ArrAtRisk(Rows(body))
      [] r = "upsell_opportunities" -> UpsellOpportunities(Rows(body))
      [] r = "license_query"        -> LicenseQuery(Rows(body))
      [] r = "revenue_comparison"   -> Comparison(Rows(body))
      [] r = "data_quality_signals" -> DataQualitySignals(Rows(body))
      [] r = "execute_sql"          -> SqlResult(body)

\* What httpx can hand to the client: tables whose rows and column names are
\* sequences, with numbers, None or Junk in the columns that are added up.
IsSequence(s) == Len(s) \in Nat /\ s = [i \in 1..Len(s) |-> s[i]]

IsTable(table) ==
    /\ IsSequence(table.rows) /\ \A i \in DOMAIN table.rows : IsSequence(table.rows[i])
    /\ table.cols # None =>
          /\ IsSequence(table.cols)
          /\ \A i \in DOMAIN table.rows :
                \A j \in DOMAIN table.rows[i] \intersect DOMAIN table.cols :
                    table.cols[j] \in AmountColumns => IsAmount(table.rows[i][j])

IsWire(w) ==
    \/ w.kind \in {"timeout", "broken"}
    \/ /\ w.kind = "answer" /\ w.status \in Nat
       /\ w.body.kind \in {"text", "json", "object"}
       /\ HasRows(w.body) => IsTable(w.body.data)

ASSUME RpcsAssumption ==
    /\ DOMAIN Inputs \subseteq CardRpcNames \union {"execute_sql"}
    /\ DOMAIN Inputs \subseteq DOMAIN Wires

ASSUME WiresAssumption == \A r \in DOMAIN Wires : \A w \in Wires[r] : IsWire(w)

\* None is neither a set of parameters nor a payload.
ASSUME NoneAssumption ==
    \A r \in DOMAIN Inputs :
        /\ \A i \in Inputs[r] : Valid(r, i) => Params(r, i) # None
        /\ \A w \in Wires[r] :
              PostQuery(w) = Success /\ ~Raises(r, w.body) => Data(r, w.body) # None

Init ==
    /\ rpc \in DOMAIN Inputs
    /\ input \in Inputs[rpc]
    /\ sent = None /\ wire = None /\ outcome = None /\ data = None

\* The body does not validate; Metabase is not asked.
Reject ==
    /\ sent = None /\ outcome = None
    /\ ~Valid(rpc, input)
    /\ outcome' = Response(422, "VALIDATION_ERROR")
    /\ UNCHANGED <<rpc, input, sent, wire, data>>

Ask ==
    /\ sent = None /\ outcome = None
    /\ Valid(rpc, input)
    /\ sent' = Params(rpc, input)
    /\ UNCHANGED <<rpc, input, wire, outcome, data>>

Fail(w) ==
    /\ PostQuery(w) # Success
    /\ outcome' = PostQuery(w)
    /\ UNCHANGED data

Unpack(w) ==
    /\ PostQuery(w) = Success
    /\ IF Raises(rpc, w.body) THEN outcome' = Exception /\ UNCHANGED data
       ELSE outcome' = Success /\ data' = Data(rpc, w.body)

Receive ==
    /\ sent # None /\ outcome = None
    /\ \E w \in Wires[rpc] : wire' = w /\ (Fail(w) \/ Unpack(w))
    /\ UNCHANGED <<rpc, input, sent>>

Next ==
    \/ Reject
    \/ Ask
    \/ Receive

Spec == Init /\ [][Next]_vars

-----------------------------------------------------------------------------
Done      == outcome = Success
Delivered == Rows(wire.body)
CountDelivered == IF HasRows(wire.body) THEN Len(wire.body.data.rows) ELSE 0
SumOver(places, Amount_(_)) == Total([i \in places |-> Amount_(i)])

\* Whatever comes back, a call ends in one of the answers RequestPipeline
\* assumes of its handlers (or in the 422 of a body that does not validate),
\* with data only if it succeeds, and so would a health check: no status of
\* Metabase's reaches a consumer.
AnswersAsAssumed ==
    /\ outcome \in QueryAnswers \union {Response(422, "VALIDATION_ERROR"), None}
    /\ data # None <=> outcome = Success
    /\ wire # None => Health(wire) \in HealthAnswers

\* "Metabase returned 202 with no payload (queued)" (README.md:293): that, and
\* nothing else, is answered with EXCEEDED_SYNC_WINDOW.  A query that runs is not
\* taken for one without rows, nor a finished one for one that runs, and the
\* code is told from the other 504, of a Metabase that is silent.
QueuedIsToldApart ==
    wire # None =>
        (outcome = Response(504, "EXCEEDED_SYNC_WINDOW") <=>
            /\ wire.kind = "answer" /\ wire.status = 202 /\ wire.body.kind # "text"
            /\ ~HasRows(wire.body) /\ ~Completed(wire.body))

\* "Metabase returned a 4xx (e.g. SQL syntax error)" (README.md:292): a query
\* that Metabase says has failed, in the body of a 202, is an error for the
\* consumer too.
FailedQueriesAreErrors ==
    wire # None /\ wire.kind = "answer" /\ wire.status = 202 /\ wire.body.kind = "object" =>
        (wire.body.status = "failed" => outcome # Success)

\* The totals of a comparison are the sums of the rows of each period, where of
\* the rows with one key the LAST counts, and the deltas add up to the
\* difference of the totals, keys that one period lacks included.
ComparisonAddsUp ==
    Done /\ rpc = "revenue_comparison" =>
        LET rows    == Delivered
            Same(i, j) == Period(rows[i]) = Period(rows[j]) /\ Key(rows[i]) = Key(rows[j])
            Kept(p) == {i \in DOMAIN rows : Period(rows[i]) = p
                                           /\ \A j \in DOMAIN rows : j > i => ~Same(i, j)}
            Sum(p)  == SumOver(Kept(p), LAMBDA i : Revenue(rows[i]))
        IN  /\ data.period_a.total = Sum("a") /\ data.period_b.total = Sum("b")
            /\ SumOver(DOMAIN data.deltas, LAMBDA k : data.deltas[k].delta) = Sum("b") - Sum("a")

\* The MRR of each month is the sum of the contributions of its rows, negative
\* ones included, whatever the order and the time of day of the rows; each
\* breakdown is the sum of those of its rows that name a type.
MrrAddsUp ==
    Done /\ rpc = "mrr_trend" =>
        LET rows == Delivered
            Of(day) == {i \in DOMAIN rows : Month(rows[i]) # None /\ Day(Month(rows[i])) = day}
            Sum(places) == SumOver(places, LAMBDA i : Contribution(rows[i]))
            Typed(places, column) == {i \in places : Get(rows[i], column) # None}
        IN  /\ DOMAIN data = {Day(Month(rows[i])) : i \in {j \in DOMAIN rows : Month(rows[j]) # None}}
            /\ \A day \in DOMAIN data :
                  /\ data[day].mrr = Sum(Of(day))
                  /\ Total(data[day].by_customer_type) = Sum(Typed(Of(day), "customer_type"))
                  /\ Total(data[day].by_partner_type) = Sum(Typed(Of(day), "partner_type"))

\* The total at risk is the sum of all the buckets, several of one key included.
ArrAddsUp ==
    Done /\ rpc = "arr_at_risk" =>
        data.total_arr_at_risk =
            SumOver(DOMAIN data.breakdown, LAMBDA i : data.breakdown[i].arr)

\* The amounts of every report agree with the rows they were made of: the three
\* parts above.
ReportsAddUp == ComparisonAddsUp /\ MrrAddsUp /\ ArrAddsUp

\* execute_sql() returns every row, and its row_count is their number unless
\* Metabase counted otherwise; a count that is missing, null or 0 never shows.
SqlCountsItsRows ==
    Done /\ rpc = "execute_sql" =>
        /\ Len(data.rows) = CountDelivered
        /\ data.row_count \in {Len(data.rows)} \union ({wire.body.row_count} \ {None, 0})

\* Where the card gives no rank, or the right one, the ranks are 1, 2, 3, ...
RanksFollowTheRows ==
    Done /\ rpc = "top_partners" /\ (\A i \in DOMAIN Delivered :
                                        Get(Delivered[i], "rank") \in {None, 0, i}) =>
        \A i \in DOMAIN data : data[i].rank = i

\* The RPCs that return a list return one element for each row of the card, or
\* fail as a whole: no row is left out for a value that cannot be read.
EveryRowIsThere ==
    Done /\ rpc \in ListRpcs => Len(data) = CountDelivered

\* What a call returns has the rows the card gave, their number and, unless the
\* card ranks them otherwise, their places: the three parts above.
RowsAreKept == EveryRowIsThere /\ SqlCountsItsRows /\ RanksFollowTheRows

\* The amounts a report cannot do without: a null one is no zero.  Of
\* top_partners and channel_split a column that is missing is.
RequiredAmounts(rows) ==
    CASE rpc = "partner_revenue" -> {Get(rows[i], "net_revenue") : i \in DOMAIN rows}
      [] rpc = "top_partners"    -> {GetOr(rows[i], "net_revenue", 0) : i \in DOMAIN rows}
      [] rpc = "channel_split" /\ rows # << >> ->
             {GetOr(rows[1], c, 0) : c \in {"partner_revenue", "direct_revenue"}}
      [] OTHER -> {}

\* Rows without a value that cannot be converted.
Readable(rows) ==
    \A i \in DOMAIN rows :
        /\ \A c \in DOMAIN rows[i] : rows[i][c] # Junk
        /\ rpc = "mrr_trend" /\ Month(rows[i]) # None => Day(Month(rows[i])) \in Dates

\* One null where partner_revenue, top_partners or channel_split require an
\* amount fails the whole call, whatever the other rows hold: it is not shown
\* as 0 and its row is not left out.  Anywhere else a null fails nothing: rows
\* with nulls but without unreadable values are a success for every RPC.
NullsFailWhereRequired ==
    wire # None /\ rpc \in CardRpcNames =>
        (wire.kind = "answer" /\ wire.status < 400 /\ HasRows(wire.body) =>
            /\ None \in RequiredAmounts(Delivered) => outcome = Exception
            /\ None \notin RequiredAmounts(Delivered) /\ Readable(Delivered) =>
                  outcome = Success)

Says(cell, words) == cell \notin {None, Junk} /\ cell.word \in words

\* A check is an alarm, or in order, exactly if the card says so with one of two
\* words, in capitals or not and with blanks around it or not; a status that is
\* missing or that nobody foresaw is neither, and silences no alarm.
AlarmsAreKept ==
    Done /\ rpc = "data_quality_signals" =>
        \A i \in DOMAIN data :
            LET said == Get(Delivered[i], "status")
            IN  /\ data[i].status = "OK" <=> Says(said, {"OK", "PASS"})
                /\ data[i].status = "ACTION" <=> Says(said, {"ACTION", "FAIL"})

NextDay(d) ==
    IF d[3] < LengthOf(d[2]) THEN <<d[1], d[2], d[3] + 1>>
    ELSE IF d[2] < 12 THEN <<d[1], d[2] + 1, 1>>
    ELSE <<d[1] + 1, 1, 1>>

\* Two quarters in a row leave no day out and count none twice, over the turn of
\* a year too, and a period never ends before it begins.
QuartersMeet ==
    sent # None /\ rpc = "revenue_comparison" =>
        /\ AtOrBefore(sent.period_a_start, sent.period_a_end)
        /\ AtOrBefore(sent.period_b_start, sent.period_b_end)
        /\ LET a == input.period_a
               b == input.period_b
           IN  DOMAIN a = {"quarter", "year"} /\ DOMAIN b = {"quarter", "year"} =>
                  (4 * b.year + b.quarter = 4 * a.year + a.quarter + 1 =>
                      sent.period_b_start = NextDay(sent.period_a_end))

\* Every filter of the body reaches the card: one that is forgotten makes the
\* card answer for more than was asked.
EveryFilterIsSent ==
    sent # None /\ rpc \in CardRpcNames \ {"revenue_comparison"} =>
        \A tag \in DOMAIN input :
            input[tag] # None => tag \in DOMAIN sent /\ sent[tag] = input[tag]
=============================================================================
