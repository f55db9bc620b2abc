---------------------------- MODULE CardReshape ----------------------------
(***************************************************************************)
(* What each RPC makes of the rows of its card.  A row is a function from  *)
(* column names to cells; a numeric cell is an integer, None or Junk, a    *)
(* text cell a string, None or Junk.  Where the spelling of a text matters *)
(* beyond lower(), in the status of a check, the text is a record:         *)
(*     [word, upper, blanks]  its word in upper case; whether it is        *)
(*     written so; whether there are blanks around it                      *)
(* X(rows) is the data of RPC X, and XRaises(rows) says that the reshaping *)
(* raises, which ends in a 500.  Lists sorted by a key are functions of    *)
(* the key here.                                                           *)
(***************************************************************************)
EXTENDS Integers, SequencesExt, MetabaseClient

CONSTANTS
    Dates,          \* the texts date.fromisoformat() accepts
    FirstTen        \* the first ten characters of the texts that are longer

\* The columns that are added up; in them a row has a number, null or no number.
AmountColumns == {"revenue", "mrr_contribution", "mrr", "arr", "arr_at_risk"}
IsAmount(cell) == cell \in {None, Junk} \/ cell \in Int

ASSUME NumbersAssumption == None \notin Int /\ Junk \notin Int

Get(row, column)        == IF column \in DOMAIN row THEN row[column] ELSE None
GetOr(row, column, v)   == IF column \in DOMAIN row THEN row[column] ELSE v

\* Python's `or`, whose first operand is a number or a text.
Or(v, w)     == IF v \in {None, 0} THEN w ELSE v
OrText(v, w) == IF v \in {None, ""} THEN w ELSE v

\* r.get(c1) or r.get(c2) or ... or 0
Amount(row, columns) ==
    FoldRight(LAMBDA column, rest : Or(Get(row, column), rest), columns, 0)

Text(row, columns, otherwise) ==
    FoldRight(LAMBDA column, rest : OrText(Get(row, column), rest), columns, otherwise)

Day(text) == IF text \in DOMAIN FirstTen THEN FirstTen[text] ELSE text

\* table[key] = value
Put(table, key, value) ==
    [k \in DOMAIN table \union {key} |-> IF k = key THEN value ELSE table[k]]

At(table, key) == IF key \in DOMAIN table THEN table[key] ELSE 0
Total(table)   == MapThenSumSet(LAMBDA key : table[key], DOMAIN table)

Some(rows, Bad(_)) == \E i \in DOMAIN rows : Bad(rows[i])
Each(rows, Make(_)) == [i \in DOMAIN rows |-> Make(rows[i])]

-----------------------------------------------------------------------------
\* revenue_comparison
Lowered == [A |-> "a", B |-> "b"]
Lower(text) == IF text \in DOMAIN Lowered THEN Lowered[text] ELSE text

Period(row)  == Lower(Text(row, <<"period">>, ""))
Key(row)     == Text(row, <<"dimension_key", "key">>, "")
Revenue(row) == Amount(row, <<"revenue">>)

ByKey(rows, period) ==
    FoldLeft(LAMBDA table, row : IF Period(row) = period
                                 THEN Put(table, Key(row), Revenue(row)) ELSE table,
             << >>, rows)

ComparisonRaises(rows) == Some(rows, LAMBDA row : Revenue(row) = Junk)

Summary(table) == [total |-> Total(table), by_dimension |-> table]

Deltas(a, b) ==
    [k \in DOMAIN a \union DOMAIN b |->
        [period_a |-> At(a, k), period_b |-> At(b, k), delta |-> At(b, k) - At(a, k)]]

Comparison(rows) ==
    LET a == ByKey(rows, "a")
        b == ByKey(rows, "b")
    IN  [period_a |-> Summary(a), period_b |-> Summary(b), deltas |-> Deltas(a, b)]

-----------------------------------------------------------------------------
\* mrr_trend
Month(row)        == OrText(Get(row, "mrr_month"), Get(row, "month"))
Contribution(row) == Amount(row, <<"mrr_contribution", "mrr">>)

NewPoint == [mrr |-> 0, by_customer_type |-> << >>, by_partner_type |-> << >>]

AddTo(table, key, amount) ==
    IF key = None THEN table ELSE Put(table, key, At(table, key) + amount)

\* Faulty variant: the first row of a month is its whole amount.
AddPointOnce(series, row) ==
    IF Month(row) = None \/ Day(Month(row)) \in DOMAIN series THEN series
    ELSE LET c == Contribution(row)
         IN  Put(series, Day(Month(row)),
                 [mrr |-> c,
                  by_customer_type |-> AddTo(<< >>, Get(row, "customer_type"), c),
                  by_partner_type  |-> AddTo(<< >>, Get(row, "partner_type"), c)])

AddPoint(series, row) ==
    IF Month(row) = None THEN series
    ELSE LET day   == Day(Month(row))
             point == IF day \in DOMAIN series THEN series[day] ELSE NewPoint
             c     == Contribution(row)
         IN  Put(series, day,
                 [mrr |-> point.mrr + c,
                  by_customer_type |-> AddTo(point.by_customer_type, Get(row, "customer_type"), c),
                  by_partner_type  |-> AddTo(point.by_partner_type, Get(row, "partner_type"), c)])

\* A row without a month is skipped before its amount is read.
MrrRaises(rows) ==
    Some(rows, LAMBDA row : /\ Month(row) # None
                            /\ Contribution(row) = Junk \/ Day(Month(row)) \notin Dates)

MrrTrend(rows) == FoldLeft(AddPoint, << >>, rows)

-----------------------------------------------------------------------------
\* channel_split: the amounts of the first row; a null revenue is no number.
Group(row, revenue, lines, licenses) ==
    [revenue |-> GetOr(row, revenue, 0),
     line_count |-> Amount(row, <<lines>>), license_count |-> Amount(row, <<licenses>>)]

PartnerGroup(row) ==
    Group(row, "partner_revenue", "partner_lines", "partner_distinct_licenses")
DirectGroup(row) ==
    Group(row, "direct_revenue", "direct_lines", "direct_distinct_licenses")

NotANumber(group) == group.revenue \in {None, Junk} \/ Junk \in {group.line_count, group.license_count}

SplitRaises(rows) ==
    rows # << >> /\ (NotANumber(PartnerGroup(rows[1])) \/ NotANumber(DirectGroup(rows[1])))

SplitOf(partner, direct) ==
    [partner |-> partner, direct |-> direct,
     total |-> [revenue |-> partner.revenue + direct.revenue,
                line_count |-> partner.line_count + direct.line_count,
                license_count |-> partner.license_count + direct.license_count]]

EmptyGroup == [revenue |-> 0, line_count |-> 0, license_count |-> 0]

ChannelSplit(rows) ==
    IF rows = << >> THEN SplitOf(EmptyGroup, EmptyGroup)
    ELSE SplitOf(PartnerGroup(rows[1]), DirectGroup(rows[1]))

-----------------------------------------------------------------------------
\* top_partners: a rank that is missing, null or 0 is the row's place.
TopPartnersRaises(rows) ==
    Some(rows, LAMBDA row : \/ Get(row, "rank") = Junk
                            \/ Get(row, "canonical_parent") = Junk
                            \/ GetOr(row, "net_revenue", 0) \in {None, Junk})

\* Faulty variant: enumerate(rows) without its start=1.
TopPartnersFromZero(rows) ==
    [i \in DOMAIN rows |->
        [rank |-> Or(Get(rows[i], "rank"), i - 1),
         partner |-> Text(rows[i], <<"partner", "partner_name">>, ""),
         canonical_parent |-> Get(rows[i], "canonical_parent"),
         net_revenue |-> GetOr(rows[i], "net_revenue", 0)]]

TopPartners(rows) ==
    [i \in DOMAIN rows |->
        [rank |-> Or(Get(rows[i], "rank"), i),
         partner |-> Text(rows[i], <<"partner", "partner_name">>, ""),
         canonical_parent |-> Get(rows[i], "canonical_parent"),
         net_revenue |-> GetOr(rows[i], "net_revenue", 0)]]

\* partner_revenue: PartnerRevenueRow.model_validate() requires an amount.
PartnerRow(row) ==
    [partner |-> Get(row, "partner"), canonical_parent |-> Get(row, "canonical_parent"),
     net_revenue |-> Get(row, "net_revenue"), line_count |-> Get(row, "line_count"),
     distinct_license_count |-> Get(row, "distinct_license_count")]

\* Faulty variant: the amount is optional, as the counts are.
PartnerRevenueRaisesLess(rows) ==
    Some(rows, LAMBDA row : Junk \in {Get(row, "net_revenue"), Get(row, "line_count"),
                                      Get(row, "distinct_license_count"),
                                      Get(row, "partner"), Get(row, "canonical_parent")})

PartnerRevenueRaises(rows) ==
    Some(rows, LAMBDA row : \/ Get(row, "net_revenue") = None
                            \/ Junk \in {Get(row, "net_revenue"), Get(row, "line_count"),
                                         Get(row, "distinct_license_count"),
                                         Get(row, "partner"), Get(row, "canonical_parent")})

PartnerRevenue(rows) == Each(rows, PartnerRow)

-----------------------------------------------------------------------------
\* arr_at_risk
Bucket(row) ==
    [key |-> Text(row, <<"key", "group_key">>, "overall"),
     arr |-> Amount(row, <<"arr", "arr_at_risk">>),
     license_count |-> Amount(row, <<"license_count", "licenses_at_risk">>)]

ArrAtRiskRaises(rows) ==
    Some(rows, LAMBDA row : Junk \in {Bucket(row).arr, Bucket(row).license_count})

ArrAtRisk(rows) ==
    [total_arr_at_risk |-> FoldLeft(LAMBDA sum, row : sum + Bucket(row).arr, 0, rows),
     breakdown |-> Each(rows, Bucket)]

-----------------------------------------------------------------------------
\* upsell_opportunities: an unknown pricing structure is none.
PricingStructures == {"cloud_marginal_band", "dc_flat_annual", "server_purchase_renewal"}
CoercePricing(v)  == IF v \in PricingStructures THEN v ELSE None

UpsellAmounts == {"current_seats", "projected_seats", "current_arr", "projected_arr", "delta_arr"}

UpsellRow(row) ==
    [license_id |-> Text(row, <<"license_id", "id">>, ""),
     partner |-> Get(row, "partner"), app |-> Text(row, <<"app">>, ""),
     amounts |-> [c \in UpsellAmounts |-> Amount(row, <<c>>)],
     pricing_structure |-> CoercePricing(Get(row, "pricing_structure"))]

UpsellRaises(rows) ==
    Some(rows, LAMBDA row : \/ \E c \in UpsellAmounts : Get(row, c) = Junk
                            \/ Get(row, "partner") = Junk)

UpsellOpportunities(rows) == Each(rows, UpsellRow)

-----------------------------------------------------------------------------
\* license_query: a date that cannot be read is none.
CoerceDate(v) == IF v # None /\ Day(v) \in Dates THEN Day(v) ELSE None

License(row) ==
    [id |-> Text(row, <<"id", "license_id">>, ""),
     partner |-> OrText(Get(row, "partner"), Get(row, "partnerName")),
     company |-> OrText(Get(row, "company"), Get(row, "companyName")),
     addon |-> OrText(Get(row, "addon"), Get(row, "addonName")),
     status |-> Get(row, "status"), hosting |-> Get(row, "hosting"),
     license_type |-> OrText(Get(row, "license_type"), Get(row, "licenseType")),
     maintenance_start_date |->
        CoerceDate(OrText(Get(row, "maintenance_start_date"), Get(row, "maintenanceStartDate"))),
     maintenance_end_date |->
        CoerceDate(OrText(Get(row, "maintenance_end_date"), Get(row, "maintenanceEndDate")))]

LicenseRaises(rows) ==
    Some(rows, LAMBDA row :
        \E c \in {"partner", "company", "addon", "status", "hosting", "license_type"} :
            License(row)[c] = Junk)

LicenseQuery(rows) == Each(rows, License)

-----------------------------------------------------------------------------
\* data_quality_signals
Strip(text) == [word |-> text.word, upper |-> text.upper, blanks |-> FALSE]
Upper(text) == [word |-> text.word, upper |-> TRUE, blanks |-> text.blanks]
Plain(word) == [word |-> word, upper |-> TRUE, blanks |-> FALSE]

\* Faulty variant: a text with blanks around it is nobody's word.
IsOneOfUnstripped(v, words) ==
    v \notin {None, Junk} /\ \E word \in words : Upper(v) = Plain(word)

\* v.strip().upper() in words, for a text
IsOneOf(v, words) ==
    v \notin {None, Junk} /\ \E word \in words : Upper(Strip(v)) = Plain(word)

\* Faulty variant: a status nobody knows is no reason to worry.
CoerceStatusCalmly(v) ==
    CASE IsOneOf(v, {"WATCH"}) -> "WATCH"
      [] IsOneOf(v, {"ACTION", "FAIL"}) -> "ACTION"
      [] OTHER -> "OK"

CoerceStatus(v) ==
    CASE IsOneOf(v, {"OK", "PASS"}) -> "OK"
      [] IsOneOf(v, {"ACTION", "FAIL"}) -> "ACTION"
      [] OTHER -> "WATCH"

Check(row) ==
    [check_name |-> Text(row, <<"check_name">>, ""), status |-> CoerceStatus(Get(row, "status")),
     count_or_sample |-> Get(row, "count_or_sample")]

ThresholdRaises(rows) == Some(rows, LAMBDA row : Get(row, "threshold_context") = Junk)

DataQualitySignals(rows) == Each(rows, Check)

-----------------------------------------------------------------------------
\* execute_sql: the payload as it is, its count of rows if it has one.
SqlRaises(body) == RowsRaise(body) \/ body.row_count = Junk

SqlResult(body) ==
    [rows |-> IF HasRows(body) THEN body.data.rows ELSE << >>,
     row_count |-> Or(body.row_count, IF HasRows(body) THEN Len(body.data.rows) ELSE 0),
     status |-> body.status]
=============================================================================
