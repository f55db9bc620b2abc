---------------------------- MODULE MCCardRpcs ----------------------------
(***************************************************************************)
(* For each RPC: bodies on both sides of every bound, and payloads with up *)
(* to three rows over small alphabets of cells, with missing, null, zero,  *)
(* negative and unreadable ones and with both names a column may have.     *)
(***************************************************************************)
EXTENDS CardRpcs

MCDates    == {"2025-01-01", "2025-02-01"}
MCFirstTen == [t \in {"2025-01-01T00:00:00Z"} |-> "2025-01-01"]

-----------------------------------------------------------------------------
NewYear == <<2024, 12, 31>>
Jan     == <<2025, 1, 1>>
Mar     == <<2025, 3, 31>>
Windows == {<<NewYear, Jan>>, <<Jan, Jan>>, <<Jan, NewYear>>, <<Mar, Jan>>}

Q(quarter, year) == [quarter |-> quarter, year |-> year]
Unread           == [text |-> "last month"]
Span(a, b)       == [start_date |-> a, end_date |-> b]

NoFilter == [partner |-> None, company |-> None, addon |-> None, status |-> None,
             hosting |-> None, license_type |-> None, limit |-> 100]

MCInputs ==
    [revenue_comparison |->
        {[period_a |-> p[1], period_b |-> p[2], dimension |-> "channel"] :
            p \in {<<Q(1, 2025), Q(2, 2025)>>, <<Q(2, 2025), Q(3, 2025)>>, <<Q(3, 2025), Q(4, 2025)>>,
                   <<Q(4, 2024), Q(1, 2025)>>, <<Q(4, 9998), Q(1, 9999)>>, <<Q(3, 9999), Q(4, 9999)>>,
                   <<Q(1, 0), Q(2, 0)>>, <<Unread, Q(1, 2025)>>,
                   <<Span(Jan, Mar), Span(NewYear, Jan)>>, <<Span(Mar, Jan), Q(1, 2025)>>}},
     partner_revenue |->
        {[start_date |-> w[1], end_date |-> w[2], consolidate |-> TRUE, license_types |-> {"ACADEMIC"}] :
            w \in Windows},
     channel_split |->
        {[start_date |-> w[1], end_date |-> w[2], license_types |-> LicenseTypes] : w \in Windows},
     top_partners |->
        {[start_date |-> w[1], end_date |-> w[2], limit |-> n, consolidate |-> FALSE] :
            w \in Windows, n \in {0, 1, 100, 101}},
     mrr_trend |->
        {[months_back |-> n, partner_subtype |-> s] : n \in {0, 1, 120, 121}, s \in {None, "", "gold"}},
     arr_at_risk |->
        {[horizon_days |-> n, group_by |-> g] : n \in {0, 1, 730, 731}, g \in {"overall", "app", "week"}},
     upsell_opportunities |->
        {[horizon_days |-> n, min_seat_delta |-> m] : n \in {0, 1, 730, 731}, m \in {0, 1}},
     license_query |->
        {[NoFilter EXCEPT !.hosting = h, !.status = s, !.limit = n] :
            h \in {None, "Cloud", "cloud"}, s \in {None, "active"}, n \in {0, 1, 1000, 1001}}
        \union {[NoFilter EXCEPT !.partner = p, !.company = c, !.addon = a, !.license_type = t] :
            p \in {None, "p"}, c \in {None, "c"}, a \in {None, ""}, t \in {None, "ACADEMIC", "OEM"}},
     data_quality_signals |-> {<< >>},
     execute_sql |-> {<< >>}]

-----------------------------------------------------------------------------
Answer(status, body) == [kind |-> "answer", status |-> status, body |-> body]
Object(status, row_count, table) ==
    [kind |-> "object", status |-> status, row_count |-> row_count, data |-> table]
Table(cols, rows) == [cols |-> cols, rows |-> rows]
UpTo(n, cells) == UNION {[1..k -> cells] : k \in 0..n}

\* "OK", "pass", " Pass ", "WATCH", "action", " ACTION ", "Fail", " red".
Statuses ==
    {[word |-> s[1], upper |-> s[2], blanks |-> s[3]] :
        s \in {<<"OK", TRUE, FALSE>>, <<"PASS", FALSE, FALSE>>, <<"PASS", FALSE, TRUE>>,
               <<"WATCH", TRUE, FALSE>>, <<"ACTION", FALSE, FALSE>>, <<"ACTION", TRUE, TRUE>>,
               <<"FAIL", FALSE, FALSE>>, <<"RED", FALSE, TRUE>>}}

\* What may come back whatever was asked.
CommonWires ==
    {[kind |-> "timeout"], [kind |-> "broken"]} \union
    {Answer(status, body) :
        status \in {200, 202, 302, 400, 404, 500},
        body \in {[kind |-> "text"], [kind |-> "json"],
                  Object(None, None, None), Object("completed", 1, None), Object("failed", Junk, Junk),
                  Object("failed", 0, Table(<< >>, << >>)), Object("completed", None, Table(None, None)),
                  Object(None, 7, Table(None, << <<1>> >>))}}

Completed_(cols, rows) == {Answer(202, Object("completed", None, Table(cols, r))) : r \in rows}

MCWires ==
    [r \in DOMAIN MCInputs |-> CommonWires \union
     CASE r = "revenue_comparison" ->
            Completed_(<<"period", "dimension_key", "revenue">>,
                       UpTo(2, {"a", "B", None} \X {"x", "y"} \X {5, -2, None, Junk}) \union
                       UpTo(3, {"a", "B"} \X {"x", "y"} \X {5, -2}))
            \union Completed_(<<"key", "period", "revenue">>, UpTo(1, {"x", None} \X {"A", "c"} \X {5, 0}))
       [] r = "mrr_trend" ->
            Completed_(<<"mrr_month", "mrr_contribution", "customer_type">>,
                       UpTo(2, {"2025-01-01", "2025-01-01T00:00:00Z", None, "soon"}
                               \X {0, 4, Junk} \X {"new", None}) \union
                       UpTo(3, {"2025-01-01", "2025-01-01T00:00:00Z", "2025-02-01"}
                               \X {4, -1} \X {"new", "old"}))
            \union Completed_(<<"month", "mrr_contribution", "mrr", "partner_type">>,
                       UpTo(2, {"2025-01-01", ""} \X {0, 4} \X {9, None} \X {"gold", None}))
       [] r = "channel_split" ->
            Completed_(<<"partner_revenue", "direct_revenue", "direct_lines">>,
                       UpTo(2, {4, None, Junk} \X {-1, None} \X {2, None, Junk}))
            \union Completed_(<<"partner_lines">>, {<< <<3>> >>, << << >> >>})
       [] r = "top_partners" ->
            Completed_(<<"rank", "partner", "net_revenue">>,
                       UpTo(2, {None, 0, 1, 2, 5, Junk} \X {"p"} \X {3, None, Junk}))
            \union Completed_(<<"partner_name", "canonical_parent">>, UpTo(3, {"p", None} \X {"c", Junk}))
       [] r = "partner_revenue" ->
            Completed_(<<"partner", "net_revenue", "line_count">>,
                       UpTo(2, {"p", None} \X {3, None, Junk} \X {2, None, Junk}))
            \union Completed_(<<"partner", "net_revenue", "partner">>, {<< <<"p", 1, "q">> >>, << <<"p", 1>> >>})
       [] r = "arr_at_risk" ->
            Completed_(<<"key", "arr", "license_count">>,
                       UpTo(3, {"k", None} \X {7, None} \X {2}) \union
                       UpTo(2, {"k"} \X {7, Junk} \X {2, Junk}))
            \union Completed_(<<"group_key", "arr", "arr_at_risk">>, UpTo(1, {"k"} \X {7, 0} \X {8, None}))
       [] r = "upsell_opportunities" ->
            Completed_(<<"id", "current_seats", "delta_arr", "pricing_structure">>,
                       UpTo(2, {"l"} \X {10, None} \X {5, 0, Junk} \X {"dc_flat_annual", "new_band", None}))
       [] r = "license_query" ->
            Completed_(<<"id", "partnerName", "maintenance_end_date">>,
                       UpTo(2, {"l", None} \X {"p", Junk} \X {"2025-02-01", "soon", "", None}))
            \union Completed_(<<"license_id", "partner", "partnerName", "maintenanceStartDate">>,
                       UpTo(1, {"l"} \X {"", "p"} \X {"q", None} \X {"2025-01-01T00:00:00Z", Junk}))
       [] r = "data_quality_signals" ->
            Completed_(<<"check_name", "status">>,
                       UpTo(2, {"c", None} \X (Statuses \union {None, Junk})))
       [] r = "execute_sql" ->
            {Answer(202, Object(s, n, Table(<<"x">>, rows))) :
                s \in {"completed", "failed", None}, n \in {None, 0, 2, Junk}, rows \in UpTo(2, {<<1>>, << >>})}]
=============================================================================
