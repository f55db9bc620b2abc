---------------------------- MODULE ApiKeyConfig ----------------------------
(***************************************************************************)
(* parse_api_key_config(): from the text of CONNECTOR_API_KEYS to the      *)
(* table of the auth middleware.  The text is a sequence of lines, a line  *)
(* the sequence of its parts between semicolons.  What the parser tells    *)
(* apart of a part: it is blank, begins with '#', holds no '=', or is      *)
(*     key = fields[1] | fields[2] | ...                                   *)
(* with a scope list, in field 3, as the set of its names.                 *)
(***************************************************************************)
EXTENDS Sequences, SequencesExt

Scopes        == {"general", "raw_sql", "operator"}
ConsumerTypes == {"backend_service_account", "interactive_script", "llm_agent"}

Blank     == [form |-> "blank"]
Comment   == [form |-> "comment"]
NoEquals  == [form |-> "no equals"]
Entry(key, fields) == [form |-> "entry", key |-> key, fields |-> fields]

\* Whether a part makes an entry of the table.
IsWellFormed(part) ==
    /\ part.form = "entry"
    /\ Len(part.fields) >= 3
    /\ part.fields[2] \in ConsumerTypes

\* Unknown scopes are dropped, the entry is kept.
Identity(part) ==
    [id |-> part.fields[1],
     consumer_type |-> part.fields[2],
     scope |-> part.fields[3] \intersect Scopes,
     rate_limit_class |-> IF Len(part.fields) > 3 /\ part.fields[4] # ""
                          THEN part.fields[4] ELSE "default"]

\* table[key] = value
Put(table, key, value) ==
    [k \in DOMAIN table \union {key} |-> IF k = key THEN value ELSE table[k]]

\* Faulty variant: the first entry of a key stays.
AddEntryOnce(table, part) ==
    IF IsWellFormed(part) /\ part.key \notin DOMAIN table
    THEN Put(table, part.key, Identity(part))
    ELSE table

AddEntry(table, part) ==
    IF IsWellFormed(part) THEN Put(table, part.key, Identity(part)) ELSE table

\* A text is a sequence of lines, a line a sequence of parts.
PartsIn(raw) == UNION {{raw[i][j] : j \in DOMAIN raw[i]} : i \in DOMAIN raw}
IsText(raw)  == raw \in Seq(Seq(PartsIn(raw)))

\* raw.replace(";", "\n").splitlines(): the parts of every line, in order.
Parts(raw) == FlattenSeq(raw)

ParseApiKeyConfig(raw) == FoldLeft(AddEntry, << >>, Parts(raw))

-----------------------------------------------------------------------------
\* What an operator reads in the text: a key's entry is its last one.
LastEntry(raw, key) ==
    LET parts == Parts(raw)
        mine  == {i \in DOMAIN parts : IsWellFormed(parts[i]) /\ parts[i].key = key}
    IN  parts[CHOOSE i \in mine : \A j \in mine : j <= i]

KeysOf(raw) == {Parts(raw)[i].key : i \in {j \in DOMAIN Parts(raw) : IsWellFormed(Parts(raw)[j])}}
=============================================================================
