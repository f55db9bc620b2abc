SPECIFICATION Spec
CONSTANTS
    None = None
    CardRpcs = {"mrr_trend", "top_partners"}
    OtherRpcs = {"execute_sql"}
    Settings <- MCSettings
    MaxCreations = 2
INVARIANTS
    NoneDisables
