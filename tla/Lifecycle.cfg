\* Two runs: one that may be cut off anywhere, and one that meets what it left.
\* Pages of two entries, so that a ledger of up to five takes several.
SPECIFICATION FairSpec
CONSTANTS
    MaxRuns = 2
    MaxOther = 2
    MaxCatalog = 2
    Grant = 2
    PageSize = 2
    None = None
INVARIANTS
    TypeOK
    OneEffect
    StableIdentity
    ReuseHasACause
    ExportIsExact
PROPERTIES
    RunsEnd
CHECK_DEADLOCK FALSE
