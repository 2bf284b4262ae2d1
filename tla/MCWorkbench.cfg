CONSTANTS
    MaxEntries = 2
    TokenTtl = 1
    Texts = {t1, t2}
    Empty = Empty
    DefaultText = t1
    Panels = {r1}
    MaxSessions = 3
    MaxComparisons = 2
    MaxTime = 2
SPECIFICATION WorkbenchSpec
INVARIANTS
    WorkbenchTypeOK
    TokensKept
    BusyMeansPending
    ShownMatchesInput
PROPERTIES
    NoExpiredTokenSent
    RequestsEnd
