SPECIFICATION IntakeSpec
CONSTANTS
    Requests = {r1, r2}
    Documents <- MCDocuments
    Nobody = Nobody
    MaxConcurrency = 1
    MaxBytes = 2
    Chunk = 2
    MaxChars = 1
    MaxPages = 2
    MaxOcrPages = 1
    MaxEntry = 2
    MaxEntries = 3
    MaxSections = 2
    MaxDuration = 1
INVARIANTS
    OversizeAnswered413
