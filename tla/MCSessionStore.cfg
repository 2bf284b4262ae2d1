\* Two interchangeable sessions, two mappings each, a lifetime of two ticks.
SPECIFICATION BothSpec
CONSTANTS
    Sessions = {s1, s2}
    Hashes = {h1}
    MappingIds = {m1, m2}
    NoHash = NoHash
    TTL = 2
    MaxClock = 4
SYMMETRY SessionSymmetry
INVARIANTS
    StoreTypeOK
    RowsWithinSession
    LifetimeBounded
    SameMappings
    NoWiderAccess
PROPERTIES
    CleanupErasesExpired
    ImplementsVault
    MemoryImplementsVault
