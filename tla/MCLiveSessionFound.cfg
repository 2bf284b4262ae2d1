\* One session, one mapping: found by its owner as soon as it exists.
SPECIFICATION BothSpec
CONSTANTS
    Sessions = {s1, s2}
    Hashes = {h1}
    MappingIds = {m1}
    NoHash = NoHash
    TTL = 2
    MaxClock = 2
INVARIANTS
    LiveSessionFound
