\* A text preview while an upload awaits, of either of two callers; restores with any mix of session, token and caller.
SPECIFICATION ServiceSpec
CONSTANTS
    Sessions = {t1, u1}
    Uploads = {u1}
    Owners = {o1, o2}
    Hashes = {t1, u1, o1, o2}
    MappingIds = {m1, m2}
    NoHash = NoHash
    Idle = Idle
    Restore = Restore
    TTL = 2
    MaxClock = 4
    MaxConcurrency = 1
    MaxRestarts = 1
SYMMETRY MCSymmetry
INVARIANTS
    ServiceTypeOK
    CompleteWhileRestorable
    RestoreAllOrNothing
PROPERTIES
    LapsedForGood
