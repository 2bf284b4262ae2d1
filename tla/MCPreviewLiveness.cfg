\* Two uploads compete for one slot under the fairness of the event loop; no symmetry, liveness is checked.
SPECIFICATION FairServiceSpec
CONSTANTS
    Sessions = {u1, u2}
    Uploads = {u1, u2}
    Owners = {o1}
    Hashes = {u1, u2, o1}
    MappingIds = {m1}
    NoHash = NoHash
    Idle = Idle
    Restore = Restore
    TTL = 1
    MaxClock = 3
    MaxConcurrency = 1
    MaxRestarts = 1
INVARIANTS
    LimiterExact
PROPERTIES
    MappingsErased
    SlotReturned
