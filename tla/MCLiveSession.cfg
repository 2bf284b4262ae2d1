\* One upload is enough: its parser takes longer than a tick.
SPECIFICATION ServiceSpec
CONSTANTS
    Sessions = {u1}
    Uploads = {u1}
    Owners = {o1}
    Hashes = {u1, o1}
    MappingIds = {m1}
    NoHash = NoHash
    Idle = Idle
    Restore = Restore
    TTL = 2
    MaxClock = 4
    MaxConcurrency = 1
    MaxRestarts = 0
INVARIANT
    LiveSessionRestorable
