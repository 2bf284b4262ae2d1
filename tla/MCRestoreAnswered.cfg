\* One text preview and one restore at the end of its life.
SPECIFICATION ServiceSpec
CONSTANTS
    Sessions = {t1}
    Uploads = {}
    Owners = {o1}
    Hashes = {t1, o1}
    MappingIds = {m1}
    NoHash = NoHash
    Idle = Idle
    Restore = Restore
    TTL = 2
    MaxClock = 4
    MaxConcurrency = 1
    MaxRestarts = 0
INVARIANT
    RestoreAnswered
