\* One process on a local archive, nothing failing but rsync.
CONSTANTS
    daemon = daemon  cli = cli  day = day  Nobody = Nobody
    Instant <- MCInstant
    Tier = {day}
    BucketOf <- MCBucketOf
    Count <- MCCount
    Runner = {daemon}
    Kind = "local"
    Verify = FALSE
    Attempts = 2
    WindowOf <- MCWindowOf
    Skew = 0
    Kept = 2
    Files = {4}
    MaxNow = 4
    MaxName = 4
    MaxCrash = 0
    MaxPlant = 0
    KeepLast = 1
    Faults = {}
SPECIFICATION Spec
INVARIANTS SnapshotImmutable
