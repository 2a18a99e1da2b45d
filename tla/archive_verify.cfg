\* One process on a local archive with a verify pass, and a source that loses files.
CONSTANTS
    daemon = daemon  cli = cli  day = day  Nobody = Nobody
    Instant <- MCInstant
    Tier = {day}
    BucketOf <- MCBucketOf
    Count <- MCCount
    Runner = {daemon}
    Kind = "local"
    Verify = TRUE
    Attempts = 1
    WindowOf <- MCWindowOf
    Skew = 0
    Kept = 2
    Files = {1, 4}
    MaxNow = 4
    MaxName = 4
    MaxCrash = 0
    MaxPlant = 0
    KeepLast = 1
    Faults = {"shrink"}
SPECIFICATION Spec
INVARIANTS CollapseHoldsHistory
