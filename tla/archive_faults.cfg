\* One process on a remote archive: a verify pass, retries, failing store commands, unreadable
\* stats, a clock set back, a kill, and directories created by somebody else.
CONSTANTS
    daemon = daemon  cli = cli  day = day  Nobody = Nobody
    Instant <- MCInstant
    Tier = {day}
    BucketOf <- MCBucketOf
    Count <- MCCount
    Runner = {daemon}
    Kind = "remote"
    Verify = TRUE
    Attempts = 2
    WindowOf <- MCWindowOf
    Skew = 0
    Kept = 1
    Files = {1, 4}
    MaxNow = 2
    MaxName = 3
    MaxCrash = 1
    MaxPlant = 1
    KeepLast = 1
    Faults = {"insert", "clockBack", "shrink", "noStats", "storeFail"}
SPECIFICATION FairSpec
INVARIANTS WholeSnapshots PromotionIsReal
PROPERTY LeftoversSwept
