\* A daemon and a command-line process on one local archive: kills at any point, failing
\* store commands, runs and prunes with and without --force.
CONSTANTS
    daemon = daemon  cli = cli  day = day  Nobody = Nobody
    Instant <- MCInstant
    Tier = {day}
    BucketOf <- MCBucketOf
    Count <- MCCount
    Runner = {daemon, cli}
    Kind = "local"
    Verify = FALSE
    Attempts = 2
    WindowOf <- MCWindowOf
    Skew = 0
    Kept = 9
    Files = {4}
    MaxNow = 3
    MaxName = 3
    MaxCrash = 1
    MaxPlant = 0
    KeepLast = 1
    Faults = {"storeFail"}
SPECIFICATION Spec
INVARIANTS TypeOK WholeSnapshots NoFalseAlarm
PROPERTIES OnePerWindow OnlyRefillsTouch HistorySpec
SYMMETRY Interchangeable
