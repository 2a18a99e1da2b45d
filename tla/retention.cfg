\* A snapshot target with a history of up to eight runs, thinned by four tiers
\* and keepLast and restored from; and a mirror target run by two processes.
SPECIFICATION TargetsSpec
CONSTANTS
    Instant <- MCInstant
    Tier <- MCTier
    BucketOf <- MCBucketOf
    Count <- MCCount
    KeepLast = 2
    MaxRestore = 1
    Schedule <- MCSchedule
    Runner <- Runners
    Files = {1, 4}
    WindowOf <- MCWindowOf
    Verify = TRUE
    Kept = 2
    MaxNow = 3
    MaxRun = 3
    Faults = {"fail", "noStats", "stop", "stateDir", "kill"}
INVARIANTS PlanIsScheduleFree TiersCovered VerifiedIsWhole NextDueIsDue
PROPERTY LossNeedsForce
CHECK_DEADLOCK FALSE
