\* The daemon alone, through every kind of trouble, and after it.
SPECIFICATION FairSpec
CONSTANTS
    Config <- OneTarget
    WindowOf <- MCWindowOf
    AnchorAt <- MCAnchorAt
    Base = 2
    Cap = 3
    Recheck = 2
    Kept = 4
    MaxNow = 6
    MaxPass = 0
    MaxTrouble = 3
    Faults = {"fail", "offline", "diskLow", "stateDir", "stop", "kill"}
INVARIANT BackoffAgrees
PROPERTY Recovers
