\* A daemon and a command-line pass over one target.
SPECIFICATION Spec
CONSTANTS
    Config <- OneTarget
    WindowOf <- MCWindowOf
    AnchorAt <- MCAnchorAt
    Base = 2
    Cap = 3
    Recheck = 2
    Kept = 3
    MaxNow = 6
    MaxPass = 1
    MaxTrouble = 2
    Faults = {"fail", "diskLow", "stateDir", "kill"}
INVARIANTS TypeOK FailureShows
PROPERTY OneVainRun
