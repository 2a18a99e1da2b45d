\* A transfer, an estimate and store commands, each stopped at any moment.
CONSTANTS
    Passes <- RunPasses
    RetryAttempts = 2
    TimeoutStop = 90
    Probes = 2
SPECIFICATION FairSpec
INVARIANTS NoChildLeft StopFitsUnit
PROPERTIES CallSpec NoAttemptAfterStop PassEnds
CHECK_DEADLOCK FALSE
