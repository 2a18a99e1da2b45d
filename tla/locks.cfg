\* A lock left behind, over either store.  Local: a daemon, a command-line run
\* and another machine.  Remote: a daemon, killed and restarted, and another
\* machine, where the clock ends before the TTL of any lock taken here.
CONSTANTS
    s1 = s1  s2 = s2  s3 = s3
    daemon = daemon  cli = cli  other = other
    h1 = h1  h2 = h2  d1 = d1  d2 = d2
    Scope = {s1, s2, s3}
    Proc = {daemon, cli, other}
    Host = {h1, h2}
    ProcOf <- Apart
    HostOf <- Hosts
    OpsOf <- Verbs
    Nobody = Nobody
    Leftover <- Old
    Grace = 1
    TTL = 1
    MaxInode = 3
    MaxAcquire = 1
    MaxNow = 3
    MaxLives <- Lives
    Faults = {"metaFail", "rmFail"}
    RemoteScope = {s1, s3}
    RemoteProc = {daemon, other}
    Dir = {d1, d2}
    DirOf <- DirsOf
    RemoteLeftover <- FarFuture
    RemoteTTL = 9
    RemoteAcquire = 2
    RemoteLives = 2
    RemoteFaults = {}
SPECIFICATION LocksSpec
INVARIANT HolderKeepsLock
PROPERTIES MutexSpec LeftLockIsFreed
CHECK_DEADLOCK FALSE
