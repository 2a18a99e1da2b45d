\* What a host does before a backup runs: configuration, service, agent.
CONSTANTS
    service = service  other = other  broken = broken  none = none
    etc = etc  home = home
    Path = {etc, home}
    Config <- Configs
    Broken = broken
    DirOf <- Dirs
    None = none
    MaxEdits = 1
    MaxCrash = 1
    MaxTrouble = 1
    MaxReboot = 1
    Service = service
    Other = other
    Groups <- Keys
    RemotesOf <- Sharing
    MaxAgents = 3
    MaxStarts = 2
    MaxFaults = 1
    Name = {"a", "b"}
    MaxDepth = 2
    File = {"main", "a", "b", "c"}
    Missing = "gone"
    Main = "main"
    Field = {"u", "v"}
    MaxIncludeDepth = 3
    Drafts <- MCDrafts
    Inclusions <- MCInclusions
SPECIFICATION HostSpec
INVARIANTS TextIsRead FilesAreMerged ReadyIsUsable
PROPERTIES StartsUnderWritten HaltsForGood
CHECK_DEADLOCK FALSE
