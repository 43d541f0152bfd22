CONSTANTS
    Items <- AllItems
    MaxItems = 3
    ArgVs <- MCArgVs
    Number <- MCNumber
    PortSpecs <- MCPortSpecs
    Compiled <- MCCompiled
    Content <- MCContent
    Builtin <- MCBuiltin
    Garbage = Garbage
    Inherited <- MCInherited
    MaxFd = 6
SPECIFICATION StartupSpec
INVARIANTS LastValueWins TargetsAreTheOnesNamed DaemonIsDetached ZeroIsTaken
CHECK_DEADLOCK FALSE
