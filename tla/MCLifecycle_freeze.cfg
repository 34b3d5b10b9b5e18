CONSTANTS
    MaxStarts = 2
    X86Syscalls <- X86List
    AarchSyscalls <- AarchList
    X86Openat <- X86OpenatNr
    AarchOpenat <- AarchOpenatNr
    HostArch = 1
SPECIFICATION FairSpec
CHECK_DEADLOCK FALSE
INVARIANT FrozenWhileServing
INVARIANT FilterExact
INVARIANT ExitLeavesNothing
PROPERTY CleanStartServes
PROPERTY StopReachesBroker
