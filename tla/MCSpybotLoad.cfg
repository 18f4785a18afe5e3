SPECIFICATION FairSpec
CONSTANTS
    c1 = c1
    c2 = c2
    p1 = p1
    Callers <- MCCallers
    Pids <- MCNoPids
    NrSyscalls = 1
    Execve = 0
    MaxIdt = 1
    Asked <- MCLoading
INVARIANTS
    PageSealed
    OwnHookKept
PROPERTIES
    UnloadLeavesNoPointer
    CallsReturn
