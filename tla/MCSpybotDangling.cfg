SPECIFICATION Spec
CONSTANTS
    c1 = c1
    c2 = c2
    p1 = p1
    Callers <- MCCallers
    Pids <- MCPids
    NrSyscalls = 2
    Execve = 1
    MaxIdt = 0
    Asked <- MCRacing
INVARIANT
    NoDanglingHook
