SPECIFICATION Spec
CONSTANTS
    c1 = c1
    c2 = c2
    p1 = p1
    Clients <- MCClients
    Pids <- MCPids
    None = None
    Asks <- MCAsks
    MaxClicks = 3
    MaxFaults = 1
INVARIANTS
    TypeOK
    SettledShown
    AnswerEarned
PROPERTY
    ClickEnds
