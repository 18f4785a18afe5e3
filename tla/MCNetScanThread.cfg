SPECIFICATION FairSpec
CONSTANTS
    c1 = c1
    c2 = c2
    p1 = p1
    p2 = p2
    i1 = i1
    Clients <- NoClients
    Pids <- TwoPids
    Ips <- MCIps
    Ports <- MCPorts
    None = None
    MaxLines = 1
    MaxOrphans = 1
PROPERTIES
    ScansForever
    KillsWhatItSaw
