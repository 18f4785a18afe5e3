SPECIFICATION Spec
CONSTANTS
    c1 = c1
    c2 = c2
    p1 = p1
    p2 = p2
    i1 = i1
    Clients <- MCClients
    Pids <- MCPids
    Ips <- MCIps
    Ports <- MCPorts
    None = None
    MaxLines = 2
    MaxOrphans = 0
SYMMETRY Symmetry
INVARIANTS
    TypeOK
    KillsAccounted
    SpofsAccounted
