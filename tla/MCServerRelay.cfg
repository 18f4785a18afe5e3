SPECIFICATION Spec
CONSTANTS
    c1 = c1
    c2 = c2
    Clients <- MCClients
    None = None
    MaxFd = 5
    MaxEvents = 3
INVARIANTS
    TypeOK
    AloneIsRight
    AloneIsTidy
    NothingTwice
PROPERTIES
    ImplementsCalls
    Answered
