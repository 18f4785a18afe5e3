SPECIFICATION Spec
CONSTANTS
    u1 = u1
    u2 = u2
    i1 = i1
    h1 = h1
    h2 = h2
    Updaters <- MCUpdaters
    Ips <- MCIps
    Hashes <- MCHashes
    None = None
    Lists <- MCLists
    Asks <- MCAsks
    MaxEvents = 3
INVARIANTS
    TypeOK
    AnswersFit
    RowsExplained
PROPERTY
    ListedIsStored
