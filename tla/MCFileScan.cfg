SPECIFICATION Spec
CONSTANTS
    c1 = c1
    c2 = c2
    s1 = s1
    f1 = f1
    f2 = f2
    d1 = d1
    d2 = d2
    d3 = d3
    Clients <- MCClients
    Strays <- MCStrays
    Files <- MCFiles
    Folders <- MCFolders
    Own <- MCOwn
    Sub <- MCSub
    Quick <- MCQuick
    Full <- MCFull
    Matched <- MCMatched
    None = None
    Torn = Torn
    Asks <- MCAsks
    MaxScans = 2
    MaxChanges = 1
SYMMETRY Symmetry
INVARIANTS
    TypeOK
    QuietScanIsRight
    VerdictsJudged
    VirusesJudged
