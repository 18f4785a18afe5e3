SPECIFICATION FairSpec
\* After cleanup_spybot nothing of the module is left to move.
CHECK_DEADLOCK FALSE
CONSTANTS
    e1 = e1
    e2 = e2
    r1 = r1
    n1 = n1
    n2 = n2
    n3 = n3
    Execs <- MCExecs
    Readers <- MCReaders
    Nodes <- MCNodes
    NULL = NULL
    Idle = Idle
    MinId = 0
    MaxId = 0
    IdCap = 2
    InitOnAlloc = TRUE
INVARIANTS
    TypeOK
    ListSound
    NoRecordLost
    Exclusive
    IdRestored
    OneLeftEach
PROPERTIES
    ImplementsFifo
    ExecProceeds
