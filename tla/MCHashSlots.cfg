SPECIFICATION Spec
\* Each request runs once: the instance ends when all are answered.
CHECK_DEADLOCK FALSE
CONSTANTS
    r1 = r1
    r2 = r2
    r3 = r3
    r4 = r4
    Requests <- MCRequests
    Loads <- MCLoads
    Nobody = Nobody
    Permits = 2
    Connections = 2
INVARIANTS
    TypeOK
    SlotsConserved
PROPERTIES
    EveryoneAnswered
