SPECIFICATION Spec
CONSTANTS
    r1 = r1
    r2 = r2
    Requests <- MCRequests
    MaxEnrollments = 2
    CodesPerSet = 1
    MaxCodes = 2
    LastStep = 2
SYMMETRY Symmetry
INVARIANTS
    TypeOK
    CodeAcceptedOnce
    ConfirmedMeansProved
    SecondFactorImpliesFlag
PROPERTY
    ImplementsOneTimeCodes
