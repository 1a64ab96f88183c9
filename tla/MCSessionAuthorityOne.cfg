SPECIFICATION Spec
CONSTANTS
    r1 = r1
    r2 = r2
    u1 = u1
    u2 = u2
    NoUser = NoUser
    Users <- OneUser
    Requests <- MCRequests
    Roles <- MCRoles
    Operations <- All
    MaxEpoch = 2
    MaxSid = 2
    MaxGrant = 2
SYMMETRY Symmetry
INVARIANTS
    TypeOK
    LoggedOutStaysOut
    SecondFactorBehindSession
