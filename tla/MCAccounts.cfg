SPECIFICATION Spec
CONSTANTS
    r1 = r1
    r2 = r2
    e1 = e1
    e2 = e2
    p1 = p1
    p2 = p2
    None = None
    NoPassword = NoPassword
    Requests <- MCRequests
    Emails <- MCEmails
    Passwords <- MCPasswords
    Names <- MCNames
    Roles <- MCRoles
    MaxId = 2
SYMMETRY Symmetry
INVARIANTS
    TypeOK
    UniqueIdentity
    FirstTimeOnce
    AdminRemains
    PasswordBelongs
    RetiredStaysRetired
