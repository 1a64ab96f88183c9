SPECIFICATION RedactSpec
\* The page is rendered once.
CHECK_DEADLOCK FALSE
CONSTANTS
    Roles <- MCRoles
    MaxLength = 6
INVARIANTS
    MaskedToQuote
    OnlySecretsHidden
