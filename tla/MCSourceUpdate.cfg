SPECIFICATION Spec
\* A lost executable stops the system until somebody reinstalls it.
CHECK_DEADLOCK FALSE
CONSTANTS
    MaxVersion = 3
    Sources <- MCSources
    Preserved <- MCPreserved
    Protected <- MCProtected
    Starters = {1, 2}
INVARIANTS
    TypeOK
    ExecutableSurvives
    InstalledNotOlder
    SourcesBeforeExecutable
PROPERTIES
    LocalStateKept
