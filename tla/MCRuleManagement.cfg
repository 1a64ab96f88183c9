SPECIFICATION Spec
CONSTANTS
    t1 = t1
    t2 = t2
    m1 = m1
    m2 = m2
    Tabs <- MCTabs
    Modules <- MCModules
    ValidNames <- MCModules
    MaxModules = 2
    Searches <- MCSearches
    RuleNames <- MCRuleNames
    Contents <- MCContents
    Installed <- MCInstalled
    MaxCalls = 2
SYMMETRY Symmetry
INVARIANTS
    TypeOK
    ListsWellFormed
    SavesInOrder
    SuccessMeansApplied
PROPERTIES
    NoSilentRevert
