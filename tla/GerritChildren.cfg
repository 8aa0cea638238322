SPECIFICATION ChildrenSpec
CONSTANTS
    Names <- MCNames
    KindOf <- MCKindOf
    Gerrits <- TheGerrit
    OwnerOf <- OfTheGerrit
    Specs <- MCSpecs
    Edits <- MCEdits
    References <- MCReferences
    Parentless <- MCParentless
    SyncInterval = 0
    None = None
    MaxTimeOut = 10
    Width = 5
    Exponential <- MCExponential
    MaxFailures = 2
INVARIANTS
    TypeOK
    NothingForgotten
PROPERTIES
    OkIsTrue
    ReleasedCleanly
    MembershipArrives
    GroupFollowsSpec
    RightsArrive
    RightsReplaced
    DeletionCompletes
    BacksOff
