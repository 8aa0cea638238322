SPECIFICATION GroupSpec
CONSTANTS
    Names <- MCNames
    KindOf <- MCKindOf
    Gerrits <- TheGerrit
    OwnerOf <- OfTheGerrit
    Specs <- MCSpecs
    Edits <- MCEdits
    References <- MCReferences
    Parentless <- MCParentless
    SyncInterval = 0
    None = None
    MaxTimeOut = 10
    Width = 5
    Exponential <- MCExponential
    MaxFailures = 2
PROPERTY GroupInSync
