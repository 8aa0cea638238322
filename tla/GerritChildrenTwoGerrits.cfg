SPECIFICATION PairSpec
CONSTANTS
    Names <- Pair
    KindOf <- KindOfPair
    Gerrits <- TwoGerrits
    OwnerOf <- OneEach
    Specs <- MCSpecs
    Edits <- MCEdits
    References <- MCReferences
    Parentless <- MCParentless
    SyncInterval = 0
    None = None
    MaxTimeOut = 10
    Width = 5
    Exponential <- MCExponential
    MaxFailures = 2
INVARIANT RequestsReachTheOwner
