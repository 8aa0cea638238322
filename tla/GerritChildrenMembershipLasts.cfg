SPECIFICATION PairSpec
CONSTANTS
    Names <- Pair
    KindOf <- KindOfPair
    Gerrits <- TheGerrit
    OwnerOf <- BothOfTheGerrit
    Specs <- MCSpecs
    Edits <- MCEdits
    References <- MCReferences
    Parentless <- MCParentless
    SyncInterval = 0
    None = None
    MaxTimeOut = 10
    Width = 5
    Exponential <- MCExponential
    MaxFailures = 2
INVARIANT MembershipLasts
