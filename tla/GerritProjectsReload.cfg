SPECIFICATION Spec
CONSTANTS
    Projects <- OneProject
    Names <- TwoNames
    None = None
    ProjectOf <- BothOfApp
    SyncName <- Prefixed
    UserNames = {}
    UserActions = {}
    PeopleStop = FALSE
PROPERTY ReloadPreventsConflicts
