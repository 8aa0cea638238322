SPECIFICATION Spec
CONSTANTS
    Projects <- OneProject
    Names <- TwoNames
    None = None
    ProjectOf <- BothOfApp
    SyncName <- Prefixed
    UserNames = {"app"}
    UserActions = {"deleteProject"}
    PeopleStop = FALSE
CONSTRAINT Failing
INVARIANTS
    TypeOK
    NothingForgotten
PROPERTY ReleasedWithoutProject
