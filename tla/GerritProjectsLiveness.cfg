SPECIFICATION LivenessSpec
CONSTANTS
    Projects <- TwoProjects
    Names <- OneNameEach
    None = None
    ProjectOf <- OfEach
    SyncName <- NameOfEach
    UserNames = {"gerrit-app"}
    UserActions = {"deleteProject"}
    PeopleStop = TRUE
PROPERTIES
    CreatesProjects
    DeletionCompletes
    AdoptsProjects
