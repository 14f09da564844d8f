CONSTANTS
    LineLimit = 24
    MaxRuns = 2
    Projects <- MCProjects
SPECIFICATION Spec
CHECK_DEADLOCK FALSE
INVARIANTS
    SourcesKeepTheirMeaning
    CommentsKeepTheirPlace
    CheckIsRight
