SPECIFICATION Spec
CONSTANTS
    Dirs <- MCDirs
    Files <- MCFiles
    NamePrefix <- MCNamePrefix
    DotNames <- MCDotNames
    DotsNames <- MCDotsNames
    Job <- MCJob
    FileEvents <- MCFileEvents
    user = TRUE
    home_dir <- A
    NULL = NULL
    InitialPaths <- MCInitialPaths
    InitialClasses = {{}, {"plain"}, {"plain", "many"}}
    MaxChanges = 4
INVARIANTS
    WatchesFollow
PROPERTIES
    WantedOnly
