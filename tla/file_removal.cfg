CONSTANTS
    e1 = e1
    e2 = e2
    cover = cover
    notes = notes
    show = show
    season = season
    extras = extras
    root = root
    rootSeparator = rootSeparator
    outside = outside
    Files <- TorrentFiles
    Others <- OtherFiles
    Folders <- AllFolders
    Root <- root
    RootSeparator <- rootSeparator
    Outside <- outside
    Parent <- ParentOf
    Above <- AboveOf
SPECIFICATION Spec
INVARIANTS TypeOK LeavesNoEmptyFolder
PROPERTIES OnlyListedDisappear RemovalEnds
CHECK_DEADLOCK FALSE
