CONSTANTS
    f1 = f1
    f2 = f2
    Files <- TwoFiles
    Handlers <- Deleter
    MayCheck = FALSE
    Slow = FALSE
    MaxJobs = 2
    MaxAlerts = 2
    MaxLives = 3
SPECIFICATION RSpec
SYMMETRY FileSymmetry
INVARIANTS WipedWhenAsked ResumeIsFresh RemovedUnlessKept
PROPERTIES RemovesOnlyUnkept TrustsOnlyDisk LeavesAsPromised
CHECK_DEADLOCK FALSE
