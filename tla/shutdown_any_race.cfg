CONSTANTS
    f1 = f1
    Files <- OneFile
    Handlers <- Everybody
    MayCheck = TRUE
    Slow = TRUE
    MaxJobs = 2
    MaxAlerts = 2
SPECIFICATION Spec
INVARIANTS TypeOK ResumeVouchesForDisk
PROPERTY ShutdownExits
CHECK_DEADLOCK FALSE
