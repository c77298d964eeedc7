SPECIFICATION FairSpec
CONSTANTS
    c1 = c1
    c2 = c2
    Programs = {"merger", "writer"}
    Pids = {c1, c2}
    MaxSignals = 2
    MaxDepth = 2
    MaxUnreadable = 1
INVARIANTS
    SupervisorTypeOK
    HandleIsSafe
    NoMutexIsLeft
    OneChildAtATime
    ExitLeavesNoChild
PROPERTIES
    KeepsRunning
CHECK_DEADLOCK FALSE
