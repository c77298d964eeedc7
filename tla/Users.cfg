SPECIFICATION ManagerSpec
CONSTANTS
    c1 = c1
    pvA = pvA
    pvB = pvB
    m1 = m1
    m2 = m2
    u1 = u1
    u2 = u2
    Programs = {"merger"}
    Pids = {c1}
    MaxSignals = 0
    MaxDepth = 1
    MaxUnreadable = 0
    Lists = {{}, {pvA}, {pvB}}
    Grace = 2
    StartTime = 3
    LastEdit = 5
    Managers = {m1, m2}
    Users = {u1, u2}
    self = m1
    NoFile = NoFile
    NoNumber = NoNumber
INVARIANTS
    UsersExcludeEachOther
CHECK_DEADLOCK FALSE
