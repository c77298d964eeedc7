SPECIFICATION Spec
CONSTANTS
    c1 = c1
    c2 = c2
    Programs = {"merger", "writer"}
    Pids = {c1, c2}
    MaxSignals = 1
    MaxDepth = 2
    MaxUnreadable = 0
INVARIANTS
    QuitIsOrderly
CHECK_DEADLOCK FALSE
