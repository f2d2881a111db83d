CONSTANTS
    Sidecar = {s1, s2}
    Caller = {c1, c2}
    MaxRestarts = 0
    MaxProcs = 3
    MaxBoots = 3
    Call = {1, 2, 3}
    Cli = {"codex", "gemini"}
    MaxLaunches = 2
    Slot = {e1, e2}
    RetryBudget = 1
    MaxBoundaries = 2
    MaxStates = 2
    Parts = {"supervisor"}
SPECIFICATION MCSpec
SYMMETRY SymmetryOfRuntime
CONSTRAINT Focus
CHECK_DEADLOCK FALSE
INVARIANTS
    OneProcess
