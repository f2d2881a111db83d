CONSTANTS
    Sidecar = {s1, s2}
    Caller = {c1, c2}
    MaxRestarts = 0
    MaxProcs = 3
    MaxBoots = 3
    Call = {1, 2, 3}
    Cli = {"opencode"}
    MaxLaunches = 2
    Slot = {e1, e2}
    RetryBudget = 1
    MaxBoundaries = 2
    MaxStates = 2
    Parts = {"queue"}
SPECIFICATION MCSpec
SYMMETRY SymmetryOfRuntime
CHECK_DEADLOCK FALSE
INVARIANTS
    OneTurnPerSession
