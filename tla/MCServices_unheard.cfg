CONSTANTS
    Source = {p, q}
    MaxRows = 2
    MaxTokens = 3
    Tokens = {1}
    MaxPerRun = 2
    MaxPerHour = 3
    Hour = 2
    Length = 3
    MaxSick = 1
    MaxProcs = 2
    MaxPrints = 2
    MaxRestarts = 0
    MaxTeamRestarts = 0
    Approval = {a1}
    Key = {u1, u2}
    MaxCrashes = 2
    Launch = {l1, l2, l3}
    Guard = 2
    MaxClock = 3
    Turn = {q1, q2, q3}
    MaxProcesses = 3
    MaxStops = 1
    Runtime = {claude}
    Threshold = 2
    Interval = 2
    MaxTick = 9
    Lead = lead
    Mate = mate
    Member <- MCMember
    Roster <- MCRoster
    Dir = {d1}
    ToolCall = {1, 2}
    MaxEdits = 1
    Provider = {"anthropic", "openai"}
    None = None
    Parts = {"stream"}
SPECIFICATION MCSpec
CHECK_DEADLOCK FALSE
INVARIANTS
    RunningIsHeard
