SPECIFICATION MCSpec
CONSTANTS
    lead = lead
    dev = dev
    Agent = {lead, dev}
    RoleOf <- MCRoleOf
    Initial = {"pending"}
    Creation <- MCCreation
    Target = {"ready", "planned", "in_progress", "review", "testing", "merge_ready", "done"}
    MaxTips = 2
    None = None
    Source = {project, worktree}
    Request = {1, 2, 3}
    MaxText = 2
    Team = {x1, x2}
    MaxVersion = 1
    MaxLoads = 3
    MaxWire = 1
    NoTeam = NoTeam
    Finding = {f1}
    CorrectionId = {t1, t2}
    CallKey = {k1}
    Interval = 2
    MaxTime = 6
    MaxFailures = 1
    Task = {y1, y2}
    Module = {"m1", "m2", "m3"}
    Stray = {"extra"}
    Dep = {"known", "new", "banned"}
    Authorized = {"known"}
    Forbidden = {"banned"}
    Delivers <- MCDelivers
    Reviewed = TRUE
    RuleSeverity = "high"
    MaxStrays = 1
    File = {"a", "b"}
    Line = {"l"}
    MaxCopies = 2
    MaxLands = 1
    Parts = {"tasks", "editor", "board", "drift", "checks", "gate"}
CONSTRAINT MCFocus
CHECK_DEADLOCK FALSE
INVARIANT BoardTypeOK
INVARIANT SeparationOfDuties
INVARIANT IntegrationIsHonest
INVARIANT TestedBeforeMergeReady
INVARIANT SaveReplacesWhatWasSeen
 
 
 
PROPERTY BaseKeepsWork
PROPERTY RunKeepsLinks
 
