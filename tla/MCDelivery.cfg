SPECIFICATION MCSpec
CONSTANTS
    lead = lead
    m1 = m1
    t1 = t1
    gemini = gemini
    Message = {m1, m2}
    Agent = {lead}
    To <- MCTo
    Provider = {claude, codex, gemini}
    SessionProvider = {codex, gemini}
    Task = {t1, t2}
    SweepLimit = 2
    RetryCap = 2
    MaxLaunches = 2
    MaxCrashes = 1
    MaxFailures = 2
    None = None
    Scenes = {"calls", "messages"}
CHECK_DEADLOCK FALSE
INVARIANT TypeOK
INVARIANT SessionClaimExclusive
INVARIANT ClaimHasOwner
INVARIANT SessionNeverDropped
INVARIANT OneProcessPerAttempt
PROPERTY AcceptedIsFinal
 
 
