-------------------------------- MODULE Drift -------------------------------
(***************************************************************************)
(* Drift runs of one team: DriftEngine (a run at a time, cooldown of       *)
(* periodic runs), the DriftMonitor timer and the other callers of         *)
(* runDrift, SqliteDriftStore, and the correction tasks that findings are  *)
(* linked to.  What a run finds in the project is DriftChecks' subject.    *)
(*                                                                         *)
(* A run waits for the project to be read; meanwhile other runs may be     *)
(* asked for, corrections linked, tasks closed.  Time is a bounded clock   *)
(* in units well below the monitor's interval; a run takes one unit at     *)
(* most and timers fire when they are due.                                 *)
(*                                                                         *)
(* The L3 judge is never called.  A judgement needs the id of a boundary   *)
(* task, which drift_run does not take; only notifyTaskEvent passes one,   *)
(* for a task.status_changed event with a payload.to, and the board's      *)
(* events have { status, from }.  So "task_event" is but a name a caller   *)
(* of drift_run may give a manual run.                                     *)
(***************************************************************************)
EXTENDS Integers, Sequences, FiniteSets

CONSTANTS
    Finding,       \* finding ids
    CorrectionId,  \* task ids, each drawn once (randomUUID)
    CallKey,       \* idempotency keys of drift_correction_create
    Interval,      \* DriftMonitor.intervalMs, and periodicCooldownMs
    MaxTime,       \* clock (bound)
    MaxFailures    \* runs that fail while reading (bound)

VARIABLES
    now,
    due,             \* when the monitor's timer fires next
    run,             \* #inflight
    lastRunAt,       \* #lastRunAt, Never before the first run
    configured,      \* the team has a config
    broken,          \* the findings a reading of the project would yield
    row,             \* drift_findings: the correction_task_id of a row
    correctionTask,  \* what became of each task id
    keyed,           \* idempotency keys the board has seen
    correction,      \* the drift_correction_create in flight
    recordedAt,      \* history: when the persisted findings were computed
    failures         \* history: runs that failed

(* A run lasts one unit at most, which is less than an interval.           *)
ASSUME DriftAssumption ==
    /\ Interval \in Nat /\ Interval > 1
    /\ MaxTime \in Nat
    /\ MaxFailures \in Nat

clockVars      == <<now, due>>
engineVars     == <<run, lastRunAt, configured, recordedAt, failures>>
correctionVars == <<correctionTask, keyed, correction>>
driftVars == <<clockVars, engineVars, broken, row, correctionVars>>

Never    == -1
NoRow    == "no row"
Unlinked == "no correction"
AtRest   == [step |-> "idle"]

Trigger == {"periodic", "manual"}

Runs == {AtRest}
    \cup [step : {"reading"}, began : 0..MaxTime, links : [Finding -> CorrectionId \cup {Unlinked}]]
    \cup [step : {"checked"}, began : 0..MaxTime, links : [Finding -> CorrectionId \cup {Unlinked}],
          found : SUBSET Finding]

DriftTypeOK ==
    /\ now \in 0..MaxTime
    /\ due \in now..now + Interval
    /\ run \in Runs
    /\ lastRunAt \in {Never} \cup 0..now
    /\ configured \in BOOLEAN
    /\ broken \subseteq Finding
    /\ row \in [Finding -> CorrectionId \cup {NoRow, Unlinked}]
    /\ correctionTask \in [CorrectionId -> {"unused", "open", "closed", "missing"}]
    /\ keyed \subseteq CallKey
    /\ correction \in {AtRest} \cup [step : {"linking"}, finding : Finding, task : CorrectionId]
    /\ recordedAt \in 0..now
    /\ failures \in 0..MaxFailures

DriftInit ==
    /\ now = 0
    /\ due = Interval
    /\ run = AtRest
    /\ lastRunAt = Never
    /\ configured = TRUE
    /\ broken = {}
    /\ row = [f \in Finding |-> NoRow]
    /\ correctionTask = [t \in CorrectionId |-> "unused"]
    /\ keyed = {}
    /\ correction = AtRest
    /\ recordedAt = 0
    /\ failures = 0

-----------------------------------------------------------------------------
(* runDrift: joins the run in flight, or has nothing to say of a team      *)
(* without a config, or returns the persisted result to a periodic caller  *)
(* within the cooldown, or starts a run.                                   *)
MayStart(trigger) ==
    /\ configured
    /\ run = AtRest
    /\ ~(trigger = "periodic" /\ lastRunAt # Never /\ now - lastRunAt < Interval)

(* Step A: the linkages are read before the project is.                    *)
Linkages == [f \in Finding |-> IF row[f] \in CorrectionId THEN row[f] ELSE Unlinked]

Start == run' = [step |-> "reading", began |-> now, links |-> Linkages]

(* Mutant of RunDrift: the persisted result counts as a run.               *)
RunDriftRestamped(trigger) ==
    /\ run = AtRest
    /\ IF MayStart(trigger) THEN Start /\ UNCHANGED lastRunAt
                            ELSE lastRunAt' = now /\ UNCHANGED run
    /\ UNCHANGED <<clockVars, configured, recordedAt, failures, broken, row,
                   correctionVars>>

(* drift_run: the UI's poll is periodic, an operator's or agent's manual.  *)
RunDrift(trigger) ==
    /\ MayStart(trigger)
    /\ Start
    /\ UNCHANGED <<clockVars, lastRunAt, configured, recordedAt, failures, broken, row,
                   correctionVars>>

(* DriftMonitor.tickOnce, when its timer is due.                           *)
MonitorTick ==
    /\ due = now
    /\ due' = now + Interval
    /\ IF MayStart("periodic") THEN Start ELSE UNCHANGED run
    /\ UNCHANGED <<now, lastRunAt, configured, recordedAt, failures, broken, row, correctionVars>>

(* buildSnapshot and the tier-1 checks.                                    *)
ReadProject ==
    /\ run.step = "reading"
    /\ run' = [step |-> "checked", began |-> run.began, links |-> run.links, found |-> broken]
    /\ UNCHANGED <<clockVars, lastRunAt, configured, recordedAt, failures, broken, row,
                   correctionVars>>

(* ... or it throws, and the run is over with nothing written.             *)
ReadFails ==
    /\ failures < MaxFailures
    /\ run.step = "reading"
    /\ run' = AtRest
    /\ failures' = failures + 1
    /\ UNCHANGED <<clockVars, lastRunAt, configured, recordedAt, broken, row, correctionVars>>

(* Mutant of Recorded: the linkages are not stamped on the new rows.       *)
RecordedBare ==
    [f \in Finding |-> IF f \in run.found THEN Unlinked ELSE NoRow]

(* recordRun: the team's rows are deleted and those of this run inserted,  *)
(* with the linkages it read at its start.                                 *)
Recorded ==
    [f \in Finding |-> IF f \in run.found THEN run.links[f] ELSE NoRow]

(* reapResolvedCorrections: a link to a task that is closed, or not there, *)
(* is cleared.                                                             *)
Reaped(rows) ==
    [f \in Finding |-> IF rows[f] \in CorrectionId /\ correctionTask[rows[f]] # "open" THEN Unlinked
                       ELSE rows[f]]

(* The end of a run: what it found is recorded.                            *)
FinishRun ==
    /\ run.step = "checked"
    /\ run' = AtRest
    /\ row' = Reaped(Recorded)
    /\ lastRunAt' = now
    /\ recordedAt' = now
    /\ UNCHANGED <<clockVars, configured, failures, broken, correctionVars>>

-----------------------------------------------------------------------------
(* drift_correction_create: the board is asked for a task under the        *)
(* caller's key.  For a key it has seen it appends nothing, and the new id *)
(* that is linked afterwards names no task.                                *)
CreateCorrection(f, k, t) ==
    /\ correction = AtRest
    /\ row[f] # NoRow
    /\ correctionTask[t] = "unused"
    /\ correctionTask' = [correctionTask EXCEPT ![t] = IF k \in keyed THEN "missing" ELSE "open"]
    /\ keyed' = keyed \cup {k}
    /\ correction' = [step |-> "linking", finding |-> f, task |-> t]
    /\ UNCHANGED <<clockVars, engineVars, broken, row>>

(* linkCorrection: updates the row, if the finding still has one.          *)
LinkCorrection ==
    /\ correction # AtRest
    /\ row' = [row EXCEPT ![correction.finding] = IF @ = NoRow THEN NoRow
                                                  ELSE correction.task]
    /\ correction' = AtRest
    /\ UNCHANGED <<clockVars, engineVars, broken, correctionTask, keyed>>

(* The rest of the world: tasks are done or rejected, the project drifts   *)
(* and is put right, time passes.                                          *)
CloseTask(t) ==
    /\ correctionTask[t] = "open"
    /\ correctionTask' = [correctionTask EXCEPT ![t] = "closed"]
    /\ UNCHANGED <<clockVars, engineVars, broken, row, keyed, correction>>

(* team_delete: the rows stay.                                             *)
DeleteTeam ==
    /\ configured
    /\ configured' = FALSE
    /\ UNCHANGED <<clockVars, run, lastRunAt, recordedAt, failures, broken, row, correctionVars>>

ProjectChanges(f) ==
    /\ broken' = IF f \in broken THEN broken \ {f} ELSE broken \cup {f}
    /\ UNCHANGED <<clockVars, engineVars, row, correctionVars>>

Pass ==
    /\ now < MaxTime
    /\ now < due
    /\ run # AtRest => now <= run.began
    /\ now' = now + 1
    /\ UNCHANGED <<due, engineVars, broken, row, correctionVars>>

DriftNext ==
    \/ \E trigger \in Trigger : RunDrift(trigger)
    \/ MonitorTick
    \/ ReadProject
    \/ ReadFails
    \/ FinishRun
    \/ \E f \in Finding, k \in CallKey, t \in CorrectionId : CreateCorrection(f, k, t)
    \/ LinkCorrection
    \/ \E t \in CorrectionId : CloseTask(t)
    \/ \E f \in Finding : ProjectChanges(f)
    \/ DeleteTeam
    \/ Pass

DriftSpec == DriftInit /\ [][DriftNext]_driftVars

-----------------------------------------------------------------------------
(* With interval and cooldown alike, every second tick finds the last run  *)
(* too recent; even so the findings of a live team are never older than    *)
(* two intervals, or one more for each run that failed.                    *)
RefreshedEverySecondTick ==
    configured => now - recordedAt <= (2 + failures) * Interval

Ends == run.step = "checked" /\ run' = AtRest

(* A run replaces every row of the team, and still keeps what the rows     *)
(* said of corrections: a finding that is found again keeps the open task  *)
(* it was linked to when the run began, and no link to a closed or missing *)
(* task is left.                                                           *)
RunKeepsLinks ==
    [][Ends =>
         \A f \in run.found :
            LET t == run.links[f]
            IN IF t \in CorrectionId /\ correctionTask[t] = "open" THEN row'[f] = t
               ELSE row'[f] = Unlinked]_driftVars

=============================================================================
