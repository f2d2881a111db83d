---------------------------- MODULE StuckMonitor ----------------------------
(***************************************************************************)
(* The monitor of silent agents: detectStuckRuntimes over the rows of      *)
(* runtime_instances, the latest event of each runtime id, and the turns   *)
(* the per-turn adapters have in flight; and StuckRuntimeMonitor, which    *)
(* announces a silent runtime once and forgets it when it is not silent at *)
(* a tick.                                                                 *)
(*                                                                         *)
(* A runtime id outlives its processes: rows keep the first started_at     *)
(* (ON CONFLICT does not set it) and events are kept for ever.             *)
(***************************************************************************)
EXTENDS Integers

CONSTANTS
    Runtime,
    Threshold,  \* thresholdMs
    Interval,   \* intervalMs
    MaxTick     \* clock (bound)

(* The monitor's defaults are a minute and a quarter of an hour.  They can *)
(* be set apart; a threshold below the interval would let one silence hide *)
(* the next, in which the agent was heard between two ticks.               *)
ASSUME StuckAssumption ==
    /\ Threshold \in Nat /\ Interval \in Nat /\ MaxTick \in Nat
    /\ Interval <= Threshold

VARIABLES
    time,
    tickDue,        \* when the timer fires next
    runtimeStatus,  \* runtime_instances.status
    deliveryMode,   \* runtime_instances.delivery_mode
    startedAt,      \* runtime_instances.started_at
    lastEvent,      \* the latest event of the runtime id
    turnStartedAt,  \* of the adapter's turn in flight
    alerted,        \* #alerted
    launchedAt,     \* history: when the process was launched
    announced       \* history: announced since its launch and its last progress

rowVars == <<runtimeStatus, deliveryMode, startedAt>>
stuckVars == <<time, tickDue, rowVars, lastEvent, turnStartedAt, alerted, launchedAt, announced>>

NoTime == -1
Mode  == {"live", "session_turn"}
Times == {NoTime} \cup 0..time

StuckTypeOK ==
    /\ time \in 0..MaxTick
    /\ tickDue \in time..time + Interval
    /\ runtimeStatus \in [Runtime -> {"none", "running", "stopped"}]
    /\ deliveryMode \in [Runtime -> Mode]
    /\ startedAt \in [Runtime -> Times]
    /\ lastEvent \in [Runtime -> Times]
    /\ turnStartedAt \in [Runtime -> Times]
    /\ alerted \subseteq Runtime
    /\ launchedAt \in [Runtime -> Times]
    /\ announced \subseteq Runtime

StuckInit ==
    /\ time = 0
    /\ tickDue = Interval
    /\ runtimeStatus = [r \in Runtime |-> "none"]
    /\ deliveryMode = [r \in Runtime |-> "live"]
    /\ startedAt = [r \in Runtime |-> NoTime]
    /\ lastEvent = [r \in Runtime |-> NoTime]
    /\ turnStartedAt = [r \in Runtime |-> NoTime]
    /\ alerted = {}
    /\ launchedAt = [r \in Runtime |-> NoTime]
    /\ announced = {}

-----------------------------------------------------------------------------
(* What silence is measured from: for a per-turn agent the later of the    *)
(* start of its turn and the latest event.                                 *)
Reference(r) ==
    IF deliveryMode[r] = "session_turn"
    THEN IF lastEvent[r] > turnStartedAt[r] THEN lastEvent[r] ELSE turnStartedAt[r]
    ELSE IF lastEvent[r] # NoTime THEN lastEvent[r] ELSE startedAt[r]

Silence(r) == time - Reference(r)

(* Between turns a per-turn agent is never stuck.                          *)
Watched(r) ==
    /\ runtimeStatus[r] = "running"
    /\ deliveryMode[r] = "session_turn" => turnStartedAt[r] # NoTime

(* detectStuckRuntimes.                                                    *)
Stuck == {r \in Runtime : Watched(r) /\ Silence(r) > Threshold}

(* createRuntime: an upsert; the agent may have got another provider.      *)
CreateRuntime(r, mode) ==
    /\ runtimeStatus[r] # "running"
    /\ deliveryMode' = [deliveryMode EXCEPT ![r] = mode]
    /\ runtimeStatus' = [runtimeStatus EXCEPT ![r] = "running"]
    /\ startedAt' = [startedAt EXCEPT ![r] = IF @ = NoTime THEN time ELSE @]
    /\ launchedAt' = [launchedAt EXCEPT ![r] = time]
    /\ announced' = announced \ {r}
    /\ UNCHANGED <<time, tickDue, lastEvent, turnStartedAt, alerted>>

(* The agent is stopped or exits; a turn in flight ends with its process.  *)
Exit(r) ==
    /\ runtimeStatus[r] = "running"
    /\ runtimeStatus' = [runtimeStatus EXCEPT ![r] = "stopped"]
    /\ turnStartedAt' = [turnStartedAt EXCEPT ![r] = NoTime]
    /\ UNCHANGED <<time, tickDue, deliveryMode, startedAt, lastEvent, alerted, launchedAt,
                   announced>>

StartTurn(r) ==
    /\ deliveryMode[r] = "session_turn"
    /\ runtimeStatus[r] = "running"
    /\ turnStartedAt[r] = NoTime
    /\ turnStartedAt' = [turnStartedAt EXCEPT ![r] = time]
    /\ announced' = announced \ {r}
    /\ UNCHANGED <<time, tickDue, rowVars, lastEvent, alerted, launchedAt>>

(* An event of the agent is ingested; it may be the end of its turn.       *)
Event(r) ==
    /\ runtimeStatus[r] = "running"
    /\ lastEvent' = [lastEvent EXCEPT ![r] = time]
    /\ turnStartedAt' \in {turnStartedAt, [turnStartedAt EXCEPT ![r] = NoTime]}
    /\ announced' = announced \ {r}
    /\ UNCHANGED <<time, tickDue, rowVars, alerted, launchedAt>>

(* Mutant of Tick: what has recovered stays in the set.                    *)
TickWithoutRecovery ==
    /\ time = tickDue
    /\ tickDue' = time + Interval
    /\ announced' = announced \cup (Stuck \ alerted)
    /\ alerted' = alerted \cup Stuck
    /\ UNCHANGED <<time, rowVars, lastEvent, turnStartedAt, launchedAt>>

(* One pass: what is no longer stuck leaves the set, what is stuck and not *)
(* in the set is announced.                                                *)
Tick ==
    /\ time = tickDue
    /\ tickDue' = time + Interval
    /\ announced' = announced \cup (Stuck \ alerted)
    /\ alerted' = Stuck
    /\ UNCHANGED <<time, rowVars, lastEvent, turnStartedAt, launchedAt>>

(* The sidecar stops and starts: its agents are stopped (reconcileOrphans) *)
(* and the monitor begins anew.                                            *)
MonitorRestart ==
    /\ tickDue' = time + Interval
    /\ runtimeStatus' = [r \in Runtime |-> IF runtimeStatus[r] = "running" THEN "stopped"
                                           ELSE runtimeStatus[r]]
    /\ turnStartedAt' = [r \in Runtime |-> NoTime]
    /\ alerted' = {}
    /\ UNCHANGED <<time, deliveryMode, startedAt, lastEvent, launchedAt, announced>>

TimePasses ==
    /\ time < tickDue
    /\ time < MaxTick
    /\ time' = time + 1
    /\ UNCHANGED <<tickDue, rowVars, lastEvent, turnStartedAt, alerted, launchedAt, announced>>

StuckNext ==
    \/ \E r \in Runtime : \/ \E mode \in Mode : CreateRuntime(r, mode)
                          \/ Exit(r)
                          \/ StartTurn(r)
                          \/ Event(r)
    \/ Tick
    \/ MonitorRestart
    \/ TimePasses

StuckSpec == StuckInit /\ [][StuckNext]_stuckVars

-----------------------------------------------------------------------------
(* A process that has been silent for the threshold and an interval more,  *)
(* since its launch or its last progress, has been announced since then:   *)
(* announcing each silence once hides no second one, also across stops,    *)
(* relaunches with another provider and restarts of the monitor.  (Until   *)
(* its first event a relaunched process is measured by the events of the   *)
(* one before; that case is left out.)                                     *)
SilenceIsAnnounced ==
    \A r \in Runtime :
        Watched(r) /\ Reference(r) >= launchedAt[r] /\ Silence(r) > Threshold + Interval
            => r \in announced
=============================================================================
