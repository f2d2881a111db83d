----------------------------- MODULE Compaction -----------------------------
(***************************************************************************)
(* Context compaction of one Claude runtime: CompactionTrigger sends       *)
(* /compact when a completed turn shows a full context, with a gate, a     *)
(* cooldown and a retry budget; CompactionHandler sends the standing rules *)
(* again at the first idle after a compact_boundary; and the rows both     *)
(* leave in side_effect_deliveries, swept at the next start.               *)
(*                                                                         *)
(* The ingestor does not wait for either (void ...): a trigger evaluation  *)
(* is suspended while it reads the threshold from the settings file and    *)
(* while its turn is written, and the events that follow are handled in    *)
(* between.  Time is the fact that the cooldown of an armed gate has run.  *)
(***************************************************************************)
EXTENDS Integers

CONSTANTS
    Slot,           \* evaluations that may be suspended at once (bound)
    RetryBudget,    \* CompactionTrigger.retryBudget
    MaxBoundaries,  \* compact_boundary events (bound)
    MaxStates       \* per-runtime trigger states ever made (bound)

ASSUME CompactionAssumption ==
    RetryBudget \in Nat /\ MaxBoundaries \in Nat /\ MaxStates \in Nat

VARIABLES
    attached,       \* the runtime's adapter is registered
    state,          \* the trigger's state objects, by age
    made,           \* how many there are
    current,        \* the one #perRuntime holds, 0 if none
    eval,           \* slot -> the evaluation suspended there
    pending,        \* CompactionHandler.#pending has the runtime
    reinjecting,    \* reinjection prompts being written
    effect,         \* the reinjection row of the session
    boundaries,     \* history: compact_boundary events
    reinjections    \* history: reinjection prompts sent

triggerVars == <<state, made, current, eval>>
handlerVars == <<pending, reinjecting, effect, boundaries, reinjections>>
compactionVars == <<attached, triggerVars, handlerVars>>

NewState == [gateArmed |-> FALSE, cooled |-> FALSE, retriesRemaining |-> 0,
             surfacedGiveUp |-> FALSE]

Free == [step |-> "free"]

CompactionTypeOK ==
    /\ attached \in BOOLEAN
    /\ state \in [1..MaxStates -> [gateArmed : BOOLEAN, cooled : BOOLEAN,
                                   retriesRemaining : 0..RetryBudget,
                                   surfacedGiveUp : BOOLEAN]]
    /\ made \in 0..MaxStates
    /\ current \in 0..made
    /\ eval \in [Slot -> {Free}
                    \cup [step : {"threshold"}, of : 1..MaxStates, full : BOOLEAN]
                    \cup [step : {"writing"}, of : 1..MaxStates, retry : BOOLEAN]]
    /\ pending \in BOOLEAN
    /\ reinjecting \in 0..MaxBoundaries
    /\ effect \in {"none", "pending", "delivered", "failed"}
    /\ boundaries \in 0..MaxBoundaries
    /\ reinjections \in Nat

CompactionInit ==
    /\ attached = TRUE
    /\ state = [g \in 1..MaxStates |-> NewState]
    /\ made = 0
    /\ current = 0
    /\ eval = [s \in Slot |-> Free]
    /\ pending = FALSE
    /\ reinjecting = 0
    /\ effect = "none"
    /\ boundaries = 0
    /\ reinjections = 0

-----------------------------------------------------------------------------
(* #state(runtimeId): the object of the map, or a new one put there.       *)
Held == IF current = 0 THEN made + 1 ELSE current

Hold ==
    /\ Held <= MaxStates
    /\ made' = IF current = 0 THEN made + 1 ELSE made
    /\ current' = Held

(* shouldCompact, on the object the evaluation holds.                      *)
Verdict(g, full) ==
    IF state[g].gateArmed
    THEN IF ~state[g].cooled THEN "gated-in-flight"
         ELSE IF state[g].retriesRemaining > 0 THEN "retry" ELSE "giving-up-surfaced"
    ELSE IF full THEN "threshold-crossed" ELSE "below-threshold"

(* Mutant of InjectReinjection: #pending is not cleared.                   *)
InjectReinjectionKept ==
    /\ pending' = pending
    /\ IF pending /\ attached
       THEN reinjecting' = reinjecting + 1 /\ reinjections' = reinjections + 1
       ELSE UNCHANGED <<reinjecting, reinjections>>

(* CompactionHandler.onTurnCompleted, up to the wait for the write.        *)
InjectReinjection ==
    /\ pending' = FALSE
    /\ IF pending /\ attached
       THEN reinjecting' = reinjecting + 1 /\ reinjections' = reinjections + 1
       ELSE UNCHANGED <<reinjecting, reinjections>>

(* turn_completed: the handler, then the trigger up to its wait for the    *)
(* threshold; the usage (full) is the one of this moment.                  *)
TurnCompleted(s, full) ==
    /\ eval[s] = Free
    /\ InjectReinjection
    /\ Hold
    /\ eval' = [eval EXCEPT ![s] = [step |-> "threshold", of |-> Held, full |-> full]]
    /\ UNCHANGED <<attached, state, effect, boundaries>>

(* The rest of the evaluation when it does not fire; giving up is surfaced *)
(* once per object.                                                        *)
DoNotFire(s) ==
    /\ eval[s].step = "threshold"
    /\ LET verdict == Verdict(eval[s].of, eval[s].full)
       IN /\ verdict \notin {"retry", "threshold-crossed"} \/ ~attached
          /\ state' = IF verdict = "giving-up-surfaced"
                      THEN [state EXCEPT ![eval[s].of].surfacedGiveUp = TRUE] ELSE state
    /\ eval' = [eval EXCEPT ![s] = Free]
    /\ UNCHANGED <<attached, made, current, handlerVars>>

(* #fireCompact up to its wait: the state it will arm is looked up again.  *)
FireCompact(s) ==
    /\ eval[s].step = "threshold"
    /\ attached
    /\ LET verdict == Verdict(eval[s].of, eval[s].full)
       IN /\ verdict \in {"retry", "threshold-crossed"}
          /\ Hold
          /\ eval' = [eval EXCEPT ![s] = [step |-> "writing", of |-> Held,
                                          retry |-> verdict = "retry"]]
    /\ UNCHANGED <<attached, state, handlerVars>>

(* Mutant of Armed: the budget is spent below zero.                        *)
ArmedUnclamped(st, retry) ==
    [st EXCEPT !.gateArmed = TRUE, !.cooled = FALSE,
               !.retriesRemaining = IF ~retry THEN RetryBudget ELSE @ - 1]

(* The gate after a send, taken or failed.                                 *)
Armed(st, retry) ==
    [st EXCEPT !.gateArmed = TRUE, !.cooled = FALSE,
               !.retriesRemaining = IF ~retry THEN RetryBudget
                                    ELSE IF @ > 0 THEN @ - 1 ELSE 0]

(* The write of /compact ends, acknowledged or not.                        *)
CompactSent(s) ==
    /\ eval[s].step = "writing"
    /\ state' = [state EXCEPT ![eval[s].of] = Armed(@, eval[s].retry)]
    /\ eval' = [eval EXCEPT ![s] = Free]
    /\ UNCHANGED <<attached, made, current, handlerVars>>

(* The write of a reinjection prompt ends.                                 *)
ReinjectionSent(ok) ==
    /\ reinjecting > 0
    /\ reinjecting' = reinjecting - 1
    /\ effect' = IF ok THEN "delivered" ELSE "failed"
    /\ UNCHANGED <<attached, triggerVars, pending, boundaries, reinjections>>

(* compact_boundary: the reinjection falls due (its row is keyed by the    *)
(* session, so a second one of a session finds it there) and the gate is   *)
(* reset.                                                                  *)
CompactBoundary ==
    /\ boundaries < MaxBoundaries
    /\ boundaries' = boundaries + 1
    /\ pending' = TRUE
    /\ effect' = IF effect = "none" THEN "pending" ELSE effect
    /\ state' = IF current = 0 THEN state
                ELSE [state EXCEPT ![current] = NewState]
    /\ UNCHANGED <<attached, made, current, eval, reinjecting, reinjections>>

(* Mutant of TurnFailed: the row of what is dropped is left alone.         *)
TurnFailedUnmarked ==
    /\ pending' = FALSE
    /\ current' = 0
    /\ UNCHANGED <<attached, state, made, eval, reinjecting, effect, boundaries, reinjections>>

(* turn_failed: what was due is dropped, the gate's state forgotten.       *)
TurnFailed ==
    /\ pending' = FALSE
    /\ effect' = IF pending THEN "failed" ELSE effect
    /\ current' = 0
    /\ UNCHANGED <<attached, state, made, eval, reinjecting, boundaries, reinjections>>

(* The cooldown of an armed gate runs out.                                 *)
Cooldown(g) ==
    /\ state[g].gateArmed /\ ~state[g].cooled
    /\ state' = [state EXCEPT ![g].cooled = TRUE]
    /\ UNCHANGED <<attached, made, current, eval, handlerVars>>

(* The agent is stopped: its adapter goes, the events still queued do not.  *)
AgentStopped ==
    /\ attached
    /\ attached' = FALSE
    /\ UNCHANGED <<triggerVars, handlerVars>>

(* It is launched again, with a session and so a row of its own; a launch  *)
(* that finds a reinjection of the old session still due is left out.      *)
Relaunch ==
    /\ ~attached /\ ~pending /\ reinjecting = 0
    /\ attached' = TRUE
    /\ effect' = "none"
    /\ UNCHANGED <<triggerVars, pending, reinjecting, boundaries, reinjections>>

(* The sidecar stops and starts: memory is gone with the agents, and       *)
(* replayPendingSideEffects fails the rows still pending.                  *)
Restart ==
    /\ attached' = FALSE
    /\ state' = [g \in 1..MaxStates |-> NewState]
    /\ made' = 0 /\ current' = 0
    /\ eval' = [s \in Slot |-> Free]
    /\ pending' = FALSE
    /\ reinjecting' = 0
    /\ effect' = IF effect = "pending" THEN "failed" ELSE effect
    /\ UNCHANGED <<boundaries, reinjections>>

CompactionNext ==
    \/ \E s \in Slot : \/ \E full \in BOOLEAN : TurnCompleted(s, full)
                       \/ DoNotFire(s)
                       \/ FireCompact(s)
                       \/ CompactSent(s)
    \/ \E ok \in BOOLEAN : ReinjectionSent(ok)
    \/ CompactBoundary
    \/ TurnFailed
    \/ \E g \in 1..MaxStates : Cooldown(g)
    \/ AgentStopped
    \/ Relaunch
    \/ Restart

CompactionSpec == CompactionInit /\ [][CompactionNext]_compactionVars

-----------------------------------------------------------------------------
(* A compaction is followed by one reminder at most: turns that complete   *)
(* while one is being written do not send it again, and no restart does.   *)
ReinjectedOncePerBoundary == reinjections <= boundaries

(* A row stays pending only while its reinjection is due or being written, *)
(* or once the runtime has lost its adapter: what the sweep of the next    *)
(* start fails was never about to be sent.                                 *)
PendingRowIsOwned == effect = "pending" => pending \/ reinjecting > 0 \/ ~attached
=============================================================================
