---------------------------- MODULE AgentProofs -----------------------------
(***************************************************************************)
(* Theorems about the turn queue of a per-turn agent, for any number of    *)
(* calls, CLIs and launches; about the compaction of a runtime's context,  *)
(* for any number of suspended evaluations, boundaries and states; and     *)
(* about the instance of the runtime layer that the runs explore.          *)
(***************************************************************************)
EXTENDS MCRuntime, SupervisorProofs, TLAPS

-----------------------------------------------------------------------------
(***************************************************************************)
(* Compaction.  The handler's side alone decides what is reinjected: the   *)
(* trigger never touches it.                                               *)
(***************************************************************************)

(* A boundary may still be due once; a row is pending only for a           *)
(* reinjection that is due or being written, or without an adapter.        *)
HandlerInv ==
    /\ attached \in BOOLEAN /\ pending \in BOOLEAN
    /\ reinjecting \in Nat /\ boundaries \in Nat /\ reinjections \in Nat
    /\ reinjections <= boundaries
    /\ pending => reinjections + 1 <= boundaries
    /\ PendingRowIsOwned

(* The steps of the trigger alone.                                         *)
LEMMA TriggerStep ==
    ASSUME HandlerInv,
           \/ \E s \in Slot : DoNotFire(s) \/ FireCompact(s) \/ CompactSent(s)
           \/ \E g \in 1..MaxStates : Cooldown(g)
           \/ UNCHANGED compactionVars
    PROVE  HandlerInv'
  <1>1. UNCHANGED <<attached, pending, reinjecting, effect, boundaries, reinjections>>
    BY DEF DoNotFire, FireCompact, CompactSent, Cooldown, compactionVars, handlerVars
  <1>2. PendingRowIsOwned'
    BY <1>1 DEF HandlerInv, PendingRowIsOwned
  <1>3. attached' \in BOOLEAN /\ pending' \in BOOLEAN
    BY <1>1, Zenon DEF HandlerInv
  <1>4. reinjections' <= boundaries' /\ (pending' => reinjections' + 1 <= boundaries')
    BY <1>1 DEF HandlerInv
  <1>5. reinjecting' \in Nat /\ boundaries' \in Nat /\ reinjections' \in Nat
    BY <1>1 DEF HandlerInv
  <1> QED BY <1>2, <1>3, <1>4, <1>5 DEF HandlerInv

(* Every step keeps the handler's invariant.                               *)
LEMMA HandlerStep ==
    ASSUME HandlerInv, [CompactionNext]_compactionVars
    PROVE  HandlerInv'
  <1> USE DEF HandlerInv, PendingRowIsOwned
  <1>1. ASSUME NEW s \in Slot, NEW full \in BOOLEAN, TurnCompleted(s, full)
        PROVE  HandlerInv'
    <2>1. /\ pending' = FALSE
          /\ attached' = attached /\ effect' = effect /\ boundaries' = boundaries
      BY <1>1 DEF TurnCompleted, InjectReinjection
    <2>2. CASE pending /\ attached
      <3>1. reinjecting' = reinjecting + 1 /\ reinjections' = reinjections + 1
        BY <1>1, <2>2 DEF TurnCompleted, InjectReinjection
      <3>2. reinjections' <= boundaries' /\ reinjecting' > 0
        BY <2>1, <2>2, <3>1
      <3>3. reinjecting' \in Nat /\ reinjections' \in Nat /\ boundaries' \in Nat
        BY <2>1, <3>1
      <3>4. attached' \in BOOLEAN /\ pending' \in BOOLEAN /\ ~pending'
        BY <2>1, Zenon
      <3> QED BY <3>2, <3>3, <3>4
    <2>3. CASE ~(pending /\ attached)
      <3>1. reinjecting' = reinjecting /\ reinjections' = reinjections
        BY <1>1, <2>3 DEF TurnCompleted, InjectReinjection
      <3>2. (pending \/ reinjecting > 0 \/ ~attached) => (reinjecting' > 0 \/ ~attached')
        BY <2>1, <2>3, <3>1, Zenon
      <3>3. attached' \in BOOLEAN
        BY <2>1
      <3> QED BY <2>1, <3>1, <3>2, <3>3
    <2> QED BY <2>2, <2>3
  <1>2. ASSUME NEW ok \in BOOLEAN, ReinjectionSent(ok) PROVE HandlerInv'
    BY <1>2 DEF ReinjectionSent
  <1>3. CASE CompactBoundary
    BY <1>3 DEF CompactBoundary
  <1>4. CASE TurnFailed
    BY <1>4 DEF TurnFailed
  <1>5. CASE AgentStopped
    BY <1>5 DEF AgentStopped, triggerVars, handlerVars
  <1>6. CASE Relaunch
    BY <1>6 DEF Relaunch
  <1>7. CASE Restart
    BY <1>7 DEF Restart
  <1> QED
    BY <1>1, <1>2, <1>3, <1>4, <1>5, <1>6, <1>7, TriggerStep DEF CompactionNext

(* What the run checks of the handler holds in every reachable state.      *)
LEMMA HandlerInvariant == CompactionSpec => []HandlerInv
  <1>1. CompactionInit => HandlerInv
    <2> SUFFICES ASSUME CompactionInit PROVE HandlerInv
      OBVIOUS
    <2>1. /\ attached = TRUE /\ pending = FALSE /\ effect = "none"
          /\ reinjecting = 0 /\ boundaries = 0 /\ reinjections = 0
      BY DEF CompactionInit
    <2>2. PendingRowIsOwned
      BY <2>1 DEF PendingRowIsOwned
    <2>3. attached \in BOOLEAN /\ pending \in BOOLEAN
      BY <2>1, Zenon
    <2>4. reinjections <= boundaries /\ (pending => reinjections + 1 <= boundaries)
      BY <2>1
    <2> QED BY <2>1, <2>2, <2>3, <2>4 DEF HandlerInv
  <1> QED BY <1>1, HandlerStep, PTL DEF CompactionSpec

(* A compaction is followed by one reminder at most, however the turns     *)
(* around it, failures, stops and restarts interleave (CompactionHandler). *)
THEOREM RemindedOnce == CompactionSpec => []ReinjectedOncePerBoundary
  <1>1. HandlerInv => ReinjectedOncePerBoundary
    BY DEF HandlerInv, ReinjectedOncePerBoundary
  <1> QED BY <1>1, HandlerInvariant, PTL

(* A row stays pending only while somebody will settle it, or once the     *)
(* runtime has no adapter (SideEffectLog, replayPendingSideEffects).       *)
THEOREM PendingRowsAreOwned == CompactionSpec => []PendingRowIsOwned
  <1>1. HandlerInv => PendingRowIsOwned
    BY DEF HandlerInv
  <1> QED BY <1>1, HandlerInvariant, PTL

(* The types of the trigger's part, with what keeps the writes of a        *)
(* reinjection within the boundaries.                                      *)
TriggerState == [gateArmed : BOOLEAN, cooled : BOOLEAN, retriesRemaining : 0..RetryBudget,
                 surfacedGiveUp : BOOLEAN]

Threshold == [step : {"threshold"}, of : 1..MaxStates, full : BOOLEAN]

Writing == [step : {"writing"}, of : 1..MaxStates, retry : BOOLEAN]

TriggerTypes ==
    /\ attached \in BOOLEAN
    /\ state \in [1..MaxStates -> TriggerState]
    /\ made \in 0..MaxStates /\ current \in 0..made
    /\ eval \in [Slot -> {Free} \cup Threshold \cup Writing]

HandlerTypes ==
    /\ pending \in BOOLEAN
    /\ effect \in {"none", "pending", "delivered", "failed"}
    /\ boundaries \in 0..MaxBoundaries
    /\ reinjections \in Nat
    /\ reinjecting \in Nat /\ reinjecting <= reinjections

LEMMA HandlerTypesStep ==
    ASSUME HandlerInv, HandlerTypes, [CompactionNext]_compactionVars
    PROVE  HandlerTypes'
  <1> USE CompactionAssumption DEF HandlerTypes, handlerVars
  <1>1. ASSUME NEW s \in Slot, NEW full \in BOOLEAN, TurnCompleted(s, full)
        PROVE  HandlerTypes'
    <2>1. pending' = FALSE /\ effect' = effect /\ boundaries' = boundaries
      BY <1>1 DEF TurnCompleted, InjectReinjection
    <2>2. \/ reinjecting' = reinjecting + 1 /\ reinjections' = reinjections + 1
          \/ reinjecting' = reinjecting /\ reinjections' = reinjections
      BY <1>1 DEF TurnCompleted, InjectReinjection
    <2>3. pending' \in BOOLEAN
      BY <2>1, Zenon
    <2> QED BY <2>1, <2>2, <2>3
  <1>2. ASSUME UNCHANGED handlerVars
        PROVE  HandlerTypes'
    BY <1>2
  <1>3. ASSUME NEW s \in Slot, DoNotFire(s) \/ FireCompact(s) \/ CompactSent(s)
        PROVE  HandlerTypes'
    BY <1>2, <1>3, Zenon DEF DoNotFire, FireCompact, CompactSent
  <1>4. ASSUME NEW ok \in BOOLEAN, ReinjectionSent(ok) PROVE HandlerTypes'
    BY <1>4 DEF ReinjectionSent
  <1>5. CASE CompactBoundary
    BY <1>5 DEF CompactBoundary
  <1>6. CASE TurnFailed
    BY <1>6 DEF TurnFailed
  <1>7. ASSUME NEW g \in 1..MaxStates, Cooldown(g) PROVE HandlerTypes'
    BY <1>2, <1>7, Zenon DEF Cooldown
  <1>8. CASE AgentStopped
    BY <1>2, <1>8, Zenon DEF AgentStopped
  <1>9. CASE Relaunch
    BY <1>9 DEF Relaunch
  <1>10. CASE Restart
    <2>1. pending' = FALSE /\ reinjecting' = 0 /\ UNCHANGED <<boundaries, reinjections>>
      BY <1>10 DEF Restart
    <2>2. effect' \in {"none", "pending", "delivered", "failed"}
      BY <1>10 DEF Restart
    <2>3. pending' \in BOOLEAN
      BY <2>1, Zenon
    <2> QED BY <2>1, <2>2, <2>3
  <1>11. CASE UNCHANGED compactionVars
    BY <1>2, <1>11, Zenon DEF compactionVars
  <1> QED BY <1>1, <1>3, <1>4, <1>5, <1>6, <1>7, <1>8, <1>9, <1>10, <1>11 DEF CompactionNext

LEMMA ArmedTyped ==
    ASSUME NEW st \in TriggerState, NEW retry
    PROVE  Armed(st, retry) \in TriggerState
  <1>1. PICK left \in 0..RetryBudget :
          left = IF ~retry THEN RetryBudget
                 ELSE IF st.retriesRemaining > 0 THEN st.retriesRemaining - 1 ELSE 0
    BY CompactionAssumption DEF TriggerState
  <1>2. Armed(st, retry) = [st EXCEPT !.gateArmed = TRUE, !.cooled = FALSE,
                                      !.retriesRemaining = left]
    BY <1>1, Zenon DEF Armed
  <1> QED BY <1>2 DEF TriggerState

LEMMA HoldTyped ==
    ASSUME TriggerTypes, Hold
    PROVE  Held \in 1..MaxStates /\ made' \in 0..MaxStates /\ current' \in 0..made'
  BY CompactionAssumption DEF TriggerTypes, Hold, Held

LEMMA TriggerTypesStep ==
    ASSUME TriggerTypes, [CompactionNext]_compactionVars
    PROVE  TriggerTypes'
  <1> USE CompactionAssumption DEF TriggerTypes, triggerVars
  <1>0. NewState \in TriggerState
    BY DEF NewState, TriggerState
  <1>1. ASSUME NEW s \in Slot, NEW full \in BOOLEAN, TurnCompleted(s, full)
        PROVE  TriggerTypes'
    <2>1. Held \in 1..MaxStates /\ made' \in 0..MaxStates /\ current' \in 0..made'
      BY <1>1, HoldTyped DEF TurnCompleted
    <2>2. [step |-> "threshold", of |-> Held, full |-> full] \in Threshold
      BY <2>1 DEF Threshold
    <2>3. attached' = attached /\ state' = state
      BY <1>1 DEF TurnCompleted
    <2>4. eval' = [eval EXCEPT ![s] = [step |-> "threshold", of |-> Held, full |-> full]]
      BY <1>1 DEF TurnCompleted
    <2>5. eval' \in [Slot -> {Free} \cup Threshold \cup Writing]
      BY <2>2, <2>4
    <2>6. attached' \in BOOLEAN
      BY <2>3, Zenon
    <2> QED BY <2>1, <2>3, <2>5, <2>6
  <1>2. ASSUME NEW s \in Slot, DoNotFire(s) PROVE TriggerTypes'
    <2>1. eval[s] \in Threshold
      BY <1>2 DEF DoNotFire, Threshold, Writing, Free
    <2>2. PICK g \in 1..MaxStates : g = eval[s].of
      BY <2>1 DEF Threshold
    <2>3. state' = state \/ state' = [state EXCEPT ![g].surfacedGiveUp = TRUE]
      BY <1>2, <2>2 DEF DoNotFire
    <2>4. [state[g] EXCEPT !.surfacedGiveUp = TRUE] \in TriggerState
      BY DEF TriggerState
    <2>5. state' \in [1..MaxStates -> TriggerState]
      BY <2>3, <2>4
    <2>6. UNCHANGED <<attached, made, current>> /\ eval' = [eval EXCEPT ![s] = Free]
      BY <1>2 DEF DoNotFire
    <2>7. attached' \in BOOLEAN
      BY <2>6, Zenon
    <2>8. eval' \in [Slot -> {Free} \cup Threshold \cup Writing]
      BY <2>6
    <2> QED BY <2>5, <2>6, <2>7, <2>8
  <1>3. ASSUME NEW s \in Slot, FireCompact(s) PROVE TriggerTypes'
    <2>1. Held \in 1..MaxStates /\ made' \in 0..MaxStates /\ current' \in 0..made'
      BY <1>3, HoldTyped DEF FireCompact
    <2>2. PICK retry \in BOOLEAN :
            eval' = [eval EXCEPT ![s] = [step |-> "writing", of |-> Held, retry |-> retry]]
      BY <1>3 DEF FireCompact
    <2>3. [step |-> "writing", of |-> Held, retry |-> retry] \in Writing
      BY <2>1 DEF Writing
    <2>4. eval' \in [Slot -> {Free} \cup Threshold \cup Writing]
      BY <2>2, <2>3
    <2>5. attached' = attached /\ state' = state
      BY <1>3 DEF FireCompact
    <2>6. attached' \in BOOLEAN
      BY <2>5, Zenon
    <2> QED BY <2>1, <2>4, <2>5, <2>6
  <1>4. ASSUME NEW s \in Slot, CompactSent(s) PROVE TriggerTypes'
    <2>1. eval[s] \in Writing
      BY <1>4 DEF CompactSent, Threshold, Writing, Free
    <2>2. PICK g \in 1..MaxStates : g = eval[s].of
      BY <2>1 DEF Writing
    <2>3. state' = [state EXCEPT ![g] = Armed(state[g], eval[s].retry)]
      BY <1>4, <2>2 DEF CompactSent
    <2>4. Armed(state[g], eval[s].retry) \in TriggerState
      BY ArmedTyped
    <2>5. state' \in [1..MaxStates -> TriggerState]
      BY <2>3, <2>4
    <2>6. UNCHANGED <<attached, made, current>> /\ eval' = [eval EXCEPT ![s] = Free]
      BY <1>4 DEF CompactSent
    <2>7. attached' \in BOOLEAN
      BY <2>6, Zenon
    <2>8. eval' \in [Slot -> {Free} \cup Threshold \cup Writing]
      BY <2>6
    <2> QED BY <2>5, <2>6, <2>7, <2>8
  <1>5. CASE CompactBoundary
    <2>1. UNCHANGED <<attached, made, current, eval>>
      BY <1>5 DEF CompactBoundary
    <2>2. state' \in [1..MaxStates -> TriggerState]
      BY <1>0, <1>5 DEF CompactBoundary
    <2>3. attached' \in BOOLEAN
      BY <2>1, Zenon
    <2> QED BY <2>1, <2>2, <2>3
  <1>6. ASSUME NEW g \in 1..MaxStates, Cooldown(g) PROVE TriggerTypes'
    <2>1. UNCHANGED <<attached, made, current, eval>>
      BY <1>6 DEF Cooldown
    <2>2. state' = [state EXCEPT ![g].cooled = TRUE]
      BY <1>6 DEF Cooldown
    <2>3. [state[g] EXCEPT !.cooled = TRUE] \in TriggerState
      BY DEF TriggerState
    <2>4. state' \in [1..MaxStates -> TriggerState]
      BY <2>2, <2>3
    <2>5. attached' \in BOOLEAN
      BY <2>1, Zenon
    <2> QED BY <2>1, <2>4, <2>5
  <1>7. ASSUME attached' \in BOOLEAN, UNCHANGED <<state, made, eval>>,
               current' = current \/ current' = 0
        PROVE  TriggerTypes'
    BY <1>7
  <1>8. ASSUME attached' = attached \/ attached' = TRUE \/ attached' = FALSE
        PROVE  attached' \in BOOLEAN
    BY <1>8
  <1>9. ASSUME NEW ok \in BOOLEAN, ReinjectionSent(ok) PROVE TriggerTypes'
    BY <1>7, <1>8, <1>9 DEF ReinjectionSent
  <1>10. CASE TurnFailed
    BY <1>7, <1>8, <1>10 DEF TurnFailed
  <1>11. CASE AgentStopped
    BY <1>7, <1>8, <1>11 DEF AgentStopped
  <1>12. CASE Relaunch
    BY <1>7, <1>8, <1>12 DEF Relaunch
  <1>13. CASE Restart
    <2>1. attached' = FALSE /\ made' = 0 /\ current' = 0
      BY <1>13 DEF Restart
    <2>2. state' = [g \in 1..MaxStates |-> NewState] /\ eval' = [s \in Slot |-> Free]
      BY <1>13 DEF Restart
    <2>3. state' \in [1..MaxStates -> TriggerState]
      BY <1>0, <2>2
    <2>4. eval' \in [Slot -> {Free} \cup Threshold \cup Writing]
      BY <2>2
    <2>5. made' \in 0..MaxStates /\ current' \in 0..made'
      BY <2>1
    <2>6. attached' \in BOOLEAN
      BY <1>8, <2>1
    <2> QED BY <2>3, <2>4, <2>5, <2>6
  <1>14. CASE UNCHANGED compactionVars
    BY <1>7, <1>8, <1>14 DEF compactionVars
  <1> QED BY <1>1, <1>2, <1>3, <1>4, <1>5, <1>6, <1>9, <1>10, <1>11, <1>12, <1>13, <1>14
          DEF CompactionNext

(* CompactionTrigger and CompactionHandler keep their types: evaluations   *)
(* hold state objects that were made, the budget of retries stays within   *)
(* its bounds, and no more reminders are being written than were due.      *)
THEOREM CompactionTypeCorrect == CompactionSpec => []CompactionTypeOK
  <1>1. CompactionInit => TriggerTypes /\ HandlerTypes
    <2> SUFFICES ASSUME CompactionInit PROVE TriggerTypes /\ HandlerTypes
      OBVIOUS
    <2> USE CompactionAssumption DEF CompactionInit
    <2>1. NewState \in TriggerState
      BY DEF NewState, TriggerState
    <2>2. TriggerTypes
      BY <2>1 DEF TriggerTypes
    <2>3. pending \in BOOLEAN
      BY Zenon
    <2>4. HandlerTypes
      BY <2>3 DEF HandlerTypes
    <2> QED BY <2>2, <2>4
  <1>2. HandlerInv /\ TriggerTypes /\ HandlerTypes /\ [CompactionNext]_compactionVars
        => (TriggerTypes /\ HandlerTypes)'
    BY HandlerTypesStep, TriggerTypesStep
  <1>3. HandlerInv /\ TriggerTypes /\ HandlerTypes => CompactionTypeOK
    <2> SUFFICES ASSUME HandlerInv, TriggerTypes, HandlerTypes PROVE CompactionTypeOK
      OBVIOUS
    <2>1. reinjecting \in 0..MaxBoundaries
      BY CompactionAssumption DEF HandlerInv, HandlerTypes
    <2>2. attached \in BOOLEAN /\ pending \in BOOLEAN
      BY Zenon DEF TriggerTypes, HandlerTypes
    <2>3. /\ state \in [1..MaxStates -> TriggerState]
          /\ made \in 0..MaxStates /\ current \in 0..made
          /\ eval \in [Slot -> {Free} \cup Threshold \cup Writing]
          /\ effect \in {"none", "pending", "delivered", "failed"}
          /\ boundaries \in 0..MaxBoundaries
          /\ reinjections \in Nat
      BY DEF TriggerTypes, HandlerTypes
    <2> QED BY <2>1, <2>2, <2>3, Zenon DEF CompactionTypeOK, TriggerState, Threshold, Writing
  <1> QED BY <1>1, <1>2, <1>3, HandlerInvariant, PTL DEF CompactionSpec

-----------------------------------------------------------------------------
(***************************************************************************)
(* The turn queue.  What its theorems need of a step is what it does with  *)
(* texts, so the actions are first sorted into kinds of steps, which the   *)
(* invariants are then shown to survive.                                   *)
(***************************************************************************)

(* What a sequence holds.                                                  *)
LEMMA HoldsNothing == ToSet(<<>>) = {}
  BY DEF ToSet

LEMMA HoldsIndexed ==
    ASSUME NEW S, NEW s \in Seq(S), NEW i \in 1..Len(s)
    PROVE  s[i] \in ToSet(s)
  BY DEF ToSet

LEMMA HoldsAt ==
    ASSUME NEW S, NEW s \in Seq(S), NEW x \in ToSet(s)
    PROVE  \E i \in 1..Len(s) : s[i] = x
  BY DEF ToSet

LEMMA HoldsAppended ==
    ASSUME NEW S, NEW s \in Seq(S), NEW x \in S
    PROVE  ToSet(Append(s, x)) = ToSet(s) \cup {x}
  <1>1. /\ DOMAIN Append(s, x) = 1..Len(s) + 1 /\ Len(s) \in Nat
        /\ Append(s, x)[Len(s) + 1] = x
        /\ \A i \in 1..Len(s) : Append(s, x)[i] = s[i]
    OBVIOUS
  <1>2. \A y \in ToSet(Append(s, x)) : y \in ToSet(s) \cup {x}
    <2> SUFFICES ASSUME NEW i \in 1..Len(s) + 1
                 PROVE  Append(s, x)[i] \in ToSet(s) \cup {x}
      BY <1>1 DEF ToSet
    <2>1. CASE i = Len(s) + 1
      BY <1>1, <2>1
    <2>2. CASE i \in 1..Len(s)
      BY <1>1, <2>2, HoldsIndexed
    <2> QED BY <1>1, <2>1, <2>2
  <1>3. \A y \in ToSet(s) : y \in ToSet(Append(s, x))
    BY <1>1 DEF ToSet
  <1>4. x \in ToSet(Append(s, x))
    BY <1>1 DEF ToSet
  <1> QED BY <1>2, <1>3, <1>4

(* The texts of two sequences.                                             *)
LEMMA HoldsBoth ==
    ASSUME NEW S, NEW s \in Seq(S), NEW t \in Seq(S)
    PROVE  ToSet(s \o t) = ToSet(s) \cup ToSet(t)
  <1>1. ASSUME NEW x \in ToSet(s \o t)
        PROVE  x \in ToSet(s) \cup ToSet(t)
    <2>1. PICK i \in 1..Len(s) + Len(t) : (s \o t)[i] = x
      BY <1>1 DEF ToSet
    <2>2. CASE i <= Len(s)
      BY <2>1, <2>2 DEF ToSet
    <2>3. CASE i > Len(s)
      <3>1. i - Len(s) \in 1..Len(t) /\ t[i - Len(s)] = x
        BY <2>1, <2>3
      <3> QED BY <3>1, HoldsIndexed
    <2> QED BY <2>2, <2>3
  <1>2. ASSUME NEW x \in ToSet(s)
        PROVE  x \in ToSet(s \o t)
    BY <1>2 DEF ToSet
  <1>3. ASSUME NEW x \in ToSet(t)
        PROVE  x \in ToSet(s \o t)
    <2>1. PICK i \in 1..Len(t) : t[i] = x
      BY <1>3, HoldsAt
    <2>2. Len(s) + i \in 1..Len(s \o t) /\ (s \o t)[Len(s) + i] = x
      BY <2>1
    <2> QED BY <2>2 DEF ToSet
  <1> QED BY <1>1, <1>2, <1>3

LEMMA HoldsHeadAndTail ==
    ASSUME NEW S, NEW s \in Seq(S), s # <<>>
    PROVE  Head(s) \in ToSet(s) /\ ToSet(Tail(s)) \subseteq ToSet(s) /\ Head(s) \in S
  BY DEF ToSet

LEMMA HoldsElements ==
    ASSUME NEW S, NEW s \in Seq(S)
    PROVE  ToSet(s) \subseteq S
  BY DEF ToSet

-----------------------------------------------------------------------------
LEMMA NoTurnTyped == NoTurn \in Turn /\ NoTurn.batch = <<>> /\ NoTurn.up = FALSE
  BY DEF NoTurn, Turn

LEMMA QueueFields ==
    ASSUME NEW q \in Queue
    PROVE  /\ q.pending \in Seq(Call) /\ q.slots \in Seq(Call)
           /\ q.turn \in Turn /\ q.turn.batch \in Seq(Call)
           /\ q.turn.up \in BOOLEAN /\ q.turn.resume \in BOOLEAN
           /\ q.left \in Nat /\ q.cli \in Cli
  BY DEF Queue, Turn

(* What the edits of a queue leave in its fields.                          *)
LEMMA SettledFields ==
    ASSUME NEW q \in Queue, q.slots # <<>>, NEW still \in Nat
    PROVE  /\ Settled(q, still) \in Queue
           /\ Settled(q, still).pending = q.pending
           /\ Settled(q, still).slots = Tail(q.slots)
           /\ Settled(q, still).turn = NoTurn
  <1>1. NoTurn \in Turn /\ q.left + still \in Nat /\ Tail(q.slots) \in Seq(Call)
    BY NoTurnTyped, QueueFields
  <1>2. PICK left \in Nat : left = q.left + still
    BY <1>1
  <1>3. PICK turn \in Turn : turn = NoTurn
    BY <1>1
  <1>4. PICK slots \in Seq(Call) : slots = Tail(q.slots)
    BY <1>1
  <1>5. Settled(q, still) = [q EXCEPT !.slots = slots, !.turn = turn, !.left = left]
    BY <1>2, <1>3, <1>4 DEF Settled, Queue
  <1>6. /\ [q EXCEPT !.slots = slots, !.turn = turn, !.left = left] \in Queue
        /\ [q EXCEPT !.slots = slots, !.turn = turn, !.left = left].pending = q.pending
        /\ [q EXCEPT !.slots = slots, !.turn = turn, !.left = left].slots = slots
        /\ [q EXCEPT !.slots = slots, !.turn = turn, !.left = left].turn = turn
    BY DEF Queue
  <1> QED BY <1>3, <1>4, <1>5, <1>6, Zenon

(* A queue with a turn, a batch, or pending texts changed.                 *)
WithTurn(q, turn)       == [q EXCEPT !.turn = turn]
WithPending(q, texts) == [q EXCEPT !.pending = texts]

LEMMA WithTurnFields ==
    ASSUME NEW q \in Queue, NEW turn \in Turn
    PROVE  /\ WithTurn(q, turn) \in Queue
           /\ WithTurn(q, turn).pending = q.pending
           /\ WithTurn(q, turn).slots = q.slots
           /\ WithTurn(q, turn).turn = turn
  BY DEF WithTurn, Queue

LEMMA WithPendingFields ==
    ASSUME NEW q \in Queue, NEW texts \in Seq(Call)
    PROVE  /\ WithPending(q, texts) \in Queue
           /\ WithPending(q, texts).pending = texts
           /\ WithPending(q, texts).slots = q.slots
           /\ WithPending(q, texts).turn = q.turn
  BY DEF WithPending, Queue

Tried(turn, resume, ok) == [turn EXCEPT !.resume = resume, !.up = ok, !.killed = FALSE]

LEMMA TriedFields ==
    ASSUME NEW turn \in Turn, NEW resume \in BOOLEAN, NEW ok \in BOOLEAN
    PROVE  /\ Tried(turn, resume, ok) \in Turn
           /\ Tried(turn, resume, ok).batch = turn.batch
           /\ Tried(turn, resume, ok).up = ok
  BY DEF Tried, Turn

Taken(q) == [q EXCEPT !.turn.batch = q.pending, !.pending = <<>>]

LEMMA TakenFields ==
    ASSUME NEW q \in Queue
    PROVE  /\ Taken(q) \in Queue
           /\ Taken(q).pending = <<>>
           /\ Taken(q).slots = q.slots
           /\ Taken(q).turn.batch = q.pending
  <1>1. q.turn \in Turn /\ q.pending \in Seq(Call) /\ <<>> \in Seq(Call)
    BY QueueFields
  <1>2. PICK none \in Seq(Call) : none = <<>>
    BY <1>1, Zenon
  <1> DEFINE turn == [q.turn EXCEPT !.batch = q.pending]
  <1>3. turn \in Turn /\ turn.batch = q.pending
    BY <1>1 DEF Turn
  <1>4. Taken(q) = WithPending(WithTurn(q, turn), none)
    BY <1>2 DEF Taken, WithPending, WithTurn, Queue, Turn
  <1> HIDE DEF turn
  <1> DEFINE half == WithTurn(q, turn)
  <1>5. half \in Queue /\ half.slots = q.slots /\ half.turn = turn
    BY <1>3, WithTurnFields
  <1> HIDE DEF half
  <1>6. /\ WithPending(half, none) \in Queue /\ WithPending(half, none).pending = none
        /\ WithPending(half, none).slots = half.slots /\ WithPending(half, none).turn = half.turn
    BY <1>5, WithPendingFields
  <1>7. Taken(q) = WithPending(half, none)
    BY <1>4 DEF half
  <1> QED BY <1>2, <1>3, <1>5, <1>6, <1>7

-----------------------------------------------------------------------------
(* A turn in flight has a batch.                                           *)
BatchInFlight == \A a \in Adapter : InFlight(a) => queue[a].turn.batch # <<>>

QueueTypeInv == QueueTypeOK /\ BatchInFlight

(* What a step makes of the queue of one adapter; the others keep theirs.  *)
After(a, texts, slots, batch, up) ==
    /\ queue' \in [Adapter -> Queue]
    /\ \A b \in Adapter : b # a => queue'[b] = queue[b]
    /\ queue'[a].pending = texts
    /\ queue'[a].slots = slots
    /\ queue'[a].turn.batch = batch
    /\ queue'[a].turn.up = up
    /\ queue'[a].turn # NoTurn => batch # <<>>

(* The kinds of steps, by what they do with texts.                         *)
Sends(c) ==
    LET q == queue[launches]
    IN /\ outcome[c] = "none"
       /\ After(launches, Append(q.pending, c), Append(q.slots, c), q.turn.batch, q.turn.up)
       /\ outcome' = [outcome EXCEPT ![c] = "waiting"]
       /\ called' = [called EXCEPT ![launches] = Append(@, c)]
       /\ UNCHANGED <<launches, log, missed>>

SlotEnds(a, texts, result) ==
    /\ queue[a].slots # <<>>
    /\ After(a, texts, Tail(queue[a].slots), <<>>, FALSE)
    /\ outcome' = [outcome EXCEPT ![Head(queue[a].slots)] = result]
    /\ UNCHANGED <<launches, called, log>>

(* The slot ends; its batch has been read, or is missed, or there is none  *)
(* and nothing is pending.                                                 *)
Settles(a) ==
    /\ \E result \in {"accepted", "coalesced", "turn_failed"} :
           SlotEnds(a, queue[a].pending, result)
    /\ \/ queue[a].turn.up
       \/ queue[a].turn.batch = <<>> /\ queue[a].pending = <<>>
       \/ queue[a].turn.batch # <<>> /\ missed' = missed \cup ToSet(queue[a].turn.batch)
    /\ missed \subseteq missed' /\ missed' \subseteq Call

Restores(a) ==
    /\ SlotEnds(a, queue[a].turn.batch \o queue[a].pending, "thrown")
    /\ UNCHANGED missed

Tries(a, batch, texts) ==
    /\ batch # <<>>
    /\ queue[a].slots # <<>>
    /\ \E ok \in BOOLEAN :
           /\ After(a, texts, queue[a].slots, batch, ok)
           /\ log' = IF ok THEN [log EXCEPT ![a] = @ \o batch] ELSE log
    /\ UNCHANGED <<launches, outcome, called, missed>>

Starts(a)  == queue[a].turn.batch = <<>> /\ Tries(a, queue[a].pending, <<>>)
Retries(a) == Tries(a, queue[a].turn.batch, queue[a].pending)

Quiet(a) ==
    /\ After(a, queue[a].pending, queue[a].slots, queue[a].turn.batch, queue[a].turn.up)
    /\ UNCHANGED <<launches, outcome, called, log, missed>>

Registers ==
    /\ launches < MaxLaunches
    /\ launches' = launches + 1
    /\ After(launches + 1, <<>>, <<>>, <<>>, FALSE)
    /\ UNCHANGED <<outcome, called, log, missed>>

QueueStep ==
    \/ \E c \in Call : Sends(c)
    \/ \E a \in Adapter : Settles(a) \/ Restores(a) \/ Starts(a) \/ Retries(a) \/ Quiet(a)
    \/ Registers

(* One queue is replaced.                                                  *)
LEMMA Replaced ==
    ASSUME QueueTypeOK, NEW a \in Adapter, NEW q \in Queue, queue' = [queue EXCEPT ![a] = q],
           q.turn # NoTurn => q.turn.batch # <<>>
    PROVE  After(a, q.pending, q.slots, q.turn.batch, q.turn.up)
  BY DEF QueueTypeOK, After

LEMMA InFlightOrNot ==
    ASSUME QueueTypeInv, NEW a \in Adapter
    PROVE  /\ queue[a] \in Queue /\ launches \in Adapter
           /\ InFlight(a) => queue[a].turn.batch # <<>> /\ queue[a].slots # <<>>
           /\ ~InFlight(a) => queue[a].turn.batch = <<>> /\ ~queue[a].turn.up
           /\ queue[a].turn.up => InFlight(a)
  BY NoTurnTyped DEF QueueTypeInv, QueueTypeOK, BatchInFlight, InFlight

(* A slot that settles, and one that restores its batch.                   *)
LEMMA SettledEnds ==
    ASSUME QueueTypeInv, NEW a \in Adapter, queue[a].slots # <<>>, NEW still \in Nat,
           queue' = [queue EXCEPT ![a] = Settled(@, still)]
    PROVE  After(a, queue[a].pending, Tail(queue[a].slots), <<>>, FALSE)
  <1>1. queue[a] \in Queue /\ QueueTypeOK
    BY InFlightOrNot DEF QueueTypeInv
  <1>2. PICK q \in Queue : q = Settled(queue[a], still)
    BY <1>1, SettledFields
  <1>3. queue' = [queue EXCEPT ![a] = q]
    BY <1>2
  <1>4. q.pending = queue[a].pending /\ q.slots = Tail(queue[a].slots) /\ q.turn = NoTurn
    BY <1>1, <1>2, SettledFields
  <1>5. After(a, q.pending, q.slots, q.turn.batch, q.turn.up)
    BY <1>1, <1>3, <1>4, Replaced
  <1> QED BY <1>4, <1>5, NoTurnTyped

LEMMA SettledRestores ==
    ASSUME QueueTypeInv, NEW a \in Adapter, queue[a].slots # <<>>, NEW still \in Nat,
           NEW texts \in Seq(Call),
           queue' = [queue EXCEPT ![a] = WithPending(Settled(queue[a], still), texts)]
    PROVE  After(a, texts, Tail(queue[a].slots), <<>>, FALSE)
  <1>1. queue[a] \in Queue /\ QueueTypeOK
    BY InFlightOrNot DEF QueueTypeInv
  <1>2. PICK q \in Queue : q = Settled(queue[a], still)
    BY <1>1, SettledFields
  <1>3. q.slots = Tail(queue[a].slots) /\ q.turn = NoTurn
    BY <1>1, <1>2, SettledFields
  <1>4. PICK r \in Queue : r = WithPending(q, texts)
    BY WithPendingFields
  <1>5. r.pending = texts /\ r.slots = q.slots /\ r.turn = q.turn
    BY <1>4, WithPendingFields
  <1>6. queue' = [queue EXCEPT ![a] = r]
    BY <1>2, <1>4
  <1>7. After(a, r.pending, r.slots, r.turn.batch, r.turn.up)
    BY <1>1, <1>3, <1>5, <1>6, Replaced
  <1> QED BY <1>3, <1>5, <1>7, NoTurnTyped

(* attempt() for a batch that q has taken.                                 *)
LEMMA AttemptTries ==
    ASSUME QueueTypeInv, NEW a \in Adapter, NEW q \in Queue, NEW resume \in BOOLEAN,
           Attempt(a, q, resume), q.turn.batch # <<>>, q.slots = queue[a].slots,
           queue[a].slots # <<>>, UNCHANGED <<launches, outcome, called, missed>>
    PROVE  Tries(a, q.turn.batch, q.pending)
  <1>1. QueueTypeOK /\ q.turn \in Turn
    BY QueueFields DEF QueueTypeInv
  <1>2. PICK ok \in BOOLEAN :
           /\ queue' = [queue EXCEPT ![a] = WithTurn(q, Tried(q.turn, resume, ok))]
           /\ log' = IF ok THEN [log EXCEPT ![a] = @ \o q.turn.batch] ELSE log
    BY Zenon DEF Attempt, WithTurn, Tried
  <1>3. PICK turn \in Turn : turn = Tried(q.turn, resume, ok)
    BY <1>1, TriedFields
  <1>4. turn.batch = q.turn.batch /\ turn.up = ok
    BY <1>1, <1>3, TriedFields
  <1>5. PICK r \in Queue : r = WithTurn(q, turn)
    BY WithTurnFields
  <1>6. r.pending = q.pending /\ r.slots = q.slots /\ r.turn = turn
    BY <1>5, WithTurnFields
  <1>7. queue' = [queue EXCEPT ![a] = r]
    BY <1>2, <1>3, <1>5
  <1>8. After(a, r.pending, r.slots, r.turn.batch, r.turn.up)
    BY <1>1, <1>4, <1>6, <1>7, Replaced
  <1> QED BY <1>2, <1>4, <1>6, <1>8 DEF Tries

WithLeft(q, left)     == [q EXCEPT !.left = left]
WithEnded(q, ended)   == [q EXCEPT !.ended = ended]
Killed(turn, killed)  == [turn EXCEPT !.killed = killed]

LEMMA WithLeftFields ==
    ASSUME NEW q \in Queue, NEW left \in Nat
    PROVE  /\ WithLeft(q, left) \in Queue
           /\ WithLeft(q, left).pending = q.pending
           /\ WithLeft(q, left).slots = q.slots
           /\ WithLeft(q, left).turn = q.turn
  BY DEF WithLeft, Queue

LEMMA WithEndedFields ==
    ASSUME NEW q \in Queue, NEW ended \in BOOLEAN
    PROVE  /\ WithEnded(q, ended) \in Queue
           /\ WithEnded(q, ended).pending = q.pending
           /\ WithEnded(q, ended).slots = q.slots
           /\ WithEnded(q, ended).turn = q.turn
  BY DEF WithEnded, Queue

(* A signal is sent to a process that is there; no turn stays no turn.     *)
LEMMA KilledFields ==
    ASSUME NEW turn \in Turn, NEW killed \in BOOLEAN
    PROVE  /\ Killed(turn, killed) \in Turn
           /\ Killed(turn, killed).batch = turn.batch
           /\ Killed(turn, killed).up = turn.up
           /\ turn = NoTurn /\ killed = FALSE => Killed(turn, killed) = NoTurn
  <1>1. /\ Killed(turn, killed) \in Turn
        /\ Killed(turn, killed).batch = turn.batch
        /\ Killed(turn, killed).up = turn.up
    BY DEF Killed, Turn
  <1>2. ASSUME turn = NoTurn, killed = FALSE
        PROVE  Killed(turn, killed) = NoTurn
    <2>1. ASSUME NEW s \in Turn, NEW t \in Turn, s.batch = t.batch, s.resume = t.resume,
                 s.up = t.up, s.killed = t.killed
          PROVE  s = t
      BY <2>1 DEF Turn
    <2>2. /\ Killed(turn, killed).batch = turn.batch /\ Killed(turn, killed).up = turn.up
          /\ Killed(turn, killed).resume = turn.resume /\ Killed(turn, killed).killed = killed
      BY DEF Killed, Turn
    <2>3. turn.killed = FALSE
      BY <1>2 DEF NoTurn
    <2> QED BY <1>1, <1>2, <2>1, <2>2, <2>3
  <1> QED BY <1>1, <1>2

LEMMA QuietReplaced ==
    ASSUME QueueTypeInv, NEW a \in Adapter, NEW q \in Queue, queue' = [queue EXCEPT ![a] = q],
           q.pending = queue[a].pending, q.slots = queue[a].slots,
           q.turn.batch = queue[a].turn.batch, q.turn.up = queue[a].turn.up,
           q.turn # NoTurn => InFlight(a),
           UNCHANGED <<launches, outcome, called, log, missed>>
    PROVE  Quiet(a)
  BY Replaced, InFlightOrNot DEF QueueTypeInv, Quiet

(* Every action is a step of one of the kinds.                             *)
LEMMA StepsOfTheQueue ==
    ASSUME QueueTypeInv, QueueNext
    PROVE  QueueStep
  <1>0. QueueTypeOK /\ queue \in [Adapter -> Queue]
    BY DEF QueueTypeInv, QueueTypeOK
  <1>1. ASSUME NEW c \in Call, SendTurn(c)
        PROVE  QueueStep
    <2> DEFINE q == queue[launches]
    <2>1. q \in Queue /\ launches \in Adapter
      BY <1>0 DEF QueueTypeOK
    <2>2. PICK texts \in Seq(Call), slots \in Seq(Call) :
             texts = Append(q.pending, c) /\ slots = Append(q.slots, c)
      <3>1. Append(q.pending, c) \in Seq(Call) /\ Append(q.slots, c) \in Seq(Call)
        BY <2>1, QueueFields
      <3> QED BY <3>1, Zenon
    <2>3. /\ [q EXCEPT !.pending = texts, !.slots = slots] \in Queue
          /\ [q EXCEPT !.pending = texts, !.slots = slots].pending = texts
          /\ [q EXCEPT !.pending = texts, !.slots = slots].slots = slots
          /\ [q EXCEPT !.pending = texts, !.slots = slots].turn = q.turn
      <3>1. PICK old \in Queue : old = q
        BY <2>1
      <3> HIDE DEF q
      <3>2. /\ [old EXCEPT !.pending = texts, !.slots = slots] \in Queue
            /\ [old EXCEPT !.pending = texts, !.slots = slots].pending = texts
            /\ [old EXCEPT !.pending = texts, !.slots = slots].slots = slots
            /\ [old EXCEPT !.pending = texts, !.slots = slots].turn = old.turn
        BY DEF Queue
      <3> QED BY <3>1, <3>2, Zenon
    <2>4. queue' = [queue EXCEPT ![launches] = [q EXCEPT !.pending = texts, !.slots = slots]]
      BY <1>1, <2>1, <2>2 DEF SendTurn, Queue
    <2> DEFINE r == [q EXCEPT !.pending = texts, !.slots = slots]
    <2> HIDE DEF r
    <2>5. r \in Queue /\ r.pending = texts /\ r.slots = slots /\ r.turn = q.turn
      BY <2>3, Zenon DEF r
    <2>6. queue' = [queue EXCEPT ![launches] = r]
      BY <2>4, Zenon DEF r
    <2>7. After(launches, r.pending, r.slots, r.turn.batch, r.turn.up)
      BY <1>0, <2>1, <2>5, <2>6, Replaced, InFlightOrNot DEF InFlight
    <2>8. Sends(c)
      BY <1>1, <2>2, <2>5, <2>7 DEF SendTurn, Sends
    <2> QED BY <2>8 DEF QueueStep
  <1>2. ASSUME NEW a \in Adapter, Coalesce(a)
        PROVE  QueueStep
    <2>1. After(a, queue[a].pending, Tail(queue[a].slots), <<>>, FALSE)
      BY <1>2, SettledEnds DEF Coalesce
    <2>2. SlotEnds(a, queue[a].pending, "coalesced")
      BY <1>2, <2>1 DEF Coalesce, SlotEnds, Tell
    <2>3. Settles(a)
      BY <1>0, <1>2, <2>2, InFlightOrNot DEF Coalesce, Settles, QueueTypeOK
    <2> QED BY <2>3 DEF QueueStep
  <1>3. ASSUME NEW a \in Adapter, StartTurn(a)
        PROVE  QueueStep
    <2>1. queue[a] \in Queue /\ cliSession \in BOOLEAN
      BY <1>0 DEF QueueTypeOK
    <2>2. PICK q \in Queue : q = Taken(queue[a])
      BY <2>1, TakenFields
    <2>3. q.pending = <<>> /\ q.slots = queue[a].slots /\ q.turn.batch = queue[a].pending
      BY <2>1, <2>2, TakenFields
    <2>4. Attempt(a, q, cliSession)
      BY <1>3, <2>2 DEF StartTurn, Taken
    <2>5. Tries(a, queue[a].pending, <<>>)
      BY <1>3, <2>1, <2>3, <2>4, AttemptTries DEF StartTurn
    <2> QED BY <1>3, <2>5, InFlightOrNot DEF StartTurn, Starts, QueueStep
  <1>4. ASSUME NEW a \in Adapter, StartThrows(a)
        PROVE  QueueStep
    <2>1. queue[a].pending \in Seq(Call) /\ queue[a].turn.batch = <<>>
      BY <1>0, <1>4, QueueFields, InFlightOrNot DEF StartThrows
    <2>2. PICK still \in Nat : still = 0
      OBVIOUS
    <2>3. PICK q \in Queue : q = Settled(queue[a], still)
      BY <1>0, <1>4, SettledFields DEF StartThrows
    <2>4. q.pending = queue[a].pending
      BY <1>0, <1>4, <2>3, SettledFields DEF StartThrows
    <2>5. PICK texts \in Seq(Call) : texts = Restored(queue[a].pending, <<>>)
      BY <2>1 DEF Restored
    <2>6. queue' = [queue EXCEPT ![a] = WithPending(Settled(queue[a], still), texts)]
      <3>1. [q EXCEPT !.pending = Restored(@, <<>>)] = WithPending(q, texts)
        BY <2>4, <2>5 DEF WithPending, Queue
      <3>2. queue' = [queue EXCEPT ![a] = [Settled(queue[a], still) EXCEPT
                                             !.pending = Restored(@, <<>>)]]
        BY <1>4, <2>2, Zenon DEF StartThrows
      <3> QED BY <2>3, <3>1, <3>2, Zenon
    <2>7. After(a, texts, Tail(queue[a].slots), <<>>, FALSE)
      BY <1>4, <2>6, SettledRestores DEF StartThrows
    <2>8. texts = queue[a].turn.batch \o queue[a].pending
      BY <2>1, <2>5 DEF Restored
    <2>9. Restores(a)
      BY <1>4, <2>7, <2>8 DEF StartThrows, Restores, SlotEnds, Tell
    <2> QED BY <2>9 DEF QueueStep
  <1>5. ASSUME NEW a \in Adapter, SessionStarted(a)
        PROVE  QueueStep
    <2>1. Quiet(a)
      BY <1>0, <1>5, InFlightOrNot DEF SessionStarted, Quiet, After, InFlight
    <2> QED BY <2>1 DEF QueueStep
  <1>6. ASSUME NEW a \in Adapter, TurnCompletedLine(a) \/ TurnFailedLine(a) \/ ProcessClosed(a)
        PROVE  QueueStep
    <2>1. queue[a].turn.up /\ queue[a].slots # <<>>
      BY <1>6, InFlightOrNot DEF TurnCompletedLine, TurnFailedLine, ProcessClosed
    <2>2. PICK still \in {0, 1} : queue' = [queue EXCEPT ![a] = Settled(@, still)]
      BY <1>6 DEF TurnCompletedLine, TurnFailedLine, ProcessClosed
    <2>3. After(a, queue[a].pending, Tail(queue[a].slots), <<>>, FALSE)
      BY <2>1, <2>2, SettledEnds
    <2>4. PICK result \in {"accepted", "turn_failed"} : Tell(a, result)
      BY <1>6 DEF TurnCompletedLine, TurnFailedLine, ProcessClosed
    <2>5. UNCHANGED <<launches, called, log, missed>>
      BY <1>6 DEF TurnCompletedLine, TurnFailedLine, ProcessClosed
    <2>6. Settles(a)
      BY <1>0, <2>1, <2>3, <2>4, <2>5 DEF Settles, SlotEnds, Tell, QueueTypeOK
    <2> QED BY <2>6 DEF QueueStep
  <1>7. ASSUME NEW a \in Adapter, SpawnFailed(a)
        PROVE  QueueStep
    <2>1. queue[a].slots # <<>> /\ queue[a].turn.batch # <<>> /\ queue[a].turn.batch \in Seq(Call)
      BY <1>0, <1>7, InFlightOrNot, QueueFields DEF SpawnFailed
    <2>2. After(a, queue[a].pending, Tail(queue[a].slots), <<>>, FALSE)
      BY <1>7, <2>1, SettledEnds DEF SpawnFailed
    <2>3. ToSet(queue[a].turn.batch) \subseteq Call
      BY <2>1, HoldsElements
    <2>4. Settles(a)
      BY <1>0, <1>7, <2>1, <2>2, <2>3 DEF SpawnFailed, Settles, SlotEnds, Tell, QueueTypeOK
    <2> QED BY <2>4 DEF QueueStep
  <1>8. ASSUME NEW a \in Adapter, SessionUnknown(a)
        PROVE  QueueStep
    <2>1. /\ queue[a] \in Queue /\ queue[a].slots # <<>> /\ queue[a].turn.batch # <<>>
          /\ queue[a].turn.batch \in Seq(Call) /\ queue[a].pending \in Seq(Call)
          /\ queue[a].left \in Nat
      BY <1>0, <1>8, InFlightOrNot, QueueFields DEF SessionUnknown
    <2>2. UNCHANGED <<launches, called, missed>>
      BY <1>8 DEF SessionUnknown
    <2>3. PICK still \in {0, 1} :
             \/ /\ Attempt(a, [queue[a] EXCEPT !.left = @ + still], FALSE)
                /\ UNCHANGED outcome
             \/ /\ queue' = [queue EXCEPT ![a] = [Settled(queue[a], still) EXCEPT
                                                  !.pending = Restored(queue[a].turn.batch, @)]]
                /\ Tell(a, "thrown")
                /\ UNCHANGED log
      BY <1>8 DEF SessionUnknown
    <2>4. CASE Attempt(a, [queue[a] EXCEPT !.left = @ + still], FALSE) /\ UNCHANGED outcome
      <3>1. PICK left \in Nat : left = queue[a].left + still
        BY <2>1
      <3>2. PICK q \in Queue : q = WithLeft(queue[a], left)
        BY <2>1, WithLeftFields
      <3>3. q.pending = queue[a].pending /\ q.slots = queue[a].slots /\ q.turn = queue[a].turn
        BY <2>1, <3>2, WithLeftFields
      <3>4. Attempt(a, q, FALSE)
        <4>1. q = [queue[a] EXCEPT !.left = @ + still]
          BY <2>1, <3>1, <3>2 DEF WithLeft, Queue
        <4> QED BY <2>4, <4>1
      <3>5. Tries(a, queue[a].turn.batch, queue[a].pending)
        BY <2>1, <2>2, <2>4, <3>3, <3>4, AttemptTries
      <3> QED BY <3>5 DEF Retries, QueueStep
    <2>5. CASE /\ queue' = [queue EXCEPT ![a] =
                     [Settled(queue[a], still) EXCEPT !.pending = Restored(queue[a].turn.batch, @)]]
               /\ Tell(a, "thrown")
               /\ UNCHANGED log
      <3>1. PICK q \in Queue : q = Settled(queue[a], still)
        BY <2>1, SettledFields
      <3>2. q.pending = queue[a].pending
        BY <2>1, <3>1, SettledFields
      <3>3. PICK texts \in Seq(Call) : texts = queue[a].turn.batch \o queue[a].pending
        <4>1. queue[a].turn.batch \o queue[a].pending \in Seq(Call)
          BY <2>1
        <4> QED BY <4>1, Zenon
      <3>4. queue' = [queue EXCEPT ![a] = WithPending(Settled(queue[a], still), texts)]
        <4>1. [q EXCEPT !.pending = Restored(queue[a].turn.batch, @)] = WithPending(q, texts)
          BY <3>2, <3>3 DEF WithPending, Restored, Queue
        <4>2. queue' = [queue EXCEPT ![a] = [Settled(queue[a], still) EXCEPT
                                               !.pending = Restored(queue[a].turn.batch, @)]]
          BY <2>5, Zenon
        <4> QED BY <3>1, <4>1, <4>2, Zenon
      <3>5. After(a, texts, Tail(queue[a].slots), <<>>, FALSE)
        BY <2>1, <3>4, SettledRestores
      <3>6. Restores(a)
        BY <2>1, <2>2, <2>5, <3>3, <3>5 DEF Restores, SlotEnds, Tell
      <3> QED BY <3>6 DEF QueueStep
    <2> QED BY <2>3, <2>4, <2>5
  <1>9. ASSUME NEW a \in Adapter, TurnTimeout(a)
        PROVE  QueueStep
    <2>1. queue[a] \in Queue /\ queue[a].turn \in Turn /\ InFlight(a)
      BY <1>0, <1>9, QueueFields, InFlightOrNot DEF TurnTimeout
    <2>2. PICK turn \in Turn : turn = Killed(queue[a].turn, TRUE)
      BY <2>1, KilledFields
    <2>3. turn.batch = queue[a].turn.batch /\ turn.up = queue[a].turn.up
      BY <2>1, <2>2, KilledFields
    <2>4. PICK q \in Queue : q = WithTurn(queue[a], turn)
      BY <2>1, WithTurnFields
    <2>5. q.pending = queue[a].pending /\ q.slots = queue[a].slots /\ q.turn = turn
      BY <2>1, <2>4, WithTurnFields
    <2>6. queue' = [queue EXCEPT ![a] = q]
      BY <1>0, <1>9, <2>2, <2>4 DEF TurnTimeout, WithTurn, Killed
    <2>7. Quiet(a)
      BY <1>9, <2>1, <2>3, <2>5, <2>6, QuietReplaced DEF TurnTimeout
    <2> QED BY <2>7 DEF QueueStep
  <1>10. ASSUME NEW a \in Adapter, LeftExits(a)
         PROVE  QueueStep
    <2>1. queue[a] \in Queue /\ queue[a].left \in Nat /\ queue[a].left > 0
      BY <1>0, <1>10, QueueFields DEF LeftExits
    <2>2. PICK left \in Nat : left = queue[a].left - 1
      BY <2>1
    <2>3. PICK q \in Queue : q = WithLeft(queue[a], left)
      BY <2>1, WithLeftFields
    <2>4. q.pending = queue[a].pending /\ q.slots = queue[a].slots /\ q.turn = queue[a].turn
      BY <2>1, <2>3, WithLeftFields
    <2>5. queue' = [queue EXCEPT ![a] = q]
      BY <1>0, <1>10, <2>2, <2>3 DEF LeftExits, WithLeft
    <2>6. Quiet(a)
      BY <1>10, <2>4, <2>5, QuietReplaced DEF LeftExits, InFlight
    <2> QED BY <2>6 DEF QueueStep
  <1>11. ASSUME NEW a \in Adapter, Stop(a)
         PROVE  QueueStep
    <2>1. queue[a] \in Queue /\ queue[a].turn \in Turn /\ queue[a].turn.up \in BOOLEAN
      BY <1>0, QueueFields
    <2>2. PICK turn \in Turn : turn = Killed(queue[a].turn, queue[a].turn.up)
      BY <2>1, KilledFields
    <2>3. /\ turn.batch = queue[a].turn.batch /\ turn.up = queue[a].turn.up
          /\ turn # NoTurn => InFlight(a)
      BY <2>1, <2>2, KilledFields, InFlightOrNot, NoTurnTyped DEF InFlight
    <2>4. PICK half \in Queue : half = WithEnded(queue[a], TRUE)
      BY <2>1, WithEndedFields
    <2>5. PICK q \in Queue : q = WithTurn(half, turn)
      BY WithTurnFields
    <2>6. q.pending = queue[a].pending /\ q.slots = queue[a].slots /\ q.turn = turn
      <3>1. half.pending = queue[a].pending /\ half.slots = queue[a].slots
        BY <2>1, <2>4, WithEndedFields
      <3> QED BY <2>5, <3>1, WithTurnFields
    <2>7. queue' = [queue EXCEPT ![a] = q]
      BY <1>0, <1>11, <2>2, <2>4, <2>5 DEF Stop, WithTurn, WithEnded, Killed
    <2>8. Quiet(a)
      BY <1>11, <2>3, <2>6, <2>7, QuietReplaced DEF Stop
    <2> QED BY <2>8 DEF QueueStep
  <1>12. ASSUME NEW cli \in Cli, RegisterSessionAgent(cli)
         PROVE  QueueStep
    <2>1. launches + 1 \in Adapter /\ launches < MaxLaunches
      BY <1>0, <1>12, QueueAssumption DEF RegisterSessionAgent, QueueTypeOK, Adapter
    <2>2. NewQueue(cli) \in Queue
      BY NoTurnTyped DEF NewQueue, Queue
    <2>3. PICK q \in Queue : q = NewQueue(cli)
      BY <2>2
    <2>4. q.pending = <<>> /\ q.slots = <<>> /\ q.turn = NoTurn
      BY <2>3 DEF NewQueue
    <2>5. queue' = [queue EXCEPT ![launches + 1] = q]
      BY <1>12, <2>3 DEF RegisterSessionAgent
    <2>6. After(launches + 1, q.pending, q.slots, q.turn.batch, q.turn.up)
      BY <1>0, <2>1, <2>4, <2>5, Replaced
    <2>7. Registers
      BY <1>12, <2>1, <2>4, <2>6, NoTurnTyped DEF RegisterSessionAgent, Registers
    <2> QED BY <2>7 DEF QueueStep
  <1> QED BY <1>1, <1>2, <1>3, <1>4, <1>5, <1>6, <1>7, <1>8, <1>9, <1>10, <1>11, <1>12
          DEF QueueNext

(* cliSession stays a truth value.                                         *)
LEMMA SessionTyped ==
    ASSUME cliSession \in BOOLEAN, QueueNext
    PROVE  cliSession' \in BOOLEAN
  <1>1. ASSUME NEW a \in Adapter, SessionStarted(a)
        PROVE  cliSession' \in BOOLEAN
    BY <1>1, Zenon DEF SessionStarted
  <1>2. ASSUME NEW a \in Adapter, SessionUnknown(a)
        PROVE  cliSession' \in BOOLEAN
    BY <1>2, Zenon DEF SessionUnknown
  <1>3. CASE UNCHANGED cliSession
    BY <1>3
  <1> QED BY <1>1, <1>2, <1>3 DEF QueueNext, SendTurn, Coalesce, StartTurn, StartThrows,
             TurnCompletedLine, TurnFailedLine, ProcessClosed, SpawnFailed, TurnTimeout,
             LeftExits, Stop, RegisterSessionAgent

(* In flight is what has a batch, before a step and after it.              *)
LEMMA AfterIsTyped ==
    ASSUME QueueTypeInv, NEW a \in Adapter, NEW texts, NEW slots, NEW batch, NEW up,
           After(a, texts, slots, batch, up), batch # <<>> => slots # <<>>
    PROVE  /\ queue' \in [Adapter -> Queue]
           /\ BatchInFlight'
           /\ \A b \in Adapter : InFlight(b)' => queue'[b].slots # <<>>
  <1>1. \A b \in Adapter : b # a => queue'[b] = queue[b]
    BY DEF After
  <1>2. InFlight(a)' => batch # <<>> /\ queue'[a].turn.batch = batch /\ queue'[a].slots = slots
    BY DEF After, InFlight
  <1>3. \A b \in Adapter : b # a /\ InFlight(b)' =>
             queue'[b].turn.batch # <<>> /\ queue'[b].slots # <<>>
    BY <1>1, InFlightOrNot DEF InFlight
  <1> QED BY <1>2, <1>3 DEF After, BatchInFlight

LEMMA SlotEndTyped ==
    ASSUME QueueTypeInv, NEW a \in Adapter, NEW texts \in Seq(Call),
           NEW result \in Outcome, SlotEnds(a, texts, result), missed' \subseteq Call,
           cliSession' \in BOOLEAN
    PROVE  QueueTypeInv'
  <1>1. After(a, texts, Tail(queue[a].slots), <<>>, FALSE)
    BY DEF SlotEnds
  <1>2. /\ queue' \in [Adapter -> Queue] /\ BatchInFlight'
        /\ \A b \in Adapter : InFlight(b)' => queue'[b].slots # <<>>
    BY <1>1, AfterIsTyped
  <1>3. queue[a].slots \in Seq(Call) /\ queue[a].slots # <<>>
    BY InFlightOrNot, QueueFields DEF SlotEnds
  <1>4. outcome' \in [Call -> Outcome]
    BY <1>3 DEF SlotEnds, QueueTypeInv, QueueTypeOK
  <1> QED BY <1>2, <1>4 DEF SlotEnds, QueueTypeInv, QueueTypeOK

LEMMA TriesTyped ==
    ASSUME QueueTypeInv, NEW a \in Adapter, NEW texts, NEW batch \in Seq(Call),
           Tries(a, batch, texts), cliSession' \in BOOLEAN
    PROVE  QueueTypeInv'
  <1>1. PICK ok \in BOOLEAN :
           /\ After(a, texts, queue[a].slots, batch, ok)
           /\ log' = IF ok THEN [log EXCEPT ![a] = @ \o batch] ELSE log
    BY DEF Tries
  <1>2. /\ queue' \in [Adapter -> Queue] /\ BatchInFlight'
        /\ \A b \in Adapter : InFlight(b)' => queue'[b].slots # <<>>
    BY <1>1, AfterIsTyped DEF Tries
  <1>3. log[a] \o batch \in Seq(Call)
    BY DEF QueueTypeInv, QueueTypeOK
  <1>4. log' \in [Adapter -> Seq(Call)]
    BY <1>1, <1>3 DEF QueueTypeInv, QueueTypeOK
  <1> QED BY <1>2, <1>4 DEF Tries, QueueTypeInv, QueueTypeOK

(* The turn queue keeps its types, and a turn is in flight just when its   *)
(* adapter has a batch that a slot waits for.                              *)
THEOREM QueueTypeCorrect == QueueSpec => []QueueTypeInv
  <1> USE QueueAssumption
  <1>1. QueueInit => QueueTypeInv
    <2> SUFFICES ASSUME QueueInit PROVE QueueTypeInv
      OBVIOUS
    <2>1. PICK cli \in Cli : queue = [a \in Adapter |-> NewQueue(cli)]
      BY DEF QueueInit
    <2>2. NewQueue(cli) \in Queue
      BY NoTurnTyped DEF NewQueue, Queue
    <2>3. NewQueue(cli).turn = NoTurn
      BY DEF NewQueue
    <2>4. queue \in [Adapter -> Queue] /\ \A a \in Adapter : ~InFlight(a)
      BY <2>1, <2>2, <2>3 DEF InFlight
    <2>5. cliSession \in BOOLEAN
      BY Zenon DEF QueueInit
    <2>6. outcome \in [Call -> Outcome] /\ called \in [Adapter -> Seq(Call)]
          /\ log \in [Adapter -> Seq(Call)] /\ missed \subseteq Call
      BY DEF QueueInit, Outcome
    <2>7. launches \in Adapter
      BY DEF QueueInit, Adapter
    <2> QED BY <2>4, <2>5, <2>6, <2>7 DEF QueueTypeInv, QueueTypeOK, BatchInFlight
  <1>2. ASSUME QueueTypeInv, [QueueNext]_queueVars
        PROVE  QueueTypeInv'
    <2>1. CASE UNCHANGED queueVars
      BY <1>2, <2>1 DEF queueVars, QueueTypeInv, QueueTypeOK, BatchInFlight, InFlight
    <2>2. CASE QueueNext
      <3>0. QueueStep /\ cliSession' \in BOOLEAN /\ queue \in [Adapter -> Queue]
        BY <1>2, <2>2, StepsOfTheQueue, SessionTyped DEF QueueTypeInv, QueueTypeOK
      <3>1. ASSUME NEW c \in Call, Sends(c)
            PROVE  QueueTypeInv'
        <4> DEFINE q == queue[launches]
        <4>1. launches \in Adapter /\ Append(q.slots, c) # <<>>
          <5>1. launches \in Adapter
            BY <1>2 DEF QueueTypeInv, QueueTypeOK
          <5>2. q.slots \in Seq(Call)
            BY <3>0, <5>1, QueueFields
          <5> QED BY <5>1, <5>2
        <4>2. After(launches, Append(q.pending, c), Append(q.slots, c), q.turn.batch, q.turn.up)
          BY <3>1 DEF Sends
        <4>3. /\ queue' \in [Adapter -> Queue] /\ BatchInFlight'
              /\ \A b \in Adapter : InFlight(b)' => queue'[b].slots # <<>>
          BY <1>2, <4>1, <4>2, AfterIsTyped
        <4>4. outcome' \in [Call -> Outcome] /\ called' \in [Adapter -> Seq(Call)]
          BY <1>2, <3>1, <4>1 DEF Sends, QueueTypeInv, QueueTypeOK, Outcome
        <4> QED BY <1>2, <3>0, <3>1, <4>3, <4>4 DEF Sends, QueueTypeInv, QueueTypeOK
      <3>2. ASSUME NEW a \in Adapter, Settles(a)
            PROVE  QueueTypeInv'
        BY <1>2, <3>0, <3>2, SlotEndTyped, QueueFields DEF Settles, Outcome
      <3>3. ASSUME NEW a \in Adapter, Restores(a)
            PROVE  QueueTypeInv'
        <4>1. queue[a].turn.batch \o queue[a].pending \in Seq(Call)
          BY <3>0, QueueFields
        <4> QED BY <1>2, <3>0, <3>3, <4>1, SlotEndTyped
                DEF Restores, Outcome, QueueTypeInv, QueueTypeOK
      <3>4. ASSUME NEW a \in Adapter, Starts(a) \/ Retries(a)
            PROVE  QueueTypeInv'
        BY <1>2, <3>0, <3>4, TriesTyped, QueueFields DEF Starts, Retries
      <3>5. ASSUME NEW a \in Adapter, Quiet(a)
            PROVE  QueueTypeInv'
        <4>1. queue[a].turn.batch # <<>> => queue[a].slots # <<>>
          BY <1>2, InFlightOrNot
        <4>2. /\ queue' \in [Adapter -> Queue] /\ BatchInFlight'
              /\ \A b \in Adapter : InFlight(b)' => queue'[b].slots # <<>>
          BY <1>2, <3>5, <4>1, AfterIsTyped DEF Quiet
        <4> QED BY <1>2, <3>0, <3>5, <4>2 DEF Quiet, QueueTypeInv, QueueTypeOK
      <3>6. CASE Registers
        <4>1. launches + 1 \in Adapter
          BY <1>2, <3>6 DEF Registers, QueueTypeInv, QueueTypeOK, Adapter
        <4>2. /\ queue' \in [Adapter -> Queue] /\ BatchInFlight'
              /\ \A b \in Adapter : InFlight(b)' => queue'[b].slots # <<>>
          BY <1>2, <3>6, <4>1, AfterIsTyped DEF Registers
        <4> QED BY <1>2, <3>0, <3>6, <4>1, <4>2 DEF Registers, QueueTypeInv, QueueTypeOK
      <3> QED BY <3>0, <3>1, <3>2, <3>3, <3>4, <3>5, <3>6 DEF QueueStep
    <2> QED BY <1>2, <2>1, <2>2
  <1> QED BY <1>1, <1>2, PTL DEF QueueSpec

-----------------------------------------------------------------------------
(* The calls of an adapter end with those of its batch and of the texts    *)
(* that wait.                                                              *)
EndsWith(calls, batch, texts) ==
    /\ Len(batch) + Len(texts) <= Len(calls)
    /\ \A x \in 1..Len(batch) : batch[x] = calls[Len(calls) - Len(texts) - Len(batch) + x]
    /\ \A x \in 1..Len(texts) : texts[x] = calls[Len(calls) - Len(texts) + x]

OnceEach(calls) == \A i, j \in 1..Len(calls) : calls[i] = calls[j] => i = j

(* Of two calls that were read the later one was read last.                *)
KeepsOrder(calls, read) ==
    \A i, j \in DOMAIN calls :
        (i < j /\ {calls[i], calls[j]} \subseteq ToSet(read)) =>
            \E k \in DOMAIN read :
                read[k] = calls[j] /\ \A l \in k..Len(read) : read[l] # calls[i]

(* A batch and the texts that wait are of calls; no call is in both.       *)
LEMMA EndsAreCalls ==
    ASSUME NEW calls \in Seq(Call), NEW batch \in Seq(Call), NEW texts \in Seq(Call),
           EndsWith(calls, batch, texts)
    PROVE  ToSet(batch) \subseteq ToSet(calls) /\ ToSet(texts) \subseteq ToSet(calls)
  <1>1. ASSUME NEW c \in ToSet(batch)
        PROVE  c \in ToSet(calls)
    <2>1. PICK x \in 1..Len(batch) : batch[x] = c
      BY HoldsAt
    <2>2. Len(calls) - Len(texts) - Len(batch) + x \in 1..Len(calls)
      BY DEF EndsWith
    <2> QED BY <2>1, <2>2, HoldsIndexed DEF EndsWith
  <1>2. ASSUME NEW c \in ToSet(texts)
        PROVE  c \in ToSet(calls)
    <2>1. PICK x \in 1..Len(texts) : texts[x] = c
      BY HoldsAt
    <2>2. Len(calls) - Len(texts) + x \in 1..Len(calls)
      BY DEF EndsWith
    <2> QED BY <2>1, <2>2, HoldsIndexed DEF EndsWith
  <1> QED BY <1>1, <1>2

LEMMA EndsApart ==
    ASSUME NEW calls \in Seq(Call), NEW batch \in Seq(Call), NEW texts \in Seq(Call),
           EndsWith(calls, batch, texts), OnceEach(calls)
    PROVE  ToSet(batch) \cap ToSet(texts) = {}
  <1> SUFFICES ASSUME NEW c \in ToSet(batch), c \in ToSet(texts) PROVE FALSE
    OBVIOUS
  <1>1. PICK x \in 1..Len(batch) : batch[x] = c
    BY HoldsAt
  <1>2. PICK y \in 1..Len(texts) : texts[y] = c
    BY HoldsAt
  <1> DEFINE i == Len(calls) - Len(texts) - Len(batch) + x
             j == Len(calls) - Len(texts) + y
  <1>3. i \in 1..Len(calls) /\ j \in 1..Len(calls) /\ i < j
    BY DEF EndsWith
  <1>4. calls[i] = c /\ calls[j] = c
    BY <1>1, <1>2 DEF EndsWith
  <1> QED BY <1>3, <1>4 DEF OnceEach

(* What becomes of the end when a call is added, the waiting texts are     *)
(* taken, a batch is dropped, and a batch is put back in front.            *)
LEMMA EndsWithCall ==
    ASSUME NEW calls \in Seq(Call), NEW batch \in Seq(Call), NEW texts \in Seq(Call),
           EndsWith(calls, batch, texts), NEW c \in Call
    PROVE  EndsWith(Append(calls, c), batch, Append(texts, c))
  <1> DEFINE more == Append(calls, c)
             last == Append(texts, c)
             n    == Len(calls)
             p    == Len(texts)
             b    == Len(batch)
  <1>1. /\ n \in Nat /\ p \in Nat /\ b \in Nat /\ b + p <= n
        /\ Len(more) = n + 1 /\ Len(last) = p + 1
        /\ \A x \in 1..n : more[x] = calls[x]
        /\ \A x \in 1..p : last[x] = texts[x]
        /\ more[n + 1] = c /\ last[p + 1] = c
    BY DEF EndsWith
  <1>2. /\ \A x \in 1..b : batch[x] = calls[n - p - b + x]
        /\ \A x \in 1..p : texts[x] = calls[n - p + x]
    BY DEF EndsWith
  <1> HIDE DEF more, last, n, p, b
  <1>3. ASSUME NEW x \in 1..b
        PROVE  batch[x] = more[Len(more) - Len(last) - b + x]
    <2>1. n - p - b + x \in 1..n /\ Len(more) - Len(last) - b + x = n - p - b + x
      BY <1>1
    <2> QED BY <1>1, <1>2, <2>1
  <1>4. ASSUME NEW x \in 1..p + 1
        PROVE  last[x] = more[Len(more) - Len(last) + x]
    <2>1. Len(more) - Len(last) + x = n - p + x
      BY <1>1
    <2>2. CASE x = p + 1
      BY <1>1, <2>1, <2>2
    <2>3. CASE x \in 1..p
      <3>1. n - p + x \in 1..n
        BY <1>1, <2>3
      <3> QED BY <1>1, <1>2, <2>1, <2>3, <3>1
    <2> QED BY <1>1, <2>2, <2>3
  <1>5. \A x \in 1..Len(last) : last[x] = more[Len(more) - Len(last) + x]
    BY <1>1, <1>4
  <1>6. b + Len(last) <= Len(more)
    BY <1>1
  <1>7. EndsWith(more, batch, last)
    BY <1>3, <1>5, <1>6 DEF EndsWith, b
  <1> QED BY <1>7 DEF more, last

LEMMA EndsTaken ==
    ASSUME NEW calls \in Seq(Call), NEW texts \in Seq(Call), EndsWith(calls, <<>>, texts)
    PROVE  EndsWith(calls, texts, <<>>)
  BY DEF EndsWith

LEMMA EndsDropped ==
    ASSUME NEW calls \in Seq(Call), NEW batch \in Seq(Call), NEW texts \in Seq(Call),
           EndsWith(calls, batch, texts)
    PROVE  EndsWith(calls, <<>>, texts)
  BY DEF EndsWith

LEMMA EndsRestored ==
    ASSUME NEW calls \in Seq(Call), NEW batch \in Seq(Call), NEW texts \in Seq(Call),
           EndsWith(calls, batch, texts)
    PROVE  EndsWith(calls, <<>>, batch \o texts)
  <1> DEFINE both == batch \o texts
  <1>1. /\ both \in Seq(Call) /\ Len(both) = Len(batch) + Len(texts)
        /\ \A x \in 1..Len(both) : both[x] = IF x <= Len(batch) THEN batch[x]
                                             ELSE texts[x - Len(batch)]
    OBVIOUS
  <1> HIDE DEF both
  <1>2. ASSUME NEW x \in 1..Len(both)
        PROVE  both[x] = calls[Len(calls) - Len(both) + x]
    <2>1. CASE x <= Len(batch)
      <3>1. x \in 1..Len(batch)
        BY <2>1
      <3>2. batch[x] = calls[Len(calls) - Len(texts) - Len(batch) + x]
        BY <3>1 DEF EndsWith
      <3>3. Len(calls) - Len(texts) - Len(batch) + x = Len(calls) - Len(both) + x
        BY <1>1
      <3> QED BY <1>1, <2>1, <3>2, <3>3
    <2>2. CASE x > Len(batch)
      <3>1. x - Len(batch) \in 1..Len(texts)
        BY <1>1, <2>2
      <3>2. texts[x - Len(batch)] = calls[Len(calls) - Len(texts) + (x - Len(batch))]
        BY <3>1 DEF EndsWith
      <3>3. Len(calls) - Len(texts) + (x - Len(batch)) = Len(calls) - Len(both) + x
        BY <1>1
      <3>4. both[x] = texts[x - Len(batch)]
        <4>1. x \in Int /\ Len(batch) \in Nat /\ ~(x <= Len(batch))
          BY <2>2
        <4> QED BY <1>1, <4>1
      <3> QED BY <3>2, <3>3, <3>4
    <2>3. Len(batch) \in Nat /\ x \in Int
      BY <1>1
    <2> QED BY <2>1, <2>2, <2>3
  <1>3. Len(both) <= Len(calls)
    BY <1>1 DEF EndsWith
  <1>4. EndsWith(calls, <<>>, both)
    BY <1>1, <1>2, <1>3 DEF EndsWith
  <1> QED BY <1>4 DEF both

LEMMA OnceEachWithCall ==
    ASSUME NEW calls \in Seq(Call), NEW c \in Call, OnceEach(calls), c \notin ToSet(calls)
    PROVE  OnceEach(Append(calls, c))
  <1>1. \A i \in 1..Len(calls) : calls[i] # c
    BY HoldsIndexed
  <1> QED BY <1>1 DEF OnceEach

LEMMA OrderWithCall ==
    ASSUME NEW calls \in Seq(Call), NEW read \in Seq(Call), NEW c \in Call,
           KeepsOrder(calls, read), c \notin ToSet(read)
    PROVE  KeepsOrder(Append(calls, c), read)
  <1> SUFFICES ASSUME NEW i \in 1..Len(calls) + 1, NEW j \in 1..Len(calls) + 1, i < j,
                      {Append(calls, c)[i], Append(calls, c)[j]} \subseteq ToSet(read)
               PROVE  \E k \in DOMAIN read :
                         /\ read[k] = Append(calls, c)[j]
                         /\ \A l \in k..Len(read) : read[l] # Append(calls, c)[i]
    BY DEF KeepsOrder
  <1>1. j # Len(calls) + 1
    OBVIOUS
  <1>2. i \in 1..Len(calls) /\ j \in 1..Len(calls)
    BY <1>1
  <1>3. Append(calls, c)[i] = calls[i] /\ Append(calls, c)[j] = calls[j]
    BY <1>2
  <1> QED BY <1>2, <1>3 DEF KeepsOrder

(* The batch that is read next keeps the order, if none of the texts that  *)
(* wait behind it has been read: a text of the batch may have been read    *)
(* before, and then its last reading is the one that counts.               *)
LEMMA OrderWithBatch ==
    ASSUME NEW calls \in Seq(Call), NEW read \in Seq(Call), NEW batch \in Seq(Call),
           NEW texts \in Seq(Call), EndsWith(calls, batch, texts), OnceEach(calls),
           ToSet(read) \cap ToSet(texts) = {}, KeepsOrder(calls, read)
    PROVE  KeepsOrder(calls, read \o batch)
  <1> DEFINE now == read \o batch
             R   == Len(read)
             lo  == Len(calls) - Len(texts) - Len(batch)
             hi  == Len(calls) - Len(texts)
  <1>1. /\ now \in Seq(Call) /\ Len(now) = R + Len(batch) /\ R \in Nat /\ Len(batch) \in Nat
        /\ DOMAIN now = 1..Len(now) /\ DOMAIN read = 1..R /\ DOMAIN calls = 1..Len(calls)
        /\ \A x \in 1..R : now[x] = read[x]
        /\ \A x \in 1..Len(batch) : now[R + x] = batch[x]
    OBVIOUS
  <1>2. /\ lo \in Nat /\ hi \in Nat /\ hi = lo + Len(batch) /\ hi <= Len(calls)
        /\ \A x \in 1..Len(batch) : batch[x] = calls[lo + x]
    BY DEF EndsWith
  <1>3. \A j \in hi + 1..Len(calls) : calls[j] \notin ToSet(read)
    <2> SUFFICES ASSUME NEW j \in hi + 1..Len(calls) PROVE calls[j] \in ToSet(texts)
      OBVIOUS
    <2>1. j - hi \in 1..Len(texts) /\ texts[j - hi] = calls[hi + (j - hi)]
      BY <1>2 DEF EndsWith
    <2> QED BY <1>2, <2>1, HoldsIndexed
  <1> HIDE DEF now, R, lo, hi
  <1>4. \A l \in R + 1..Len(now) : \E x \in 1..Len(batch) : l = R + x /\ now[l] = calls[lo + x]
    <2> TAKE l \in R + 1..Len(now)
    <2>1. l - R \in 1..Len(batch) /\ l = R + (l - R)
      BY <1>1
    <2>2. now[R + (l - R)] = batch[l - R] /\ batch[l - R] = calls[lo + (l - R)]
      BY <1>1, <1>2, <2>1
    <2> QED BY <2>1, <2>2
  <1>5. ASSUME NEW c \in ToSet(now)
        PROVE  c \in ToSet(read) \/ \E x \in 1..Len(batch) : c = calls[lo + x]
    <2>1. PICK l \in 1..Len(now) : now[l] = c
      BY <1>1, HoldsAt
    <2>2. CASE l <= R
      BY <1>1, <2>1, <2>2, HoldsIndexed DEF R
    <2>3. CASE l > R
      <3>1. l \in R + 1..Len(now)
        BY <1>1, <2>1, <2>3
      <3> QED BY <1>4, <2>1, <3>1
    <2>4. l \in Int /\ R \in Int
      BY <1>1
    <2> QED BY <2>2, <2>3, <2>4
  <1> SUFFICES ASSUME NEW i \in 1..Len(calls), NEW j \in 1..Len(calls), i < j,
                      calls[i] \in ToSet(now), calls[j] \in ToSet(now)
               PROVE  \E k \in 1..Len(now) :
                         now[k] = calls[j] /\ \A l \in k..Len(now) : now[l] # calls[i]
    <2>1. KeepsOrder(calls, now) => KeepsOrder(calls, read \o batch)
      BY DEF now
    <2>2. KeepsOrder(calls, now)
      <3> SUFFICES ASSUME NEW i \in DOMAIN calls, NEW j \in DOMAIN calls, i < j,
                          {calls[i], calls[j]} \subseteq ToSet(now)
                   PROVE  \E k \in DOMAIN now :
                             now[k] = calls[j] /\ \A l \in k..Len(now) : now[l] # calls[i]
        BY DEF KeepsOrder
      <3>1. i \in 1..Len(calls) /\ j \in 1..Len(calls)
        BY <1>1
      <3>2. calls[i] \in ToSet(now) /\ calls[j] \in ToSet(now)
        OBVIOUS
      <3>3. \E k \in 1..Len(now) :
               now[k] = calls[j] /\ \A l \in k..Len(now) : now[l] # calls[i]
        BY <3>1, <3>2
      <3> QED BY <1>1, <3>3
    <2> QED BY <2>1, <2>2
  <1>6. CASE j > hi
    <2>1. calls[j] \notin ToSet(read)
      BY <1>2, <1>3, <1>6
    <2>2. PICK x \in 1..Len(batch) : calls[j] = calls[lo + x]
      BY <1>5, <2>1
    <2>3. lo + x \in 1..Len(calls) /\ lo + x # j
      BY <1>2, <1>6
    <2> QED BY <2>2, <2>3 DEF OnceEach
  <1>7. CASE lo < j /\ j <= hi
    <2>1. j - lo \in 1..Len(batch) /\ R + (j - lo) \in 1..Len(now) /\ lo + (j - lo) = j
      BY <1>1, <1>2, <1>7
    <2>2. now[R + (j - lo)] = calls[j]
      <3>1. now[R + (j - lo)] = batch[j - lo] /\ batch[j - lo] = calls[lo + (j - lo)]
        BY <1>1, <1>2, <2>1
      <3> QED BY <2>1, <3>1
    <2>3. ASSUME NEW l \in (R + (j - lo))..Len(now)
          PROVE  now[l] # calls[i]
      <3>1. l \in R + 1..Len(now)
        BY <1>1, <1>2, <1>7
      <3>2. PICK x \in 1..Len(batch) : l = R + x /\ now[l] = calls[lo + x]
        BY <1>4, <3>1
      <3>3. lo + x \in 1..Len(calls) /\ lo + x # i
        BY <1>1, <1>2, <1>7, <3>2
      <3> QED BY <3>2, <3>3 DEF OnceEach
    <2> QED BY <2>1, <2>2, <2>3
  <1>8. CASE j <= lo
    <2>1. ASSUME NEW m \in {i, j}, NEW x \in 1..Len(batch)
          PROVE  calls[m] # calls[lo + x]
      <3>1. m \in 1..Len(calls) /\ lo + x \in 1..Len(calls) /\ lo + x # m
        BY <1>2, <1>8
      <3> QED BY <3>1 DEF OnceEach
    <2>2. calls[i] \in ToSet(read) /\ calls[j] \in ToSet(read)
      BY <1>5, <2>1
    <2>3. PICK k \in 1..R : read[k] = calls[j] /\ \A l \in k..R : read[l] # calls[i]
      <3>1. i \in DOMAIN calls /\ j \in DOMAIN calls /\ {calls[i], calls[j]} \subseteq ToSet(read)
        BY <1>1, <2>2
      <3>2. PICK k \in DOMAIN read :
               read[k] = calls[j] /\ \A l \in k..Len(read) : read[l] # calls[i]
        BY <3>1 DEF KeepsOrder
      <3> QED BY <1>1, <3>2 DEF R
    <2>4. k \in 1..Len(now) /\ now[k] = calls[j]
      BY <1>1, <2>3
    <2>5. ASSUME NEW l \in k..Len(now)
          PROVE  now[l] # calls[i]
      <3>1. CASE l <= R
        BY <1>1, <2>3, <3>1
      <3>2. CASE l > R
        <4>1. l \in R + 1..Len(now)
          BY <1>1, <3>2
        <4> QED BY <1>4, <2>1, <4>1
      <3> QED BY <1>1, <3>1, <3>2
    <2> QED BY <2>4, <2>5
  <1> QED BY <1>2, <1>6, <1>7, <1>8

-----------------------------------------------------------------------------
(* One adapter: its calls end with those of its batch and its pending      *)
(* texts; whatever else it was called with has been read or is missed.  A  *)
(* slot in flight belongs to no pending text, and none of those was read.  *)
Sound(q, calls, read, lost, told) ==
    /\ ToSet(q.slots) \subseteq ToSet(calls)
    /\ ToSet(read) \subseteq ToSet(calls)
    /\ EndsWith(calls, q.turn.batch, q.pending)
    /\ OnceEach(calls)
    /\ KeepsOrder(calls, read)
    /\ ToSet(calls) \subseteq ToSet(q.pending) \cup ToSet(q.turn.batch) \cup ToSet(read) \cup lost
    /\ q.turn.up => ToSet(q.turn.batch) \subseteq ToSet(read)
    /\ q.turn.batch # <<>> => /\ Head(q.slots) \notin ToSet(q.pending)
                              /\ ToSet(read) \cap ToSet(q.pending) = {}
    /\ \A d \in ToSet(q.pending) \cup ToSet(q.turn.batch) : told[d] \in {"waiting", "thrown"}
    /\ \A d \in ToSet(calls) : told[d] # "none"

(* A new adapter, and one that a step leaves as it was.                    *)
LEMMA SoundAtFirst ==
    ASSUME NEW q \in Queue, NEW lost, NEW told,
           q.pending = <<>>, q.slots = <<>>, q.turn.batch = <<>>, q.turn.up = FALSE
    PROVE  Sound(q, <<>>, <<>>, lost, told)
  <1>1. ToSet(<<>>) = {}
    BY HoldsNothing
  <1>2. EndsWith(<<>>, <<>>, <<>>) /\ OnceEach(<<>>) /\ KeepsOrder(<<>>, <<>>)
    BY DEF EndsWith, OnceEach, KeepsOrder
  <1> QED BY <1>1, <1>2 DEF Sound

LEMMA SoundAsBefore ==
    ASSUME NEW q \in Queue, NEW r \in Queue, NEW calls \in Seq(Call), NEW read \in Seq(Call),
           NEW lost, NEW more, NEW told, NEW new,
           Sound(q, calls, read, lost, told),
           r.pending = q.pending, r.slots = q.slots, r.turn.batch = q.turn.batch,
           r.turn.up = q.turn.up, lost \subseteq more,
           \A d \in ToSet(calls) : new[d] = told[d]
    PROVE  Sound(r, calls, read, more, new)
  <1>1. ToSet(q.turn.batch) \subseteq ToSet(calls) /\ ToSet(q.pending) \subseteq ToSet(calls)
    BY QueueFields, EndsAreCalls DEF Sound
  <1> QED BY <1>1, Zenon DEF Sound

(* The kinds of steps, one adapter at a time: a call of its sendTurn.      *)
LEMMA SoundWithCall ==
    ASSUME NEW q \in Queue, NEW r \in Queue, NEW calls \in Seq(Call), NEW read \in Seq(Call),
           NEW lost, NEW told \in [Call -> Outcome], NEW new, NEW c \in Call,
           Sound(q, calls, read, lost, told), told[c] = "none",
           q.turn.batch # <<>> => q.slots # <<>>,
           r.pending = Append(q.pending, c), r.slots = Append(q.slots, c),
           r.turn.batch = q.turn.batch, r.turn.up = q.turn.up,
           new = [told EXCEPT ![c] = "waiting"]
    PROVE  Sound(r, Append(calls, c), read, lost, new)
  <1>1. /\ q.pending \in Seq(Call) /\ q.slots \in Seq(Call) /\ q.turn.batch \in Seq(Call)
    BY QueueFields
  <1>2. c \notin ToSet(calls)
    BY DEF Sound
  <1>3. /\ ToSet(r.pending) = ToSet(q.pending) \cup {c}
        /\ ToSet(r.slots) = ToSet(q.slots) \cup {c}
        /\ ToSet(Append(calls, c)) = ToSet(calls) \cup {c}
    BY <1>1, HoldsAppended
  <1>4. EndsWith(Append(calls, c), r.turn.batch, r.pending)
    BY <1>1, EndsWithCall DEF Sound
  <1>5. OnceEach(Append(calls, c))
    BY <1>2, OnceEachWithCall DEF Sound
  <1>6. KeepsOrder(Append(calls, c), read)
    BY <1>2, OrderWithCall DEF Sound
  <1>7. ToSet(q.turn.batch) \subseteq ToSet(calls) /\ ToSet(q.pending) \subseteq ToSet(calls)
        /\ ToSet(calls) \subseteq Call
    BY <1>1, EndsAreCalls, HoldsElements DEF Sound
  <1>8. new[c] = "waiting" /\ \A d \in ToSet(calls) : new[d] = told[d]
    BY <1>2, <1>7
  <1>9. ASSUME q.turn.batch # <<>>
        PROVE  /\ Head(r.slots) \notin ToSet(r.pending)
               /\ ToSet(read) \cap ToSet(r.pending) = {}
    <2>1. Head(r.slots) = Head(q.slots) /\ Head(q.slots) \in ToSet(q.slots)
      BY <1>1, <1>9, HoldsHeadAndTail
    <2> QED BY <1>2, <1>3, <1>9, <2>1 DEF Sound
  <1>10. \A d \in ToSet(r.pending) \cup ToSet(r.turn.batch) : new[d] \in {"waiting", "thrown"}
    BY <1>3, <1>7, <1>8 DEF Sound
  <1>11. \A d \in ToSet(Append(calls, c)) : new[d] # "none"
    BY <1>3, <1>8 DEF Sound
  <1>12. /\ ToSet(r.slots) \subseteq ToSet(Append(calls, c))
         /\ ToSet(read) \subseteq ToSet(Append(calls, c))
         /\ ToSet(Append(calls, c)) \subseteq ToSet(r.pending) \cup ToSet(r.turn.batch)
                                                \cup ToSet(read) \cup lost
         /\ r.turn.up => ToSet(r.turn.batch) \subseteq ToSet(read)
    BY <1>3 DEF Sound
  <1> QED BY <1>4, <1>5, <1>6, <1>9, <1>10, <1>11, <1>12 DEF Sound

(* The end of a slot tells its call.                                       *)
LEMMA SlotTold ==
    ASSUME NEW q \in Queue, NEW calls \in Seq(Call), NEW read \in Seq(Call), NEW lost,
           NEW told \in [Call -> Outcome], NEW result,
           Sound(q, calls, read, lost, told), q.slots # <<>>
    PROVE  LET new == [told EXCEPT ![Head(q.slots)] = result]
           IN /\ Head(q.slots) \in ToSet(calls) /\ Head(q.slots) \in Call
              /\ new[Head(q.slots)] = result
              /\ \A d \in Call : d # Head(q.slots) => new[d] = told[d]
  BY QueueFields, HoldsHeadAndTail DEF Sound

(* A slot ends with its batch read, missed, or empty.                      *)
LEMMA SoundSettled ==
    ASSUME NEW q \in Queue, NEW r \in Queue, NEW calls \in Seq(Call), NEW read \in Seq(Call),
           NEW lost, NEW more, NEW told \in [Call -> Outcome], NEW new,
           Sound(q, calls, read, lost, told), q.slots # <<>>, lost \subseteq more,
           \/ q.turn.up
           \/ q.turn.batch = <<>>
           \/ ToSet(q.turn.batch) \subseteq more,
           q.turn.batch = <<>> => q.pending = <<>>,
           r.pending = q.pending, r.slots = Tail(q.slots), r.turn.batch = <<>>,
           r.turn.up = FALSE, new[Head(q.slots)] # "none",
           \A d \in Call : d # Head(q.slots) => new[d] = told[d]
    PROVE  Sound(r, calls, read, more, new)
  <1>1. /\ q.pending \in Seq(Call) /\ q.slots \in Seq(Call) /\ q.turn.batch \in Seq(Call)
    BY QueueFields
  <1>2. Head(q.slots) \in ToSet(calls)
    BY SlotTold
  <1>3. EndsWith(calls, r.turn.batch, r.pending)
    BY <1>1, EndsDropped DEF Sound
  <1>4. ToSet(q.pending) \subseteq ToSet(calls) /\ ToSet(calls) \subseteq Call
    BY <1>1, EndsAreCalls, HoldsElements DEF Sound
  <1>5. ToSet(r.slots) \subseteq ToSet(calls)
    BY <1>1, HoldsHeadAndTail DEF Sound
  <1>6. ToSet(<<>>) = {}
    BY HoldsNothing
  <1>7. Head(q.slots) \notin ToSet(q.pending)
    BY <1>6 DEF Sound
  <1>8. \A d \in ToSet(r.pending) \cup ToSet(r.turn.batch) : new[d] \in {"waiting", "thrown"}
    BY <1>2, <1>4, <1>6, <1>7 DEF Sound
  <1>9. \A d \in ToSet(calls) : new[d] # "none"
    BY <1>2, <1>4 DEF Sound
  <1>10. ToSet(calls) \subseteq ToSet(r.pending) \cup ToSet(r.turn.batch) \cup ToSet(read) \cup more
    BY <1>6 DEF Sound
  <1> QED BY <1>3, <1>5, <1>8, <1>9, <1>10 DEF Sound

(* A slot ends with its batch put back.                                    *)
LEMMA SoundRestored ==
    ASSUME NEW q \in Queue, NEW r \in Queue, NEW calls \in Seq(Call), NEW read \in Seq(Call),
           NEW lost, NEW told \in [Call -> Outcome], NEW new,
           Sound(q, calls, read, lost, told), q.slots # <<>>,
           r.pending = q.turn.batch \o q.pending, r.slots = Tail(q.slots), r.turn.batch = <<>>,
           r.turn.up = FALSE, new = [told EXCEPT ![Head(q.slots)] = "thrown"]
    PROVE  Sound(r, calls, read, lost, new)
  <1>1. /\ q.pending \in Seq(Call) /\ q.slots \in Seq(Call) /\ q.turn.batch \in Seq(Call)
    BY QueueFields
  <1>2. /\ Head(q.slots) \in ToSet(calls) /\ new[Head(q.slots)] = "thrown"
        /\ \A d \in Call : d # Head(q.slots) => new[d] = told[d]
    BY SlotTold
  <1>3. EndsWith(calls, r.turn.batch, r.pending)
    BY <1>1, EndsRestored DEF Sound
  <1>4. /\ ToSet(q.pending) \subseteq ToSet(calls) /\ ToSet(q.turn.batch) \subseteq ToSet(calls)
        /\ ToSet(calls) \subseteq Call
    BY <1>1, EndsAreCalls, HoldsElements DEF Sound
  <1>5. ToSet(r.slots) \subseteq ToSet(calls)
    BY <1>1, HoldsHeadAndTail DEF Sound
  <1>6. ToSet(<<>>) = {} /\ ToSet(r.pending) = ToSet(q.turn.batch) \cup ToSet(q.pending)
    BY <1>1, HoldsNothing, HoldsBoth
  <1>7. \A d \in ToSet(r.pending) \cup ToSet(r.turn.batch) : new[d] \in {"waiting", "thrown"}
    BY <1>2, <1>4, <1>6 DEF Sound
  <1>8. \A d \in ToSet(calls) : new[d] # "none"
    BY <1>2, <1>4 DEF Sound
  <1>9. ToSet(calls) \subseteq ToSet(r.pending) \cup ToSet(r.turn.batch) \cup ToSet(read) \cup lost
    BY <1>6 DEF Sound
  <1> QED BY <1>3, <1>5, <1>7, <1>8, <1>9 DEF Sound

(* What the process of an attempt has read, should it come up.             *)
ReadIf(ok, read, batch) == IF ok THEN read \o batch ELSE read

(* A turn takes all that waits.                                            *)
LEMMA SoundStarted ==
    ASSUME NEW q \in Queue, NEW r \in Queue, NEW calls \in Seq(Call), NEW read \in Seq(Call),
           NEW lost, NEW told, NEW ok \in BOOLEAN,
           Sound(q, calls, read, lost, told), q.turn.batch = <<>>,
           r.pending = <<>>, r.slots = q.slots, r.turn.batch = q.pending, r.turn.up = ok
    PROVE  Sound(r, calls, ReadIf(ok, read, q.pending), lost, told)
  <1> DEFINE now == ReadIf(ok, read, q.pending)
  <1>1. q.pending \in Seq(Call) /\ q.turn.batch \in Seq(Call) /\ ToSet(<<>>) = {}
    BY QueueFields, HoldsNothing
  <1>2. EndsWith(calls, q.pending, <<>>)
    BY <1>1, EndsTaken DEF Sound
  <1>3. ToSet(q.pending) \subseteq ToSet(calls)
    BY <1>1, EndsAreCalls DEF Sound
  <1>4. /\ now \in Seq(Call)
        /\ ToSet(read) \subseteq ToSet(now)
        /\ ToSet(now) \subseteq ToSet(read) \cup ToSet(q.pending)
        /\ ok => ToSet(q.pending) \subseteq ToSet(now)
    BY <1>1, HoldsBoth DEF ReadIf
  <1>5. KeepsOrder(calls, now)
    <2>1. <<>> \in Seq(Call)
      OBVIOUS
    <2>2. KeepsOrder(calls, read \o q.pending)
      BY <1>1, <1>2, <2>1, OrderWithBatch DEF Sound
    <2> QED BY <2>2 DEF Sound, ReadIf
  <1> HIDE DEF now
  <1>6. Sound(r, calls, now, lost, told)
    BY <1>1, <1>2, <1>3, <1>4, <1>5 DEF Sound
  <1> QED BY <1>6 DEF now

(* The batch is tried again: what was read of it is read twice.            *)
LEMMA SoundRetried ==
    ASSUME NEW q \in Queue, NEW r \in Queue, NEW calls \in Seq(Call), NEW read \in Seq(Call),
           NEW lost, NEW told, NEW ok \in BOOLEAN,
           Sound(q, calls, read, lost, told), q.turn.batch # <<>>,
           r.pending = q.pending, r.slots = q.slots, r.turn.batch = q.turn.batch, r.turn.up = ok
    PROVE  Sound(r, calls, ReadIf(ok, read, q.turn.batch), lost, told)
  <1> DEFINE now == ReadIf(ok, read, q.turn.batch)
  <1>1. q.pending \in Seq(Call) /\ q.turn.batch \in Seq(Call)
    BY QueueFields
  <1>2. EndsWith(calls, q.turn.batch, q.pending)
    BY DEF Sound
  <1>3. ToSet(q.turn.batch) \subseteq ToSet(calls) /\ ToSet(q.turn.batch) \cap ToSet(q.pending) = {}
    BY <1>1, <1>2, EndsAreCalls, EndsApart DEF Sound
  <1>4. /\ now \in Seq(Call)
        /\ ToSet(read) \subseteq ToSet(now)
        /\ ToSet(now) \subseteq ToSet(read) \cup ToSet(q.turn.batch)
        /\ ok => ToSet(q.turn.batch) \subseteq ToSet(now)
    BY <1>1, HoldsBoth DEF ReadIf
  <1>5. KeepsOrder(calls, now)
    <2>1. KeepsOrder(calls, read \o q.turn.batch)
      BY <1>1, <1>2, OrderWithBatch DEF Sound
    <2> QED BY <2>1 DEF Sound, ReadIf
  <1> HIDE DEF now
  <1>6. Sound(r, calls, now, lost, told)
    BY <1>1, <1>2, <1>3, <1>4, <1>5 DEF Sound
  <1> QED BY <1>6 DEF now
-----------------------------------------------------------------------------
AdapterInv(a) ==
    /\ Sound(queue[a], called[a], log[a], missed, outcome)
    /\ a > launches => called[a] = <<>>

(* No text is called twice.                                                *)
CallsApart == \A a, b \in Adapter : a # b => ToSet(called[a]) \cap ToSet(called[b]) = {}

IsCarried(d) == d \in missed \/ \E a \in Adapter : d \in ToSet(log[a])

ToldIsCarried == \A d \in Call : Told(d) => IsCarried(d)

QueueInv ==
    /\ QueueTypeInv
    /\ \A a \in Adapter : AdapterInv(a)
    /\ CallsApart
    /\ ToldIsCarried

(* An adapter that a step leaves alone.                                    *)
LEMMA OtherAdapter ==
    ASSUME QueueInv, QueueTypeInv', NEW b \in Adapter,
           queue'[b] = queue[b], called'[b] = called[b], log'[b] = log[b],
           missed \subseteq missed', launches' >= launches,
           \A d \in ToSet(called[b]) : outcome'[d] = outcome[d]
    PROVE  AdapterInv(b)'
  <1>1. /\ queue[b] \in Queue /\ called[b] \in Seq(Call) /\ log[b] \in Seq(Call)
        /\ launches \in Nat /\ launches' \in Nat /\ b \in Nat
    BY QueueAssumption DEF QueueInv, QueueTypeInv, QueueTypeOK, Adapter
  <1>2. Sound(queue[b], called[b], log[b], missed, outcome)
    BY DEF QueueInv, AdapterInv
  <1>3. Sound(queue[b], called[b], log[b], missed', outcome')
    BY <1>1, <1>2, SoundAsBefore
  <1>4. b > launches' => called'[b] = <<>>
    BY <1>1 DEF QueueInv, AdapterInv
  <1> QED BY <1>3, <1>4 DEF AdapterInv

LEMMA SendsKeeps ==
    ASSUME QueueInv, QueueTypeInv', NEW c \in Call, Sends(c)
    PROVE  QueueInv'
  <1>a. PICK a \in Adapter : a = launches
    BY DEF QueueInv, QueueTypeInv, QueueTypeOK
  <1>0. /\ queue[a] \in Queue /\ queue'[a] \in Queue
        /\ called \in [Adapter -> Seq(Call)] /\ log \in [Adapter -> Seq(Call)]
        /\ outcome \in [Call -> Outcome] /\ launches \in Nat
        /\ \A b \in Adapter : b \in Nat
    BY <1>a, QueueAssumption DEF QueueInv, QueueTypeInv, QueueTypeOK, Adapter, Sends, After
  <1>1. /\ outcome[c] = "none" /\ outcome' = [outcome EXCEPT ![c] = "waiting"]
        /\ launches' = a /\ log' = log /\ missed' = missed
        /\ called' = [called EXCEPT ![a] = Append(called[a], c)]
    BY <1>a DEF Sends
  <1>2. \A b \in Adapter : Sound(queue[b], called[b], log[b], missed, outcome)
    BY DEF QueueInv, AdapterInv
  <1>3. \A b \in Adapter : c \notin ToSet(called[b])
    BY <1>1, <1>2 DEF Sound
  <1>4. \A b \in Adapter : b # a => queue'[b] = queue[b]
    BY <1>a DEF Sends, After
  <1>5. called'[a] = Append(called[a], c) /\ ToSet(called'[a]) = ToSet(called[a]) \cup {c}
    BY <1>0, <1>1, HoldsAppended
  <1>6. AdapterInv(a)'
    <2>1. queue[a].turn.batch # <<>> => queue[a].slots # <<>>
      BY <1>0, InFlightOrNot DEF QueueInv
    <2>2. /\ queue'[a].pending = Append(queue[a].pending, c)
          /\ queue'[a].slots = Append(queue[a].slots, c)
          /\ queue'[a].turn.batch = queue[a].turn.batch /\ queue'[a].turn.up = queue[a].turn.up
      BY <1>a DEF Sends, After
    <2>3. Sound(queue'[a], Append(called[a], c), log[a], missed, outcome')
      BY <1>0, <1>1, <1>2, <2>1, <2>2, SoundWithCall
    <2> QED BY <1>0, <1>1, <1>5, <2>3 DEF AdapterInv
  <1>7. ASSUME NEW b \in Adapter, b # a
        PROVE  AdapterInv(b)'
    <2>1. called'[b] = called[b] /\ ToSet(called[b]) \subseteq Call
      BY <1>0, <1>1, <1>7, HoldsElements
    <2>2. \A d \in ToSet(called[b]) : outcome'[d] = outcome[d]
      BY <1>0, <1>1, <1>3, <2>1
    <2>3. launches' >= launches /\ missed \subseteq missed'
      BY <1>0, <1>1, <1>a
    <2> QED BY <1>1, <1>4, <1>7, <2>1, <2>2, <2>3, OtherAdapter
  <1>8. CallsApart'
    <2>1. \A b \in Adapter : b # a => called'[b] = called[b]
      BY <1>0, <1>1
    <2> SUFFICES ASSUME NEW b \in Adapter, NEW d \in Adapter, b # d
                 PROVE  ToSet(called'[b]) \cap ToSet(called'[d]) = {}
      BY DEF CallsApart
    <2>2. ToSet(called[b]) \cap ToSet(called[d]) = {}
      BY DEF CallsApart, QueueInv
    <2> QED BY <1>3, <1>5, <2>1, <2>2
  <1>9. ToldIsCarried'
    <2>1. \A d \in Call : Told(d)' => Told(d)
      BY <1>0, <1>1 DEF Told
    <2> QED BY <1>1, <2>1 DEF ToldIsCarried, IsCarried, QueueInv
  <1> QED BY <1>6, <1>7, <1>8, <1>9 DEF QueueInv

(* The end of a slot touches one adapter and one outcome.                  *)
LEMMA SlotEndsKeeps ==
    ASSUME QueueInv, QueueTypeInv', NEW a \in Adapter, NEW texts, NEW result,
           SlotEnds(a, texts, result), missed \subseteq missed',
           Sound(queue'[a], called[a], log[a], missed', outcome'),
           result \in {"accepted", "coalesced"} =>
               Head(queue[a].slots) \in missed' \cup ToSet(log[a])
    PROVE  QueueInv'
  <1>0. /\ queue[a] \in Queue /\ called \in [Adapter -> Seq(Call)]
        /\ log \in [Adapter -> Seq(Call)] /\ outcome \in [Call -> Outcome] /\ launches \in Nat
    <2>1. QueueTypeOK
      BY DEF QueueInv, QueueTypeInv
    <2>2. Adapter \subseteq Nat
      BY DEF Adapter
    <2> QED BY <2>1, <2>2 DEF QueueTypeOK
  <1>c. PICK c \in Call : c = Head(queue[a].slots)
    BY <1>0, QueueFields, HoldsHeadAndTail DEF SlotEnds
  <1>1. /\ outcome' = [outcome EXCEPT ![c] = result]
        /\ launches' = launches /\ log' = log /\ called' = called /\ queue[a].slots # <<>>
        /\ \A b \in Adapter : b # a => queue'[b] = queue[b]
    BY <1>c DEF SlotEnds, After
  <1>2. Sound(queue[a], called[a], log[a], missed, outcome)
    BY DEF QueueInv, AdapterInv
  <1>3. /\ c \in ToSet(called[a]) /\ c \in Call /\ outcome'[c] = result
        /\ \A d \in Call : d # c => outcome'[d] = outcome[d]
    BY <1>0, <1>1, <1>2, <1>c, SlotTold
  <1>4. AdapterInv(a)'
    BY <1>1 DEF AdapterInv, QueueInv
  <1>5. ASSUME NEW b \in Adapter, b # a
        PROVE  AdapterInv(b)'
    <2>1. c \notin ToSet(called[b]) /\ ToSet(called[b]) \subseteq Call
      BY <1>0, <1>3, <1>5, HoldsElements DEF QueueInv, CallsApart
    <2>2. \A d \in ToSet(called[b]) : outcome'[d] = outcome[d]
      BY <1>3, <2>1
    <2>3. launches' >= launches
      BY <1>0, <1>1
    <2> QED BY <1>1, <1>5, <2>2, <2>3, OtherAdapter
  <1>6. CallsApart'
    BY <1>1 DEF CallsApart, QueueInv
  <1>7. ToldIsCarried'
    <2>1. \A d \in Call : d # c /\ Told(d)' => Told(d)
      BY <1>3 DEF Told
    <2>2. \A d \in Call : IsCarried(d) => IsCarried(d)'
      BY <1>1 DEF IsCarried
    <2>3. Told(c)' => IsCarried(c)'
      BY <1>1, <1>3, <1>c DEF Told, IsCarried
    <2> QED BY <2>1, <2>2, <2>3 DEF ToldIsCarried, QueueInv
  <1> QED BY <1>4, <1>5, <1>6, <1>7 DEF QueueInv

LEMMA SettlesKeeps ==
    ASSUME QueueInv, QueueTypeInv', NEW a \in Adapter, Settles(a)
    PROVE  QueueInv'
  <1> DEFINE q == queue[a]
  <1>0. /\ q \in Queue /\ queue'[a] \in Queue /\ called[a] \in Seq(Call)
        /\ log[a] \in Seq(Call) /\ outcome \in [Call -> Outcome]
    BY DEF QueueInv, QueueTypeInv, QueueTypeOK
  <1>1. PICK result \in {"accepted", "coalesced", "turn_failed"} : SlotEnds(a, q.pending, result)
    BY DEF Settles
  <1>2. /\ q.slots # <<>> /\ outcome' = [outcome EXCEPT ![Head(q.slots)] = result]
        /\ queue'[a].pending = q.pending /\ queue'[a].slots = Tail(q.slots)
        /\ queue'[a].turn.batch = <<>> /\ queue'[a].turn.up = FALSE
    BY <1>1 DEF SlotEnds, After
  <1>3. /\ missed \subseteq missed'
        /\ q.turn.up \/ q.turn.batch = <<>> \/ ToSet(q.turn.batch) \subseteq missed'
        /\ q.turn.batch = <<>> => q.pending = <<>>
    BY InFlightOrNot DEF Settles, QueueInv
  <1>4. Sound(q, called[a], log[a], missed, outcome)
    BY DEF QueueInv, AdapterInv
  <1>5. Sound(queue'[a], called[a], log[a], missed', outcome')
    <2>1. /\ outcome'[Head(q.slots)] # "none"
          /\ \A d \in Call : d # Head(q.slots) => outcome'[d] = outcome[d]
      BY <1>0, <1>2, <1>4, SlotTold
    <2> QED BY <1>0, <1>2, <1>3, <1>4, <2>1, SoundSettled
  <1>6. Head(q.slots) \in missed' \cup ToSet(log[a])
    <2>1. Head(q.slots) \in ToSet(called[a])
      BY <1>0, <1>2, <1>4, SlotTold
    <2>2. ToSet(<<>>) = {}
      BY HoldsNothing
    <2> QED BY <1>3, <1>4, <2>1, <2>2 DEF Sound
  <1> QED BY <1>1, <1>3, <1>5, <1>6, SlotEndsKeeps

LEMMA RestoresKeeps ==
    ASSUME QueueInv, QueueTypeInv', NEW a \in Adapter, Restores(a)
    PROVE  QueueInv'
  <1> DEFINE q == queue[a]
  <1>0. /\ q \in Queue /\ queue'[a] \in Queue /\ called[a] \in Seq(Call)
        /\ log[a] \in Seq(Call) /\ outcome \in [Call -> Outcome]
    BY DEF QueueInv, QueueTypeInv, QueueTypeOK
  <1>1. SlotEnds(a, q.turn.batch \o q.pending, "thrown") /\ missed' = missed
    BY DEF Restores
  <1>2. /\ q.slots # <<>> /\ outcome' = [outcome EXCEPT ![Head(q.slots)] = "thrown"]
        /\ queue'[a].pending = q.turn.batch \o q.pending /\ queue'[a].slots = Tail(q.slots)
        /\ queue'[a].turn.batch = <<>> /\ queue'[a].turn.up = FALSE
    BY <1>1 DEF SlotEnds, After
  <1>3. Sound(q, called[a], log[a], missed, outcome)
    BY DEF QueueInv, AdapterInv
  <1>4. Sound(queue'[a], called[a], log[a], missed, outcome')
    BY <1>0, <1>2, <1>3, SoundRestored
  <1> QED BY <1>1, <1>4, SlotEndsKeeps

(* Starts and retries.                                                     *)
LEMMA TriesKeeps ==
    ASSUME QueueInv, QueueTypeInv', NEW a \in Adapter, Starts(a) \/ Retries(a)
    PROVE  QueueInv'
  <1> DEFINE q == queue[a]
  <1>0. /\ q \in Queue /\ queue'[a] \in Queue /\ called \in [Adapter -> Seq(Call)]
        /\ log \in [Adapter -> Seq(Call)] /\ launches \in Nat
        /\ called[a] \in Seq(Call) /\ log[a] \in Seq(Call)
        /\ q.pending \in Seq(Call) /\ q.turn.batch \in Seq(Call)
    BY QueueFields, QueueAssumption DEF QueueInv, QueueTypeInv, QueueTypeOK, Adapter
  <1>1. Sound(q, called[a], log[a], missed, outcome)
    BY DEF QueueInv, AdapterInv
  <1>2. PICK batch \in Seq(Call), ok \in BOOLEAN :
           /\ log' = [log EXCEPT ![a] = ReadIf(ok, log[a], batch)]
           /\ Sound(queue'[a], called[a], ReadIf(ok, log[a], batch), missed, outcome)
    <2>1. CASE Starts(a)
      <3>1. q.turn.batch = <<>>
        BY <2>1 DEF Starts
      <3>2. PICK ok \in BOOLEAN :
               /\ After(a, <<>>, q.slots, q.pending, ok)
               /\ log' = IF ok THEN [log EXCEPT ![a] = @ \o q.pending] ELSE log
        BY <2>1 DEF Starts, Tries
      <3>3. Sound(queue'[a], called[a], ReadIf(ok, log[a], q.pending), missed, outcome)
        BY <1>0, <1>1, <3>1, <3>2, SoundStarted DEF After
      <3>4. log' = [log EXCEPT ![a] = ReadIf(ok, log[a], q.pending)]
        BY <1>0, <3>2 DEF ReadIf
      <3> QED BY <1>0, <3>3, <3>4
    <2>2. CASE Retries(a)
      <3>1. PICK ok \in BOOLEAN :
               /\ After(a, q.pending, q.slots, q.turn.batch, ok)
               /\ log' = IF ok THEN [log EXCEPT ![a] = @ \o q.turn.batch] ELSE log
        BY <2>2 DEF Retries, Tries
      <3>2. q.turn.batch # <<>>
        BY <2>2 DEF Retries, Tries
      <3>3. Sound(queue'[a], called[a], ReadIf(ok, log[a], q.turn.batch), missed, outcome)
        BY <1>0, <1>1, <3>1, <3>2, SoundRetried DEF After
      <3>4. log' = [log EXCEPT ![a] = ReadIf(ok, log[a], q.turn.batch)]
        BY <1>0, <3>1 DEF ReadIf
      <3> QED BY <1>0, <3>3, <3>4
    <2> QED BY <2>1, <2>2
  <1>3. /\ launches' = launches /\ outcome' = outcome /\ called' = called /\ missed' = missed
        /\ \A b \in Adapter : b # a => queue'[b] = queue[b]
    BY DEF Starts, Retries, Tries, After
  <1>4. ToSet(log[a]) \subseteq ToSet(log'[a])
    BY <1>0, <1>2, HoldsBoth DEF ReadIf
  <1>5. AdapterInv(a)'
    BY <1>0, <1>2, <1>3 DEF AdapterInv, QueueInv
  <1>6. ASSUME NEW b \in Adapter, b # a
        PROVE  AdapterInv(b)'
    <2>1. launches' >= launches /\ log'[b] = log[b]
      BY <1>0, <1>2, <1>3, <1>6
    <2> QED BY <1>3, <1>6, <2>1, OtherAdapter
  <1>7. ToldIsCarried'
    <2>1. \A b \in Adapter : ToSet(log[b]) \subseteq ToSet(log'[b])
      BY <1>0, <1>2, <1>4
    <2> QED BY <1>3, <2>1 DEF ToldIsCarried, IsCarried, Told, QueueInv
  <1> QED BY <1>3, <1>5, <1>6, <1>7 DEF QueueInv, CallsApart

LEMMA QuietKeeps ==
    ASSUME QueueInv, QueueTypeInv', NEW a \in Adapter, Quiet(a)
    PROVE  QueueInv'
  <1>0. /\ queue[a] \in Queue /\ queue'[a] \in Queue /\ called[a] \in Seq(Call)
        /\ log[a] \in Seq(Call) /\ launches \in Nat
    BY QueueAssumption DEF QueueInv, QueueTypeInv, QueueTypeOK, Adapter
  <1>1. /\ UNCHANGED <<launches, outcome, called, log, missed>>
        /\ \A b \in Adapter : b # a => queue'[b] = queue[b]
    BY DEF Quiet, After
  <1>2. Sound(queue[a], called[a], log[a], missed, outcome)
    BY DEF QueueInv, AdapterInv
  <1>3. Sound(queue'[a], called[a], log[a], missed, outcome)
    BY <1>0, <1>2, SoundAsBefore DEF Quiet, After
  <1>4. AdapterInv(a)'
    BY <1>1, <1>3 DEF AdapterInv, QueueInv
  <1>5. ASSUME NEW b \in Adapter, b # a
        PROVE  AdapterInv(b)'
    <2>1. launches' >= launches
      BY <1>0, <1>1
    <2> QED BY <1>1, <1>5, <2>1, OtherAdapter
  <1> QED BY <1>1, <1>4, <1>5 DEF QueueInv, CallsApart, ToldIsCarried, IsCarried, Told

LEMMA RegistersKeeps ==
    ASSUME QueueInv, QueueTypeInv', Registers
    PROVE  QueueInv'
  <1>n. PICK n \in Adapter : n = launches + 1
    BY DEF QueueInv, QueueTypeInv, QueueTypeOK, Adapter, Registers
  <1>0. /\ launches \in Nat /\ n = launches + 1 /\ queue'[n] \in Queue
        /\ called[n] \in Seq(Call) /\ log[n] \in Seq(Call)
    BY <1>n, QueueAssumption DEF QueueInv, QueueTypeInv, QueueTypeOK, Adapter, Registers
  <1>1. /\ UNCHANGED <<outcome, called, log, missed>> /\ launches' = n
        /\ \A b \in Adapter : b # n => queue'[b] = queue[b]
    BY <1>n DEF Registers, After
  <1>2. called[n] = <<>> /\ ToSet(log[n]) \subseteq ToSet(called[n])
    BY <1>0 DEF QueueInv, AdapterInv, Sound
  <1>3. log[n] = <<>>
    BY <1>0, <1>2, HoldsNothing, HoldsHeadAndTail
  <1>4. Sound(queue'[n], <<>>, <<>>, missed, outcome)
    BY <1>0, SoundAtFirst DEF Registers, After
  <1>5. AdapterInv(n)'
    BY <1>0, <1>1, <1>2, <1>3, <1>4 DEF AdapterInv
  <1>6. ASSUME NEW b \in Adapter, b # n
        PROVE  AdapterInv(b)'
    <2>1. launches' >= launches
      BY <1>0, <1>1
    <2> QED BY <1>1, <1>6, <2>1, OtherAdapter
  <1> QED BY <1>1, <1>5, <1>6 DEF QueueInv, CallsApart, ToldIsCarried, IsCarried, Told

(* The invariant of the queue.                                             *)
LEMMA QueueInvariant == QueueSpec => []QueueInv
  <1>1. QueueInit /\ QueueTypeInv => QueueInv
    <2> SUFFICES ASSUME QueueInit, QueueTypeInv PROVE QueueInv
      OBVIOUS
    <2>1. \A a \in Adapter : called[a] = <<>> /\ log[a] = <<>>
      BY DEF QueueInit
    <2>2. ASSUME NEW a \in Adapter
          PROVE  AdapterInv(a)
      <3>1. queue[a] \in Queue
        BY DEF QueueTypeInv, QueueTypeOK
      <3>2. PICK cli \in Cli : queue[a] = NewQueue(cli)
        BY DEF QueueInit
      <3>3. /\ queue[a].pending = <<>> /\ queue[a].slots = <<>>
            /\ queue[a].turn.batch = <<>> /\ queue[a].turn.up = FALSE
        BY <3>2, NoTurnTyped DEF NewQueue
      <3>4. Sound(queue[a], <<>>, <<>>, missed, outcome)
        BY <3>1, <3>3, SoundAtFirst
      <3> QED BY <2>1, <3>4 DEF AdapterInv
    <2>3. CallsApart
      BY <2>1, HoldsNothing DEF CallsApart
    <2>4. ToldIsCarried
      BY DEF QueueInit, ToldIsCarried, Told
    <2> QED BY <2>2, <2>3, <2>4 DEF QueueInv
  <1>2. ASSUME QueueInv, QueueTypeInv', [QueueNext]_queueVars
        PROVE  QueueInv'
    <2>1. CASE UNCHANGED queueVars
      BY <1>2, <2>1 DEF queueVars, QueueInv, AdapterInv, CallsApart, ToldIsCarried, IsCarried, Told
    <2>2. CASE QueueNext
      <3>1. QueueStep
        BY <1>2, <2>2, StepsOfTheQueue DEF QueueInv
      <3> QED BY <1>2, <3>1, SendsKeeps, SettlesKeeps, RestoresKeeps, TriesKeeps, QuietKeeps,
                 RegistersKeeps DEF QueueStep
    <2> QED BY <1>2, <2>1, <2>2
  <1> QED BY <1>1, <1>2, QueueTypeCorrect, PTL DEF QueueSpec

(* CarriedUnlessSpawnFailed: a sendTurn that resolved had its text carried *)
(* to a process or lost with one that never came up, and never has it      *)
(* waiting still.                                                          *)
THEOREM CarriedTexts == QueueSpec => []CarriedUnlessSpawnFailed
  <1>1. QueueInv => CarriedUnlessSpawnFailed
    <2> SUFFICES ASSUME QueueInv, NEW c \in Call, Told(c)
                 PROVE  /\ c \in missed \cup UNION {ToSet(log[a]) : a \in Adapter}
                        /\ \A a \in Adapter : c \notin ToSet(queue[a].pending)
      BY DEF CarriedUnlessSpawnFailed
    <2>1. IsCarried(c)
      BY DEF QueueInv, ToldIsCarried
    <2>2. ASSUME NEW a \in Adapter
          PROVE  c \notin ToSet(queue[a].pending)
      BY DEF QueueInv, AdapterInv, Sound, Told
    <2> QED BY <2>1, <2>2 DEF IsCarried
  <1> QED BY <1>1, QueueInvariant, PTL

(* TextsKeepOrder: what each adapter's agent last read is in call order.   *)
THEOREM TextsInOrder == QueueSpec => []TextsKeepOrder
  <1>1. QueueInv => TextsKeepOrder
    BY DEF QueueInv, AdapterInv, Sound, KeepsOrder, TextsKeepOrder
  <1> QED BY <1>1, QueueInvariant, PTL

-----------------------------------------------------------------------------
(***************************************************************************)
(* The runtime layer together.  A behaviour of the instance is one of the  *)
(* supervisors, of the queue and of the compaction at once: so each of the *)
(* theorems above, and those of SupervisorProofs, holds of it.             *)
(***************************************************************************)

(* The instance adds nothing to its components: seen by any of them, each  *)
(* of its steps is one the component's own specification allows.           *)
THEOREM RuntimeIsItsComponents == MCSpec => Spec /\ QueueSpec /\ CompactionSpec
  <1>1. MCInit => Init /\ QueueInit /\ CompactionInit
    BY DEF MCInit
  <1>2. [MCNext]_<<vars, queueVars, compactionVars, part>> => [Next]_vars
    BY DEF MCNext
  <1>3. [MCNext]_<<vars, queueVars, compactionVars, part>> => [QueueNext]_queueVars
    BY DEF MCNext
  <1>4. [MCNext]_<<vars, queueVars, compactionVars, part>> => [CompactionNext]_compactionVars
    BY DEF MCNext
  <1> QED BY <1>1, <1>2, <1>3, <1>4, PTL DEF MCSpec, Spec, QueueSpec, CompactionSpec

(* RuntimeTypeOK: supervisors, registries, ledgers, queues and compactions *)
(* keep their types, and a turn in flight always has a waiting slot.       *)
THEOREM RuntimeTypeCorrect == MCSpec => []RuntimeTypeOK
  <1>1. TypeOK /\ QueueTypeInv /\ CompactionTypeOK => RuntimeTypeOK
    BY DEF QueueTypeInv, RuntimeTypeOK
  <1> QED BY <1>1, RuntimeIsItsComponents, SupervisorTypeCorrect, QueueTypeCorrect,
             CompactionTypeCorrect, PTL
=============================================================================
