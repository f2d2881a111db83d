-------------------------- MODULE EventStreamProofs --------------------------
(***************************************************************************)
(* The answers to an agent's calls, for any number of processes, events    *)
(* and restarts.  A result goes to the adapter registered when the tool is *)
(* done, which may be another process than the caller; what makes the      *)
(* answers honest is that an adapter never comes back: once a younger      *)
(* process is registered, no older one is again.                           *)
(***************************************************************************)
EXTENDS EventStream, TLAPS

-----------------------------------------------------------------------------
(* The type invariant in four parts.                                       *)
RuntimeTypes ==
    /\ status \in {"none", "running", "stopped", "exited"}
    /\ stopRequested \in BOOLEAN
    /\ restarts \in 0..MaxRestarts
    /\ adapter \in 0..MaxProcs
    /\ spawned \in 0..MaxProcs
    /\ alive \subseteq 1..spawned /\ exits \subseteq 1..spawned

PrintTypes ==
    /\ printed \in [Proc -> 0..MaxPrints]
    /\ taken \in [Proc -> 0..MaxPrints] /\ \A p \in Proc : taken[p] <= printed[p]

LoopTypes ==
    /\ loop \in [Proc -> {"none", "reading", "writing", "over"}]
    /\ hand \in [Proc -> [to : 0..MaxProcs, what : Outcome, again : BOOLEAN]]

HistoryTypes ==
    /\ acts \subseteq [by : Proc, at : Place, what : Outcome \cup {"recorded"}]
    /\ told \subseteq [by : Proc, at : Place, what : Outcome]

LEMMA TypeParts ==
    /\ StreamTypeOK <=> RuntimeTypes /\ PrintTypes /\ LoopTypes /\ HistoryTypes
    /\ StreamTypeOK' <=> RuntimeTypes' /\ PrintTypes' /\ LoopTypes' /\ HistoryTypes'
  BY Zenon DEF StreamTypeOK, RuntimeTypes, PrintTypes, LoopTypes, HistoryTypes

(* A process more: its number is new.                                      *)
LEMMA SpawnStep ==
    ASSUME RuntimeTypes, Spawn
    PROVE  /\ spawned' = spawned + 1 /\ spawned' \in Proc
           /\ status' \in {"none", "running", "stopped", "exited"}
           /\ stopRequested' \in BOOLEAN
           /\ alive' \subseteq 1..spawned' /\ alive \subseteq alive'
           /\ exits \subseteq 1..spawned'
  <1>1. spawned \in Nat /\ spawned' = spawned + 1 /\ spawned' \in 1..MaxProcs
    BY StreamAssumption DEF Spawn, RuntimeTypes
  <1>2. 1..spawned \subseteq 1..spawned' /\ spawned' \in 1..spawned'
    BY <1>1
  <1>3. alive' = alive \cup {spawned'} /\ status' = "running" /\ stopRequested' = FALSE
    BY DEF Spawn
  <1> QED BY <1>1, <1>2, <1>3 DEF RuntimeTypes, Proc

(* The steps outside the loops.                                            *)
LEMMA RuntimeTypeStep ==
    ASSUME StreamTypeOK,
           LaunchAgent \/ StopAgent \/ \E p \in Proc : Die(p) \/ OnExit(p) \/ Emit(p)
    PROVE  StreamTypeOK'
  <1> USE TypeParts
  <1>1. CASE LaunchAgent
    <2>1. RuntimeTypes'
      <3>1. restarts' = 0 /\ adapter' = spawned' /\ exits' = exits
        BY <1>1 DEF LaunchAgent
      <3>2. 0 \in 0..MaxRestarts /\ Proc \subseteq 0..MaxProcs
        BY StreamAssumption DEF Proc
      <3> QED BY <1>1, <3>1, <3>2, SpawnStep DEF LaunchAgent, RuntimeTypes
    <2>2. PrintTypes' /\ HistoryTypes'
      BY <1>1 DEF LaunchAgent, PrintTypes, HistoryTypes
    <2>3. LoopTypes'
      BY <1>1 DEF LaunchAgent, LoopTypes
    <2> QED BY <2>1, <2>2, <2>3
  <1>2. CASE StopAgent
    <2>1. stopRequested' \in BOOLEAN
      BY <1>2, Zenon DEF StopAgent, RuntimeTypes
    <2>2. RuntimeTypes'
      BY <1>2, <2>1, StreamAssumption DEF StopAgent, RuntimeTypes
    <2>3. PrintTypes' /\ HistoryTypes' /\ LoopTypes'
      BY <1>2 DEF StopAgent, PrintTypes, HistoryTypes, LoopTypes
    <2> QED BY <2>2, <2>3
  <1>3. ASSUME NEW p \in Proc, Die(p) PROVE StreamTypeOK'
    <2>1. RuntimeTypes'
      BY <1>3 DEF Die, RuntimeTypes
    <2>2. PrintTypes' /\ HistoryTypes' /\ LoopTypes'
      BY <1>3 DEF Die, PrintTypes, HistoryTypes, LoopTypes
    <2> QED BY <2>1, <2>2
  <1>4. ASSUME NEW p \in Proc, OnExit(p) PROVE StreamTypeOK'
    <2>1. exits' \subseteq exits /\ adapter' = adapter
      BY <1>4 DEF OnExit
    <2>2. PrintTypes' /\ HistoryTypes' /\ LoopTypes'
      BY <1>4 DEF OnExit, PrintTypes, HistoryTypes, LoopTypes
    <2>3. CASE UNCHANGED <<status, stopRequested, restarts, spawned, alive>>
      BY <2>1, <2>2, <2>3 DEF RuntimeTypes
    <2>4. CASE status' = "exited" /\ UNCHANGED <<stopRequested, restarts, spawned, alive>>
      BY <2>1, <2>2, <2>4 DEF RuntimeTypes
    <2>5. CASE Spawn /\ restarts < MaxRestarts /\ restarts' = restarts + 1
      <3>1. restarts' \in 0..MaxRestarts /\ Proc \subseteq 0..MaxProcs
        BY <2>5, StreamAssumption DEF RuntimeTypes, Proc
      <3> QED BY <2>1, <2>2, <2>5, <3>1, SpawnStep DEF RuntimeTypes
    <2> QED BY <1>4, <2>3, <2>4, <2>5 DEF OnExit
  <1>5. ASSUME NEW p \in Proc, Emit(p) PROVE StreamTypeOK'
    <2>1. PrintTypes'
      <3>1. printed[p] + 1 \in 0..MaxPrints
        BY <1>5, StreamAssumption DEF Emit, PrintTypes
      <3>2. printed' = [printed EXCEPT ![p] = printed[p] + 1] /\ taken' = taken
        BY <1>5 DEF Emit
      <3> QED BY <3>1, <3>2 DEF PrintTypes
    <2>2. RuntimeTypes' /\ HistoryTypes' /\ LoopTypes'
      BY <1>5 DEF Emit, RuntimeTypes, HistoryTypes, LoopTypes
    <2> QED BY <2>1, <2>2
  <1> QED BY <1>1, <1>2, <1>3, <1>4, <1>5

-----------------------------------------------------------------------------
(* A step of a loop: an event of its process was taken, or none.           *)
LEMMA TakenStep ==
    ASSUME StreamTypeOK, NEW p \in Proc, TakeFrom(p)
    PROVE  /\ PrintTypes' /\ RuntimeTypes'
           /\ loop[p] = "reading" /\ told' = told
           /\ taken'[p] = taken[p] + 1 /\ taken[p] + 1 \in Place
           /\ \A q \in Proc \ {p} : taken'[q] = taken[q]
  <1> USE TypeParts
  <1>1. /\ taken[p] \in 0..MaxPrints /\ printed[p] \in 0..MaxPrints /\ taken[p] < printed[p]
        /\ taken' = [taken EXCEPT ![p] = taken[p] + 1] /\ printed' = printed
    BY DEF TakeFrom, PrintTypes
  <1>2. taken[p] + 1 \in Place /\ taken[p] + 1 \in 0..MaxPrints /\ taken[p] + 1 <= printed[p]
    BY <1>1, StreamAssumption DEF Place
  <1>3. PrintTypes'
    BY <1>1, <1>2 DEF PrintTypes
  <1>4. RuntimeTypes'
    BY DEF TakeFrom, runtimeVars, RuntimeTypes
  <1>5. taken'[p] = taken[p] + 1 /\ \A q \in Proc \ {p} : taken'[q] = taken[q]
    BY <1>1 DEF PrintTypes
  <1> QED BY <1>2, <1>3, <1>4, <1>5 DEF TakeFrom

(* A result is on its way, to the adapter that is registered, or dropped.  *)
LEMMA SendStep ==
    ASSUME StreamTypeOK, NEW p \in Proc, NEW what \in Outcome, NEW again \in BOOLEAN,
           SendResult(p, what, again)
    PROVE  /\ LoopTypes'
           /\ \A q \in Proc \ {p} : loop'[q] = loop[q] /\ hand'[q] = hand[q]
           /\ \/ adapter = 0 /\ loop'[p] = "reading"
              \/ adapter # 0 /\ loop'[p] = "writing" /\ hand'[p].to = adapter /\ hand'[p].what = what
  <1> USE TypeParts
  <1>1. NoHand \in [to : 0..MaxProcs, what : Outcome, again : BOOLEAN]
    BY StreamAssumption DEF NoHand, Outcome
  <1>2. [to |-> adapter, what |-> what, again |-> again]
          \in [to : 0..MaxProcs, what : Outcome, again : BOOLEAN]
    BY DEF RuntimeTypes
  <1>3. CASE adapter = 0
    BY <1>1, <1>3 DEF SendResult, LoopTypes
  <1>4. CASE adapter # 0
    <2>1. /\ loop' = [loop EXCEPT ![p] = "writing"]
          /\ hand' = [hand EXCEPT ![p] = [to |-> adapter, what |-> what, again |-> again]]
      BY <1>4 DEF SendResult
    <2> QED BY <1>2, <1>4, <2>1 DEF LoopTypes
  <1> QED BY <1>3, <1>4

(* A loop that is writing has taken the call it answers.                   *)
WritersTook == \A p \in Proc : loop[p] = "writing" => taken[p] \in Place

(* The steps of the loop of a process.                                     *)
LEMMA LoopTypeStep ==
    ASSUME StreamTypeOK, WritersTook, NEW p \in Proc, Ingest(p)
    PROVE  StreamTypeOK'
  <1> USE TypeParts
  <1>0. NoHand \in [to : 0..MaxProcs, what : Outcome, again : BOOLEAN]
    BY StreamAssumption DEF NoHand, Outcome
  <1>1. CASE Note(p)
    BY <1>1, TakenStep DEF Note, LoopTypes, HistoryTypes
  <1>2. CASE Blank(p) \/ Refused(p)
    <2>1. TakeFrom(p) /\ loop' = [loop EXCEPT ![p] = "over"] /\ hand' = hand /\ acts' = acts
      BY <1>2 DEF Blank, Refused, Thrown
    <2>2. LoopTypes'
      BY <2>1 DEF LoopTypes
    <2> QED BY <2>1, <2>2, TakenStep DEF HistoryTypes
  <1>3. ASSUME NEW what \in Outcome \cup {"recorded"}, TakeFrom(p),
               acts' = acts \cup {Act(p, what)}
        PROVE  HistoryTypes'
    BY <1>3, TakenStep DEF Act, HistoryTypes
  <1>4. CASE Record(p)
    <2>1. LoopTypes' /\ TakeFrom(p) /\ acts' = acts \cup {Act(p, "recorded")}
      BY <1>4 DEF Record, CanWrite, LoopTypes
    <2> QED BY <1>3, <2>1, TakenStep
  <1>5. CASE Call(p)
    <2>1. PICK what \in Outcome : /\ acts' = acts \cup {Act(p, what)}
                                  /\ SendResult(p, what, what = "refused")
      BY <1>5 DEF Call
    <2>2. TakeFrom(p) /\ (what = "refused") \in BOOLEAN
      BY <1>5 DEF Call, CanWrite
    <2> QED BY <1>3, <2>1, <2>2, TakenStep, SendStep
  <1>6. ASSUME UNCHANGED <<runtimeVars, printed, taken>>
        PROVE  RuntimeTypes' /\ PrintTypes'
    BY <1>6 DEF runtimeVars, RuntimeTypes, PrintTypes
  <1>7. CASE Written(p)
    <2>1. [by |-> p, at |-> taken[p], what |-> hand[p].what] \in [by : Proc, at : Place, what : Outcome]
      BY <1>7 DEF Written, WritersTook, LoopTypes
    <2>2. told' \subseteq told \cup {[by |-> p, at |-> taken[p], what |-> hand[p].what]} /\ acts' = acts
      BY <1>7 DEF Written
    <2>3. LoopTypes'
      BY <1>7, <1>0 DEF Written, LoopTypes
    <2>4. HistoryTypes'
      BY <2>1, <2>2 DEF HistoryTypes
    <2> QED BY <1>6, <1>7, <2>3, <2>4 DEF Written
  <1>8. CASE WriteFails(p)
    <2>1. LoopTypes'
      <3>1. CASE loop' = [loop EXCEPT ![p] = "over"] /\ hand' = [hand EXCEPT ![p] = NoHand]
        BY <1>0, <3>1 DEF LoopTypes
      <3>2. CASE SendResult(p, "refused", TRUE)
        BY <3>2, SendStep DEF Outcome
      <3> QED BY <1>8, <3>1, <3>2 DEF WriteFails
    <2>2. HistoryTypes'
      BY <1>8 DEF WriteFails, HistoryTypes
    <2> QED BY <1>6, <1>8, <2>1, <2>2 DEF WriteFails
  <1>9. CASE StreamEnds(p)
    <2>1. LoopTypes' /\ HistoryTypes'
      BY <1>9 DEF StreamEnds, LoopTypes, HistoryTypes
    <2> QED BY <1>6, <1>9, <2>1 DEF StreamEnds
  <1> QED BY <1>1, <1>2, <1>4, <1>5, <1>7, <1>8, <1>9 DEF Ingest

-----------------------------------------------------------------------------
(* Adapters never come back: every loop belongs to a process at most as    *)
(* young as the adapter, and a result on its way goes to a process from    *)
(* the caller up to the adapter.                                           *)
Ordered ==
    /\ adapter <= spawned
    /\ \A p \in Proc : loop[p] # "none" => p <= spawned /\ (adapter # 0 => p <= adapter)
    /\ \A p \in Proc : loop[p] = "writing" =>
         /\ p <= hand[p].to /\ hand[p].to <= spawned
         /\ adapter # 0 => hand[p].to <= adapter
    /\ \A c \in acts : c.by <= spawned

(* What is written to a caller that lives is what was done for it.         *)
HandsHonest ==
    \A p \in Proc : loop[p] = "writing" /\ hand[p].to = p /\ p \in alive =>
        [by |-> p, at |-> taken[p], what |-> hand[p].what] \in acts

Answering ==
    /\ StreamTypeOK
    /\ WritersTook
    /\ Ordered
    /\ HandsHonest
    /\ ResultsAreHonest
    /\ CallsAreAnswered

LEMMA AnsweringInit == StreamInit => Answering
  <1> SUFFICES ASSUME StreamInit PROVE Answering
    OBVIOUS
  <1> USE StreamAssumption DEF StreamInit
  <1>1. StreamTypeOK
    <2>1. NoHand \in [to : 0..MaxProcs, what : Outcome, again : BOOLEAN]
      BY DEF NoHand, Outcome
    <2>2. RuntimeTypes
      <3>1. stopRequested \in BOOLEAN
        BY Zenon
      <3> QED BY <3>1 DEF RuntimeTypes
    <2>3. PrintTypes /\ HistoryTypes
      BY DEF PrintTypes, HistoryTypes
    <2>4. LoopTypes
      BY <2>1 DEF LoopTypes
    <2> QED BY <2>2, <2>3, <2>4, TypeParts
  <1>2. WritersTook /\ HandsHonest /\ Ordered
    BY DEF WritersTook, HandsHonest, Ordered
  <1> QED BY <1>1, <1>2 DEF Answering, ResultsAreHonest, CallsAreAnswered

(* What the steps outside the loops do to them: a process comes to life    *)
(* with a number of its own, and an adapter is registered for it or none.  *)
Aside ==
    /\ UNCHANGED <<taken, hand, acts, told>>
    /\ spawned' \in 0..MaxProcs /\ spawned <= spawned'
    /\ \A q \in alive' : q \in alive \/ q > spawned
    /\ \/ loop' = loop /\ (adapter' = adapter \/ adapter' = 0)
       \/ /\ spawned < spawned' /\ adapter' = spawned'
          /\ loop' = [loop EXCEPT ![spawned'] = "reading"]

LEMMA AsideStep ==
    ASSUME StreamTypeOK,
           LaunchAgent \/ StopAgent \/ \E p \in Proc : Die(p) \/ OnExit(p) \/ Emit(p)
    PROVE  Aside
  <1> USE TypeParts
  <1>0. spawned \in 0..MaxProcs /\ spawned \in Nat
    BY StreamAssumption DEF RuntimeTypes
  <1>1. ASSUME Spawn PROVE /\ spawned' \in 0..MaxProcs /\ spawned < spawned'
                           /\ \A q \in alive' : q \in alive \/ q > spawned
    BY <1>0, <1>1, StreamAssumption DEF Spawn
  <1>2. CASE LaunchAgent
    <2>1. /\ Spawn /\ adapter' = spawned' /\ loop' = [loop EXCEPT ![spawned'] = "reading"]
          /\ UNCHANGED <<taken, hand, acts, told>>
      BY <1>2 DEF LaunchAgent
    <2> QED BY <1>0, <1>1, <2>1 DEF Aside
  <1>3. CASE StopAgent
    BY <1>0, <1>3 DEF StopAgent, Aside
  <1>4. ASSUME NEW p \in Proc, Die(p) \/ Emit(p) PROVE Aside
    BY <1>0, <1>4 DEF Die, Emit, Aside
  <1>5. ASSUME NEW p \in Proc, OnExit(p) PROVE Aside
    <2>1. UNCHANGED <<adapter, taken, loop, hand, acts, told>>
      BY <1>5 DEF OnExit
    <2>2. Spawn \/ UNCHANGED <<spawned, alive>>
      BY <1>5 DEF OnExit
    <2> QED BY <1>0, <1>1, <2>1, <2>2 DEF Aside
  <1> QED BY <1>2, <1>3, <1>4, <1>5

LEMMA AnsweringAside ==
    ASSUME Answering, Aside, StreamTypeOK'
    PROVE  Answering'
  <1> USE TypeParts DEF Answering, Aside
  <1>0. /\ spawned \in Nat /\ spawned' \in Nat /\ adapter \in Nat /\ adapter' \in Nat
        /\ Proc \subseteq Nat
    BY StreamAssumption DEF RuntimeTypes, Proc
  <1>1. ASSUME NEW p \in Proc
        PROVE  /\ loop'[p] = "writing" => loop[p] = "writing"
               /\ loop[p] = "writing" => loop'[p] = "writing"
               /\ loop'[p] # "none" => loop[p] # "none" \/ p = spawned'
    <2>1. CASE loop' = loop
      BY <2>1
    <2>2. CASE /\ spawned < spawned' /\ adapter' = spawned'
               /\ loop' = [loop EXCEPT ![spawned'] = "reading"]
      <3>1. loop[p] # "none" => p # spawned'
        BY <1>0, <2>2 DEF Ordered
      <3>2. p # spawned' => loop'[p] = loop[p]
        BY <2>2 DEF LoopTypes
      <3>3. p = spawned' => loop'[p] = "reading"
        BY <2>2 DEF LoopTypes
      <3> QED BY <3>1, <3>2, <3>3
    <2> QED BY <2>1, <2>2
  <1>2. WritersTook'
    BY <1>1 DEF WritersTook
  <1>3. hand \in [Proc -> [to : 0..MaxProcs, what : Outcome, again : BOOLEAN]] /\ hand' = hand
    BY DEF LoopTypes
  <1>4. \A p \in Proc : hand[p].to \in Nat
    BY <1>3, StreamAssumption
  <1>5. adapter' = spawned' \/ adapter' = adapter \/ adapter' = 0
    OBVIOUS
  <1>6. Ordered'
    <2>1. adapter' <= spawned'
      BY <1>0, <1>5 DEF Ordered
    <2>2. ASSUME NEW p \in Proc, loop'[p] # "none"
          PROVE  p <= spawned' /\ (adapter' # 0 => p <= adapter')
      <3>1. CASE loop' = loop
        BY <1>0, <2>2, <3>1 DEF Ordered
      <3>2. CASE spawned < spawned' /\ adapter' = spawned'
        BY <1>0, <1>1, <2>2, <3>2 DEF Ordered
      <3> QED BY <3>1, <3>2
    <2>3. ASSUME NEW p \in Proc, loop'[p] = "writing"
          PROVE  /\ p <= hand'[p].to /\ hand'[p].to <= spawned'
                 /\ adapter' # 0 => hand'[p].to <= adapter'
      <3>1. /\ p <= hand[p].to /\ hand[p].to <= spawned
            /\ adapter # 0 => hand[p].to <= adapter
        BY <1>1, <2>3 DEF Ordered
      <3> QED BY <1>0, <1>3, <1>4, <1>5, <3>1
    <2>4. \A c \in acts' : c.by <= spawned'
      <3>1. \A c \in acts : c.by \in Nat
        BY <1>0 DEF HistoryTypes
      <3> QED BY <1>0, <3>1 DEF Ordered
    <2> QED BY <2>1, <2>2, <2>3, <2>4 DEF Ordered
  <1>7. \A p \in Proc : p <= spawned /\ p \in alive' => p \in alive
    BY <1>0
  <1>8. HandsHonest'
    <2> SUFFICES ASSUME NEW p \in Proc, loop'[p] = "writing", hand'[p].to = p, p \in alive'
                 PROVE  [by |-> p, at |-> taken'[p], what |-> hand'[p].what] \in acts'
      BY DEF HandsHonest
    <2>1. loop[p] = "writing" /\ p <= spawned
      BY <1>1 DEF Ordered
    <2> QED BY <1>7, <2>1 DEF HandsHonest
  <1>9. CallsAreAnswered'
    <2> SUFFICES ASSUME NEW c \in acts, c.what \in Outcome
                 PROVE  \/ loop'[c.by] = "writing" /\ taken[c.by] = c.at
                        \/ \E r \in told : r.by = c.by /\ r.at = c.at
                        \/ c.by \notin alive' \/ adapter' # c.by
      BY DEF CallsAreAnswered
    <2>1. c.by \in Proc /\ c.by <= spawned
      BY DEF HistoryTypes, Ordered
    <2>2. adapter' = c.by => adapter' = adapter
      <3>1. c.by # 0 /\ (spawned < spawned' => spawned' # c.by)
        BY <1>0, <2>1 DEF Proc
      <3> QED BY <3>1
    <2> QED BY <1>1, <1>7, <2>1, <2>2 DEF CallsAreAnswered
  <1>10. ResultsAreHonest'
    BY DEF ResultsAreHonest
  <1> QED BY <1>2, <1>6, <1>8, <1>9, <1>10
(* A step of the loop of p is nothing to the other loops.                  *)
LEMMA OthersStay ==
    ASSUME Answering, NEW p \in Proc, Ingest(p)
    PROVE  /\ UNCHANGED <<adapter, spawned, alive>>
           /\ acts \subseteq acts' /\ told \subseteq told'
           /\ \A q \in Proc \ {p} : loop'[q] = loop[q] /\ hand'[q] = hand[q] /\ taken'[q] = taken[q]
  <1> USE TypeParts DEF Answering
  <1>1. CASE Note(p) \/ Record(p) \/ Blank(p) \/ Refused(p)
    <2>1. /\ TakeFrom(p) /\ acts \subseteq acts' /\ hand' = hand
          /\ loop' = loop \/ loop' = [loop EXCEPT ![p] = "over"]
      BY <1>1 DEF Note, Record, Blank, Refused, Thrown, CanWrite
    <2>2. \A q \in Proc \ {p} : loop'[q] = loop[q]
      BY <2>1 DEF LoopTypes
    <2> QED BY <2>1, <2>2, TakenStep DEF TakeFrom, runtimeVars
  <1>2. CASE Call(p)
    <2>1. PICK what \in Outcome : /\ acts' = acts \cup {Act(p, what)}
                                  /\ SendResult(p, what, what = "refused")
      BY <1>2 DEF Call
    <2>2. TakeFrom(p) /\ (what = "refused") \in BOOLEAN
      BY <1>2 DEF Call, CanWrite
    <2> QED BY <2>1, <2>2, TakenStep, SendStep DEF TakeFrom, runtimeVars
  <1>3. CASE Written(p)
    BY <1>3 DEF Written, runtimeVars, LoopTypes
  <1>4. CASE WriteFails(p)
    <2>1. \A q \in Proc \ {p} : loop'[q] = loop[q] /\ hand'[q] = hand[q]
      <3>1. CASE loop' = [loop EXCEPT ![p] = "over"] /\ hand' = [hand EXCEPT ![p] = NoHand]
        BY <3>1 DEF LoopTypes
      <3>2. CASE SendResult(p, "refused", TRUE)
        BY <3>2, SendStep DEF Outcome
      <3> QED BY <1>4, <3>1, <3>2 DEF WriteFails
    <2> QED BY <1>4, <2>1 DEF WriteFails, runtimeVars
  <1>5. CASE StreamEnds(p)
    BY <1>5 DEF StreamEnds, runtimeVars, LoopTypes
  <1> QED BY <1>1, <1>2, <1>3, <1>4, <1>5 DEF Ingest

(* What the step must show of p itself.                                    *)
Own(p) ==
    /\ loop'[p] # "none" => p <= spawned /\ (adapter # 0 => p <= adapter)
    /\ loop'[p] = "writing" =>
         /\ taken'[p] \in Place
         /\ p <= hand'[p].to /\ hand'[p].to <= spawned
         /\ adapter # 0 => hand'[p].to <= adapter
         /\ hand'[p].to = p /\ p \in alive =>
              [by |-> p, at |-> taken'[p], what |-> hand'[p].what] \in acts'
    /\ \A c \in acts' \ acts : c.by = p
    /\ told' \subseteq acts'
    /\ \A c \in acts' : c.by = p /\ c.what \in Outcome =>
         \/ loop'[p] = "writing" /\ taken'[p] = c.at
         \/ \E r \in told' : r.by = p /\ r.at = c.at
         \/ p \notin alive \/ adapter # p

LEMMA OwnSuffices ==
    ASSUME Answering, NEW p \in Proc, Ingest(p), Own(p), StreamTypeOK'
    PROVE  Answering'
  <1> USE TypeParts, OthersStay DEF Answering
  <1>1. WritersTook'
    BY DEF WritersTook, Own
  <1>2. Ordered'
    <2>1. p <= spawned
      <3>1. loop[p] # "none"
        BY TakenStep DEF Ingest, Note, Record, Blank, Call, Refused, Thrown, CanWrite, Written,
                         WriteFails, StreamEnds
      <3> QED BY <3>1 DEF Ordered
    <2>2. \A c \in acts' : c.by <= spawned
      BY <2>1 DEF Own, Ordered
    <2> QED BY <2>2 DEF Own, Ordered
  <1>3. HandsHonest'
    BY DEF Own, HandsHonest
  <1>4. ResultsAreHonest'
    BY DEF Own, ResultsAreHonest
  <1>5. CallsAreAnswered'
    <2> SUFFICES ASSUME NEW c \in acts', c.what \in Outcome
                 PROVE  \/ loop'[c.by] = "writing" /\ taken'[c.by] = c.at
                        \/ \E r \in told' : r.by = c.by /\ r.at = c.at
                        \/ c.by \notin alive \/ adapter # c.by
      BY DEF CallsAreAnswered
    <2>1. CASE c.by = p
      BY <2>1 DEF Own
    <2>2. CASE c.by # p
      <3>1. c \in acts /\ c.by \in Proc \ {p}
        BY <2>2 DEF Own, HistoryTypes
      <3> QED BY <3>1 DEF CallsAreAnswered
    <2> QED BY <2>1, <2>2
  <1> QED BY <1>1, <1>2, <1>3, <1>4, <1>5

LEMMA AnsweringIngest ==
    ASSUME Answering, NEW p \in Proc, Ingest(p)
    PROVE  Answering'
  <1> USE TypeParts DEF Answering
  <1>0. StreamTypeOK'
    BY LoopTypeStep
  <1>1. /\ loop[p] # "none" => p <= spawned /\ (adapter # 0 => p <= adapter)
        /\ adapter <= spawned /\ adapter \in Nat /\ spawned \in Nat /\ p \in Nat /\ p # 0
    BY StreamAssumption DEF Ordered, RuntimeTypes, Proc
  <1>2. ASSUME NEW c \in acts, c.by = p, c.what \in Outcome, loop[p] # "writing"
        PROVE  (\E r \in told : r.by = p /\ r.at = c.at) \/ p \notin alive \/ adapter # p
    BY <1>2 DEF CallsAreAnswered
  <1>3. told \subseteq acts
    BY DEF ResultsAreHonest
  <1>4. CASE Note(p) \/ Record(p) \/ Blank(p) \/ Refused(p)
    <2>1. /\ TakeFrom(p) /\ hand' = hand
          /\ loop' = loop \/ loop' = [loop EXCEPT ![p] = "over"]
          /\ acts' = acts \/ acts' = acts \cup {Act(p, "recorded")}
      BY <1>4 DEF Note, Record, Blank, Refused, Thrown, CanWrite
    <2>2. loop[p] = "reading" /\ loop'[p] # "writing" /\ told' = told
      BY <2>1, TakenStep DEF LoopTypes
    <2>3. \A c \in acts' : c.what \in Outcome => c \in acts
      BY <2>1 DEF Act, Outcome
    <2>4. \A c \in acts' \ acts : c.by = p
      BY <2>1 DEF Act
    <2>5. Own(p)
      BY <1>1, <1>2, <1>3, <2>1, <2>2, <2>3, <2>4 DEF Own
    <2> QED BY <1>0, <2>5, OwnSuffices
  <1>5. CASE Call(p)
    <2>1. PICK what \in Outcome : /\ acts' = acts \cup {Act(p, what)}
                                  /\ SendResult(p, what, what = "refused")
      BY <1>5 DEF Call
    <2>2. TakeFrom(p) /\ (what = "refused") \in BOOLEAN
      BY <1>5 DEF Call, CanWrite
    <2>3. /\ loop[p] = "reading" /\ told' = told
          /\ taken'[p] = taken[p] + 1 /\ taken'[p] \in Place
      BY <2>2, TakenStep
    <2>4. \/ adapter = 0 /\ loop'[p] = "reading"
          \/ adapter # 0 /\ loop'[p] = "writing" /\ hand'[p].to = adapter /\ hand'[p].what = what
      BY <2>1, <2>2, SendStep
    <2>5. Act(p, what) = [by |-> p, at |-> taken'[p], what |-> what] /\ Act(p, what) \in acts'
      BY <2>1, <2>3 DEF Act
    <2>6. \A c \in acts' \ acts : c.by = p /\ c.at = taken'[p]
      BY <2>1, <2>5
    <2>7. \A c \in acts' : c.by = p /\ c.what \in Outcome =>
            \/ loop'[p] = "writing" /\ taken'[p] = c.at
            \/ \E r \in told' : r.by = p /\ r.at = c.at
            \/ p \notin alive \/ adapter # p
      BY <1>1, <1>2, <2>3, <2>4, <2>6
    <2>8. Own(p)
      BY <1>1, <1>3, <2>1, <2>3, <2>4, <2>5, <2>6, <2>7 DEF Own
    <2> QED BY <1>0, <2>8, OwnSuffices
  <1>6. ASSUME loop[p] = "writing"
        PROVE  /\ taken[p] \in Place /\ p <= hand[p].to /\ hand[p].to <= spawned
               /\ adapter # 0 => hand[p].to <= adapter
               /\ hand[p].to \in Nat
    BY <1>6, StreamAssumption DEF WritersTook, Ordered, LoopTypes
  <1>7. CASE Written(p)
    <2> DEFINE r0 == [by |-> p, at |-> taken[p], what |-> hand[p].what]
    <2>1. /\ loop[p] = "writing" /\ hand[p].to \in alive /\ taken' = taken /\ acts' = acts
          /\ told' = told \cup {r \in {r0} : hand[p].to = p}
          /\ loop'[p] = "reading"
      BY <1>7 DEF Written, LoopTypes
    <2>2. hand[p].to = p => r0 \in acts /\ told' = told \cup {r0}
      BY <2>1 DEF HandsHonest
    <2>3. hand[p].to # p => told' = told /\ adapter # p
      BY <1>1, <1>6, <2>1
    <2>4. told' \subseteq acts' /\ told \subseteq told'
      BY <1>3, <2>1, <2>2, <2>3
    <2>5. ASSUME NEW c \in acts, c.by = p, c.what \in Outcome
          PROVE  (\E r \in told' : r.by = p /\ r.at = c.at) \/ p \notin alive \/ adapter # p
      <3>1. CASE taken[p] = c.at /\ hand[p].to = p
        <4>1. r0 \in told' /\ r0.by = p /\ r0.at = c.at
          BY <2>2, <3>1
        <4> QED BY <4>1
      <3>2. CASE taken[p] # c.at
        BY <2>4, <2>5, <3>2 DEF CallsAreAnswered
      <3>3. CASE hand[p].to # p
        BY <2>3, <3>3
      <3> QED BY <3>1, <3>2, <3>3
    <2>6. Own(p)
      BY <1>1, <2>1, <2>4, <2>5 DEF Own
    <2> QED BY <1>0, <2>6, OwnSuffices
  <1>8. CASE WriteFails(p)
    <2>1. /\ loop[p] = "writing" /\ hand[p].to \notin alive
          /\ taken' = taken /\ acts' = acts /\ told' = told
      BY <1>8 DEF WriteFails
    <2>2. \/ loop'[p] = "over"
          \/ adapter = 0 /\ loop'[p] = "reading"
          \/ adapter # 0 /\ loop'[p] = "writing" /\ hand'[p].to = adapter /\ ~ hand[p].again
      <3>1. CASE loop' = [loop EXCEPT ![p] = "over"]
        BY <3>1 DEF LoopTypes
      <3>2. CASE SendResult(p, "refused", TRUE) /\ ~ hand[p].again
        BY <3>2, SendStep DEF Outcome
      <3> QED BY <1>8, <3>1, <3>2 DEF WriteFails
    <2>3. p \notin alive \/ adapter # p
      BY <1>1, <1>6, <2>1
    <2>4. loop'[p] = "writing" => ~ (hand'[p].to = p /\ p \in alive)
      BY <2>2, <2>3
    <2>5. Own(p)
      BY <1>1, <1>3, <1>6, <2>1, <2>2, <2>3, <2>4 DEF Own
    <2> QED BY <1>0, <2>5, OwnSuffices
  <1>9. CASE StreamEnds(p)
    <2>1. /\ loop[p] = "reading" /\ loop'[p] = "over" /\ p \notin alive
          /\ UNCHANGED <<taken, acts, told>>
      BY <1>9 DEF StreamEnds, LoopTypes
    <2>2. Own(p)
      BY <1>1, <1>3, <2>1 DEF Own
    <2> QED BY <1>0, <2>2, OwnSuffices
  <1> QED BY <1>4, <1>5, <1>7, <1>8, <1>9 DEF Ingest

LEMMA AnsweringNext == Answering /\ [StreamNext]_streamVars => Answering'
  <1> SUFFICES ASSUME Answering, [StreamNext]_streamVars PROVE Answering'
    OBVIOUS
  <1>1. CASE LaunchAgent \/ StopAgent \/ \E p \in Proc : Die(p) \/ OnExit(p) \/ Emit(p)
    <2>1. StreamTypeOK' /\ Aside
      BY <1>1, RuntimeTypeStep, AsideStep DEF Answering
    <2> QED BY <2>1, AnsweringAside
  <1>2. ASSUME NEW p \in Proc, Ingest(p) PROVE Answering'
    BY <1>2, AnsweringIngest
  <1>3. CASE UNCHANGED streamVars
    <2> USE <1>3 DEF streamVars
    <2>1. StreamTypeOK' /\ WritersTook' /\ Ordered'
      BY DEF Answering, StreamTypeOK, WritersTook, Ordered
    <2>2. HandsHonest' /\ ResultsAreHonest' /\ CallsAreAnswered'
      BY DEF Answering, HandsHonest, ResultsAreHonest, CallsAreAnswered
    <2> QED BY <2>1, <2>2 DEF Answering
  <1> QED BY <1>1, <1>2, <1>3 DEF StreamNext

LEMMA AnsweringAlways == StreamSpec => []Answering
  BY AnsweringInit, AnsweringNext, PTL DEF StreamSpec

-----------------------------------------------------------------------------
(* RuntimeEventIngestor.#dispatchToolUse and #sendToolResult: the process  *)
(* that hears of its call hears what the tool did, however many processes  *)
(* the runtime id goes through while the result is written.                *)
THEOREM AnswersAreHonest == StreamSpec => []ResultsAreHonest
  BY AnsweringAlways, PTL DEF Answering

(* The same handlers: an executed call is answered to its process, or that *)
(* process died, was stopped or was replaced.                              *)
THEOREM NoCallIsForgotten == StreamSpec => []CallsAreAnswered
  BY AnsweringAlways, PTL DEF Answering
=============================================================================
