--------------------------- MODULE DeliveryProofs ---------------------------
(***************************************************************************)
(* Theorems about Delivery for every set of messages, agents, providers    *)
(* and tasks and every value of the bounds.                                *)
(***************************************************************************)
EXTENDS Delivery, FiniteSetTheorems, TLAPS

USE DeliveryAssumption

-----------------------------------------------------------------------------
(* Type correctness.                                                       *)

DbTypes(at, off, tk) ==
    /\ at \in [Message -> [Mode -> Attempt]]
    /\ off \in [Message -> {"none", "pending", "committed"}]
    /\ tk \in [Task -> TaskState]

LEMMA NextRankNat == NextRank \in Nat
  <1>1. IsFiniteSet({m \in Message : posted[m] > 0})
    BY FS_Subset
  <1> QED BY <1>1, FS_CardinalityType DEF NextRank

(* What the edits of an attempt and of the idle task give.                 *)
LEMMA AttemptEdits ==
  /\ \A a \in Attempt, s \in AttemptState : [a EXCEPT !.state = s] \in Attempt
  /\ \A a \in Attempt, s \in AttemptState, n \in 0..RetryCap :
         [a EXCEPT !.state = s, !.retryCount = n] \in Attempt
  /\ \A a \in Attempt, s \in AttemptState, p \in Payload :
         [a EXCEPT !.state = s, !.payload = p] \in Attempt
  /\ \A a \in Attempt : a.retryCount \in 0..RetryCap
  BY DEF Attempt

LEMMA NoAttemptType == NoAttempt \in Attempt
  BY DEF NoAttempt, Attempt, AttemptState

LEMMA IdleTaskType == IdleTask \in TaskState
  BY DEF IdleTask, TaskState, Mode

LEMMA TaskEdits ==
  ASSUME NEW k \in TaskState, NEW rest \in SUBSET Message, NEW c \in {"idle", "sweep", "waiting", "handed"}
  PROVE  /\ [k EXCEPT !.pc = c, !.todo = rest] \in TaskState
         /\ [k EXCEPT !.pc = c] \in TaskState
  BY DEF TaskState

(* Storing a well-formed attempt keeps the table well formed.              *)
LEMMA SetAttemptType ==
  ASSUME attempt \in [Message -> [Mode -> Attempt]],
         NEW m \in Message, NEW k \in Mode, NEW a \in Attempt, SetAttempt(m, k, a)
  PROVE  attempt' \in [Message -> [Mode -> Attempt]]
  BY DEF SetAttempt

LEMMA ProceedType ==
  ASSUME task \in [Task -> TaskState], NEW t \in Task, NEW rest \in SUBSET Message, Proceed(t, rest)
  PROVE  task' \in [Task -> TaskState]
  <1>1. After(rest) \in TaskState
    BY IdleTaskType, TaskEdits DEF After
  <1> QED BY <1>1 DEF Proceed

LEMMA BegunType ==
  ASSUME TypeOK, NEW m \in Message, NEW b \in Binding
  PROVE  Begun(m, b) \in Attempt
  <1>1. attempt[m][b.mode] \in Attempt
    BY DEF TypeOK, Binding
  <1>2. [NoAttempt EXCEPT !.state = "pending", !.payload = b.payload] \in Attempt
    <2>1. "pending" \in AttemptState /\ b.payload \in Payload
      BY DEF AttemptState, Binding
    <2> QED BY <2>1, NoAttemptType, AttemptEdits
  <1> QED BY <1>1, <1>2 DEF Begun

(* Whichever way deliverMessage goes up to its first await, the rows and   *)
(* the tasks stay well formed.                                             *)
LEMMA DeliverMessageType ==
  ASSUME TypeOK, NEW t \in Task, NEW m \in Message, NEW rest \in SUBSET Message,
         DeliverMessage(t, m, rest)
  PROVE  DbTypes(attempt', offline', task')
  <1> USE DEF TypeOK, DbTypes
  <1>a. directory[To[m]] # None => directory[To[m]] \in Binding
    OBVIOUS
  <1>b. To[m] \in Agent /\ adapters[To[m]] \in 0..MaxLaunches
    OBVIOUS
  <1>c. /\ {"failed_retryable", "queued_for_recipient", "delivering"} \subseteq AttemptState
        /\ 0 \in 0..RetryCap
    BY DEF AttemptState
  <1>1. CASE DeliverOffline(t, m, rest)
    BY <1>1, ProceedType DEF DeliverOffline
  <1>2. CASE DeliverRefused(t, m, rest)
    BY <1>2, ProceedType DEF DeliverRefused
  <1>3. CASE DeliverUnwritable(t, m, rest)
    <2> DEFINE b == directory[To[m]]
    <2>1. b \in Binding /\ b.mode \in Mode
      BY <1>3, <1>a DEF DeliverUnwritable, MayDrive, Binding
    <2>2. [Begun(m, b) EXCEPT !.state = "failed_retryable"] \in Attempt
      BY <2>1, <1>c, BegunType, AttemptEdits
    <2> QED BY <1>3, <2>1, <2>2, SetAttemptType, ProceedType DEF DeliverUnwritable
  <1>4. CASE DeliverStdin(t, m, rest)
    <2> DEFINE b == directory[To[m]]
    <2>1. b \in Binding /\ b.mode \in Mode
      BY <1>4, <1>a DEF DeliverStdin, MayDrive, Binding
    <2>2. Begun(m, b) \in Attempt
      BY <2>1, BegunType
    <2>3. attempt' \in [Message -> [Mode -> Attempt]]
      BY <1>4, <2>1, <2>2, SetAttemptType DEF DeliverStdin
    <2>4. [pc |-> "waiting", msg |-> m, mode |-> b.mode, inc |-> adapters[To[m]],
           retry |-> 0, todo |-> rest] \in TaskState
      BY <2>1, <1>b DEF TaskState
    <2> QED BY <1>4, <2>3, <2>4 DEF DeliverStdin
  <1>5. CASE DeliverParked(t, m, rest)
    <2> DEFINE b == directory[To[m]]
    <2>1. b \in Binding /\ b.mode \in Mode
      BY <1>5, <1>a DEF DeliverParked, MayDrive, Binding
    <2>2. [Begun(m, b) EXCEPT !.state = "queued_for_recipient", !.retryCount = 0] \in Attempt
      BY <2>1, <1>c, BegunType, AttemptEdits
    <2> QED BY <1>5, <2>1, <2>2, SetAttemptType, ProceedType DEF DeliverParked
  <1>6. CASE DeliverSession(t, m, rest)
    <2> DEFINE b == directory[To[m]]
    <2>1. b \in Binding /\ b.mode \in Mode
      BY <1>6, <1>a DEF DeliverSession, MayDrive, Binding
    <2>2. /\ [Begun(m, b) EXCEPT !.state = "delivering"] \in Attempt
          /\ Begun(m, b).retryCount \in 0..RetryCap
      BY <2>1, <1>c, BegunType, AttemptEdits
    <2>3. attempt' \in [Message -> [Mode -> Attempt]]
      BY <1>6, <2>1, <2>2, SetAttemptType DEF DeliverSession
    <2>4. [pc |-> "waiting", msg |-> m, mode |-> b.mode, inc |-> adapters[To[m]],
           retry |-> Begun(m, b).retryCount, todo |-> rest] \in TaskState
      BY <2>1, <2>2, <1>b DEF TaskState
    <2> QED BY <1>6, <2>3, <2>4 DEF DeliverSession
  <1> QED BY <1>1, <1>2, <1>3, <1>4, <1>5, <1>6 DEF DeliverMessage

(* Accept and Reject settle an attempt in flight; that its message is one  *)
(* is all the typing needs beyond TypeOK.                                  *)
FlightTyped == \A t \in Task : InFlight(t) => task[t].msg \in Message

TypeInv == TypeOK /\ FlightTyped

(* A task that does not start driving drives nothing afterwards.           *)
LEMMA ProceedFlight ==
  ASSUME task \in [Task -> TaskState], NEW t \in Task, NEW rest, Proceed(t, rest)
  PROVE  /\ ~InFlight(t)'
         /\ \A u \in Task \ {t} : task'[u] = task[u]
  <1>1. After(rest).pc \notin {"waiting", "handed"}
    BY DEF After, IdleTask
  <1> QED BY <1>1 DEF Proceed, InFlight

LEMMA DeliverMessageFlight ==
  ASSUME TypeInv, NEW t \in Task, NEW m \in Message, NEW rest \in SUBSET Message,
         DeliverMessage(t, m, rest)
  PROVE  FlightTyped'
  <1> USE DEF TypeInv, TypeOK, FlightTyped
  <1>1. ASSUME Proceed(t, rest) PROVE FlightTyped'
    BY <1>1, ProceedFlight DEF InFlight
  <1>2. ASSUME NEW k, k.msg = m, task' = [task EXCEPT ![t] = k] PROVE FlightTyped'
    BY <1>2 DEF InFlight
  <1>3. DeliverStdin(t, m, rest) => FlightTyped'
    BY <1>2 DEF DeliverStdin
  <1>4. DeliverSession(t, m, rest) => FlightTyped'
    BY <1>2 DEF DeliverSession
  <1> QED BY <1>1, <1>3, <1>4
       DEF DeliverMessage, DeliverOffline, DeliverRefused, DeliverUnwritable, DeliverParked

LEMMA TypeInit == Init => TypeInv
  <1> SUFFICES ASSUME Init PROVE TypeInv
    OBVIOUS
  <1>1. TypeOK
    BY NoAttemptType, IdleTaskType DEF Init, TypeOK
  <1>2. FlightTyped
    BY DEF Init, FlightTyped, InFlight, IdleTask
  <1> QED BY <1>1, <1>2 DEF TypeInv

LEMMA PostType ==
  ASSUME TypeOK, NEW m \in Message, Post(m)
  PROVE  posted' \in [Message -> Nat]
  BY NextRankNat DEF TypeOK, Post

(* The list a tick works through holds messages only.                      *)
LEMMA SweepListType ==
  /\ ListMessagesNeedingDelivery \subseteq Needing
  /\ Needing \subseteq Message
  /\ \A S, n : Oldest(S, n) \subseteq S
  BY DEF ListMessagesNeedingDelivery, Oldest, Needing

LEMMA FailedType ==
  ASSUME NEW a \in Attempt, NEW k \in Mode, NEW n \in 0..RetryCap
  PROVE  Failed(a, k, n) \in Attempt
  <1>1. {"failed_retryable", "failed_terminal", "queued_for_recipient"} \subseteq AttemptState
    BY DEF AttemptState
  <1>2. CASE k = "runtime_stdin"
    BY <1>1, <1>2, AttemptEdits DEF Failed
  <1>3. CASE k # "runtime_stdin" /\ n + 1 >= RetryCap
    BY <1>1, <1>3, AttemptEdits DEF Failed
  <1>4. CASE k # "runtime_stdin" /\ ~(n + 1 >= RetryCap)
    <2>1. n + 1 \in 0..RetryCap
      BY <1>4
    <2> QED BY <1>1, <1>4, <2>1, AttemptEdits DEF Failed
  <1> QED BY <1>2, <1>3, <1>4

LEMMA SendType ==
  ASSUME TypeInv, NEW t \in Task, NEW m \in Message, SendMessage(t, m) \/ ResendMessage(t, m)
  PROVE  TypeInv'
  <1>1. posted' \in [Message -> Nat]
    BY PostType DEF SendMessage, ResendMessage, TypeInv, TypeOK
  <1>2. DeliverMessage(t, m, {})
    BY DEF SendMessage, ResendMessage
  <1>3. UNCHANGED <<handed, up, rtVars, crashes, failures>>
    BY DEF SendMessage, ResendMessage
  <1> QED BY <1>1, <1>2, <1>3, DeliverMessageType, DeliverMessageFlight
       DEF TypeInv, TypeOK, DbTypes, rtVars

(* A step of the sweep delivers one message.                               *)
LEMMA SweepStep ==
  ASSUME TypeInv, NEW t \in Task, Tick(t) \/ SweepNext(t)
  PROVE  \E m \in Message, rest \in SUBSET Message : DeliverMessage(t, m, rest)
  <1>1. CASE Tick(t)
    BY <1>1, SweepListType DEF Tick
  <1>2. CASE SweepNext(t)
    <2>1. task[t].todo \subseteq Message
      BY DEF TypeInv, TypeOK, TaskState
    <2> QED BY <1>2, <2>1, SweepListType DEF SweepNext
  <1> QED BY <1>1, <1>2

LEMMA SweepType ==
  ASSUME TypeInv, NEW t \in Task, Tick(t) \/ SweepNext(t)
  PROVE  TypeInv'
  <1>1. PICK m \in Message, rest \in SUBSET Message : DeliverMessage(t, m, rest)
    BY SweepStep
  <1>2. UNCHANGED <<posted, handed, up, rtVars, crashes, failures>>
    BY DEF Tick, SweepNext
  <1> QED BY <1>1, <1>2, DeliverMessageType, DeliverMessageFlight
       DEF TypeInv, TypeOK, DbTypes, rtVars

(* The fields of a task and the row of its message.                        *)
LEMMA TaskFields ==
  ASSUME TypeInv, NEW t \in Task, InFlight(t)
  PROVE  /\ task[t].msg \in Message
         /\ task[t].mode \in Mode
         /\ task[t].retry \in 0..RetryCap
         /\ task[t].todo \in SUBSET Message
         /\ attempt[task[t].msg][task[t].mode] \in Attempt
  BY DEF TypeInv, TypeOK, FlightTyped, TaskState

LEMMA HandOverType ==
  ASSUME TypeInv, NEW t \in Task, HandOver(t)
  PROVE  TypeInv'
  <1>1. task[t].msg \in Message /\ task[t].mode \in Mode
    BY TaskFields DEF HandOver, InFlight
  <1>2. handed' \in [Message -> [Mode -> 0..2]]
    <2> DEFINE h == handed[task[t].msg][task[t].mode]
    <2>1. (IF h < 2 THEN h + 1 ELSE h) \in 0..2
      BY <1>1 DEF TypeInv, TypeOK
    <2>2. handed \in [Message -> [Mode -> 0..2]]
      BY DEF TypeInv, TypeOK
    <2>3. handed' = [handed EXCEPT ![task[t].msg][task[t].mode] = IF h < 2 THEN h + 1 ELSE h]
      BY DEF HandOver
    <2> HIDE DEF h
    <2> QED BY <1>1, <2>1, <2>2, <2>3
  <1>3. task' \in [Task -> TaskState]
    BY TaskEdits DEF HandOver, TypeInv, TypeOK
  <1>4. FlightTyped'
    <2>1. \A u \in Task : task'[u].msg = task[u].msg /\ (InFlight(u)' => InFlight(u))
      BY DEF HandOver, TypeInv, TypeOK, TaskState, InFlight
    <2> QED BY <2>1 DEF TypeInv, FlightTyped
  <1> QED BY <1>2, <1>3, <1>4 DEF HandOver, TypeInv, TypeOK, dbVars, rtVars

LEMMA SettleType ==
  ASSUME TypeInv, NEW t \in Task, Accept(t) \/ Reject(t)
  PROVE  TypeInv'
  <1> DEFINE m == task[t].msg
             k == task[t].mode
  <1>1. InFlight(t)
    BY DEF Accept, Reject, InFlight
  <1>2. PICK a \in Attempt : SetAttempt(m, k, a)
    <2>1. CASE Accept(t)
      <3>1. "accepted_by_runtime" \in AttemptState /\ 0 \in 0..RetryCap
        BY DEF AttemptState
      <3> QED BY <1>1, <2>1, <3>1, TaskFields, AttemptEdits DEF Accept
    <2>2. CASE Reject(t)
      BY <1>1, <2>2, TaskFields, FailedType DEF Reject
    <2> QED BY <2>1, <2>2
  <1>3. attempt' \in [Message -> [Mode -> Attempt]]
    BY <1>1, <1>2, TaskFields, SetAttemptType DEF TypeInv, TypeOK
  <1>4. Proceed(t, task[t].todo)
    BY DEF Accept, Reject
  <1>5. task' \in [Task -> TaskState]
    BY <1>1, <1>4, TaskFields, ProceedType DEF TypeInv, TypeOK
  <1>6. FlightTyped'
    BY <1>4, ProceedFlight DEF TypeInv, TypeOK, FlightTyped, InFlight
  <1>7. failures' \in 0..MaxFailures
    BY DEF Accept, Reject, TypeInv, TypeOK
  <1>8. UNCHANGED <<posted, offline, handed, up, rtVars, crashes>>
    BY DEF Accept, Reject
  <1> QED BY <1>3, <1>5, <1>6, <1>7, <1>8 DEF TypeInv, TypeOK, rtVars

LEMMA ChildSendType ==
  ASSUME TypeInv, NEW m \in Message, ChildSend(m)
  PROVE  TypeInv'
  BY PostType DEF ChildSend, TypeInv, TypeOK, FlightTyped, InFlight, rtVars

LEMMA LaunchType ==
  ASSUME TypeInv, NEW a \in Agent, NEW p \in Provider, Launch(a, p)
  PROVE  TypeInv'
  <1> USE DEF TypeInv, TypeOK
  <1>1. ModeOf(p) \in Mode
    BY DEF ModeOf, Mode
  <1>2. /\ launches + 1 \in 1..MaxLaunches
        /\ launches' = launches + 1
    BY DEF Launch
  <1>3. <<p, IF p \in SessionProvider THEN 0 ELSE launches + 1>> \in Payload
    BY <1>2 DEF Payload
  <1>4. directory' \in [Agent -> Binding \cup {None}]
    BY <1>1, <1>3 DEF Launch, Binding
  <1>5. registry' \in [Agent -> {"none", "stopped"} \cup Mode]
    BY <1>1 DEF Launch
  <1>6. adapters' \in [Agent -> 0..MaxLaunches] /\ live' \subseteq 1..MaxLaunches
    BY <1>2 DEF Launch
  <1> QED BY <1>2, <1>4, <1>5, <1>6 DEF Launch, dbVars, FlightTyped, InFlight

LEMMA RuntimeStepType ==
  ASSUME TypeInv, NEW a \in Agent,
         PromptFails(a) \/ ChildExit(a) \/ SpawnError(a) \/ StopAgent(a) \/ ExitEvent(a)
  PROVE  TypeInv'
  <1> USE DEF PromptFails, ChildExit, SpawnError, StopAgent, ExitEvent, TypeInv, TypeOK
  <1>1. registry' \in [Agent -> {"none", "stopped"} \cup Mode]
    OBVIOUS
  <1>2. directory' \in [Agent -> Binding \cup {None}]
    OBVIOUS
  <1>3. adapters' \in [Agent -> 0..MaxLaunches]
    OBVIOUS
  <1>4. live' \subseteq live
    OBVIOUS
  <1>5. exits' \in [Agent -> SUBSET (0..MaxLaunches)]
    OBVIOUS
  <1>6. UNCHANGED <<dbVars, handed, up, task, launches, crashes, failures>>
    OBVIOUS
  <1> QED BY <1>1, <1>2, <1>3, <1>4, <1>5, <1>6 DEF dbVars, FlightTyped, InFlight

LEMMA LoseMemoryType ==
  ASSUME TypeInv, LoseMemory,
         posted' \in [Message -> Nat],
         offline' \in [Message -> {"none", "pending", "committed"}],
         attempt' \in [Message -> [Mode -> Attempt]]
  PROVE  TypeInv'
  <1>1. FlightTyped'
    BY DEF LoseMemory, FlightTyped, InFlight, IdleTask
  <1>2. task' \in [Task -> TaskState]
    BY IdleTaskType DEF LoseMemory
  <1>3. directory' \in [Agent -> Binding \cup {None}]
    BY DEF LoseMemory
  <1>4. adapters' \in [Agent -> 0..MaxLaunches]
    BY DEF LoseMemory
  <1>5. crashes' \in 0..MaxCrashes
    BY DEF LoseMemory, TypeInv, TypeOK
  <1>6. exits' \in [Agent -> SUBSET (0..MaxLaunches)]
    BY DEF LoseMemory
  <1>7. up' = FALSE /\ live' = {} /\ UNCHANGED <<handed, registry, launches, failures>>
    BY DEF LoseMemory
  <1> QED BY <1>1, <1>2, <1>3, <1>4, <1>5, <1>6, <1>7 DEF TypeInv, TypeOK

LEMMA CrashType ==
  ASSUME TypeInv, Crash
  PROVE  TypeInv'
  BY LoseMemoryType DEF Crash, dbVars, TypeInv, TypeOK

LEMMA CrashInSendType ==
  ASSUME TypeInv, NEW m \in Message, CrashInSend(m)
  PROVE  TypeInv'
  <1>1. posted' \in [Message -> Nat]
    BY PostType DEF CrashInSend, TypeInv
  <1>2. offline' \in [Message -> {"none", "pending", "committed"}]
    BY DEF CrashInSend, TypeInv, TypeOK
  <1>3. attempt' \in [Message -> [Mode -> Attempt]]
    <2>1. CASE UNCHANGED attempt
      BY <2>1 DEF TypeInv, TypeOK
    <2>2. CASE directory[To[m]] # None /\ SetAttempt(m, directory[To[m]].mode, Begun(m, directory[To[m]]))
      <3>1. directory[To[m]] \in Binding /\ directory[To[m]].mode \in Mode
        BY <2>2 DEF TypeInv, TypeOK, Binding
      <3> QED BY <2>2, <3>1, BegunType, SetAttemptType DEF TypeInv, TypeOK
    <2> QED BY <2>1, <2>2 DEF CrashInSend
  <1> QED BY <1>1, <1>2, <1>3, LoseMemoryType DEF CrashInSend

LEMMA ResetStaleType == \A a \in Attempt : ResetStale(a) \in Attempt
  <1>1. "queued_for_recipient" \in AttemptState
    BY DEF AttemptState
  <1> QED BY <1>1, AttemptEdits DEF ResetStale

LEMMA BootType ==
  ASSUME TypeInv, Boot
  PROVE  TypeInv'
  <1> USE DEF TypeInv, TypeOK
  <1>1. attempt' \in [Message -> [Mode -> Attempt]]
    BY ResetStaleType DEF Boot, ResetStaleSessionInFlight, Mode
  <1>2. registry' \in [Agent -> {"none", "stopped"} \cup Mode]
    BY DEF Boot, ReconcileOrphans
  <1>3. offline' \in [Message -> {"none", "pending", "committed"}]
    BY DEF Boot
  <1> QED BY <1>1, <1>2, <1>3 DEF Boot, FlightTyped, InFlight

LEMMA TypeNext == TypeInv /\ [Next]_vars => TypeInv'
  <1> SUFFICES ASSUME TypeInv, [Next]_vars PROVE TypeInv'
    OBVIOUS
  <1>1. CASE UNCHANGED vars
    BY <1>1 DEF vars, TypeInv, TypeOK, FlightTyped, InFlight
  <1>2. CASE Next
    BY <1>2, SendType, SweepType, HandOverType, SettleType, ChildSendType, LaunchType,
       RuntimeStepType, CrashType, CrashInSendType, BootType
       DEF Next, Progress
  <1> QED BY <1>1, <1>2

(* Every value the broker, the directory and the tasks hold has its type,  *)
(* and a delivery in flight is always one of a stored message.             *)
THEOREM TypeCorrect == Spec => []TypeOK
  <1>1. Init => TypeInv
    BY TypeInit
  <1>2. TypeInv /\ [Next]_vars => TypeInv'
    BY TypeNext
  <1>3. TypeInv => TypeOK
    BY DEF TypeInv
  <1> QED BY <1>1, <1>2, <1>3, PTL DEF Spec

-----------------------------------------------------------------------------
(***************************************************************************)
(* The claim a session delivery takes on its row (markDeliveryInFlight) is *)
(* exclusive, always owned by a task while the sidecar runs, and never     *)
(* taken again once the attempt was accepted.                              *)
(***************************************************************************)

(* Nothing runs while the sidecar is down.                                 *)
DownIdle == ~up => \A t \in Task : task[t].pc = "idle"

(* The inductive invariant: exclusivity needs that a driven row says       *)
(* `delivering`, for that is what the gate of a second task looks at, and  *)
(* the return of the claims by a boot needs that no task survived.         *)
ClaimInv == TypeInv /\ DownIdle /\ ClaimHasOwner /\ SessionClaimExclusive

Claimed(n) == SessionState(n) = "delivering"

-----------------------------------------------------------------------------
(* How the steps of a delivery move claims.                                *)

(* Steps that leave who drives what, and what is claimed, as it was.       *)
SameClaims ==
    /\ \A n \in Message : Claimed(n)' <=> Claimed(n)
    /\ \A t \in Task, n \in Message : Drives(t, n)' <=> Drives(t, n)

(* Task t, which drove nothing, takes the claim of m, which nobody had.    *)
TakesClaim(t, m) ==
    /\ ~Claimed(m) /\ Claimed(m)' /\ Drives(t, m)'
    /\ \A n \in Message : ~Drives(t, n)
    /\ \A n \in Message \ {m} : (Claimed(n)' <=> Claimed(n)) /\ ~Drives(t, n)'
    /\ \A u \in Task \ {t}, n \in Message : Drives(u, n)' <=> Drives(u, n)

(* Task t, which drove m, gives its claim back.                            *)
ReturnsClaim(t, m) ==
    /\ ~Claimed(m)' /\ Drives(t, m)
    /\ \A n \in Message \ {m} : Claimed(n)' <=> Claimed(n)
    /\ \A n \in Message : ~Drives(t, n)'
    /\ \A u \in Task \ {t}, n \in Message : Drives(u, n)' <=> Drives(u, n)

(* The outcome of an accepted session attempt stays.                       *)
KeepsAccepted ==
    \A n \in Message : SessionState(n) = "accepted_by_runtime" =>
                           SessionState(n)' = "accepted_by_runtime"

LEMMA SetAttemptSession ==
  ASSUME attempt \in [Message -> [Mode -> Attempt]],
         NEW m \in Message, NEW k \in Mode, NEW a, SetAttempt(m, k, a)
  PROVE  \A n \in Message : attempt'[n]["session_turn"] =
             IF n = m /\ k = "session_turn" THEN a ELSE attempt[n]["session_turn"]
  BY DEF SetAttempt, Mode

LEMMA EditedState ==
  /\ \A a \in Attempt : \A s : [a EXCEPT !.state = s].state = s
  /\ \A a \in Attempt : \A s, n : [a EXCEPT !.state = s, !.retryCount = n].state = s
  BY DEF Attempt

(* A task that was not driving and goes on with its list drives nothing.   *)
LEMMA ProceedDrives ==
  ASSUME TypeInv, NEW t \in Task, NEW rest, Proceed(t, rest)
  PROVE  /\ \A n \in Message : ~Drives(t, n)'
         /\ \A u \in Task \ {t}, n \in Message : Drives(u, n)' <=> Drives(u, n)
  <1>1. ~InFlight(t)' /\ \A u \in Task \ {t} : task'[u] = task[u]
    BY ProceedFlight DEF TypeInv, TypeOK
  <1> QED BY <1>1 DEF Drives, InFlight

LEMMA DeliverClaims ==
  ASSUME TypeInv, NEW t \in Task, NEW m \in Message, NEW rest \in SUBSET Message,
         ~InFlight(t), DeliverMessage(t, m, rest)
  PROVE  /\ SameClaims \/ TakesClaim(t, m)
         /\ KeepsAccepted
  <1> DEFINE b == directory[To[m]]
  <1>1. attempt \in [Message -> [Mode -> Attempt]] /\ task \in [Task -> TaskState]
    BY DEF TypeInv, TypeOK
  <1>2. ASSUME MayDrive(m)
        PROVE  /\ b \in Binding /\ b.mode \in Mode
               /\ Begun(m, b) \in Attempt
               /\ b.mode = "session_turn" =>
                    SessionState(m) \notin {"delivering", "accepted_by_runtime"}
    <2>1. b \in Binding /\ b.mode \in Mode
      <3>1. b # None /\ b \in Binding \cup {None}
        BY <1>2 DEF MayDrive, TypeInv, TypeOK
      <3> QED BY <3>1 DEF Binding
    <2>2. b.mode = "session_turn" =>
              SessionState(m) \notin {"delivering", "accepted_by_runtime"}
      BY <1>2 DEF MayDrive, Settled, SessionState
    <2> QED BY <2>1, <2>2, BegunType DEF TypeInv
  <1>3. ASSUME \A n \in Message : attempt'[n]["session_turn"] = attempt[n]["session_turn"]
        PROVE  KeepsAccepted /\ \A n \in Message : Claimed(n)' <=> Claimed(n)
    BY <1>3 DEF KeepsAccepted, Claimed, SessionState
  <1>4. ASSUME Proceed(t, rest), \A n \in Message : Claimed(n)' <=> Claimed(n)
        PROVE  SameClaims
    BY <1>4, ProceedDrives DEF SameClaims, Drives
  <1>5. CASE DeliverOffline(t, m, rest) \/ DeliverRefused(t, m, rest)
    BY <1>3, <1>4, <1>5 DEF DeliverOffline, DeliverRefused
  <1>6. CASE DeliverUnwritable(t, m, rest)
    <2>1. \A n \in Message : attempt'[n]["session_turn"] = attempt[n]["session_turn"]
      BY <1>1, <1>2, <1>6, SetAttemptSession DEF DeliverUnwritable
    <2> QED BY <1>3, <1>4, <1>6, <2>1 DEF DeliverUnwritable
  <1>7. CASE DeliverStdin(t, m, rest)
    <2>1. \A n \in Message : attempt'[n]["session_turn"] = attempt[n]["session_turn"]
      BY <1>1, <1>2, <1>7, SetAttemptSession DEF DeliverStdin
    <2>2. /\ task'[t].mode = "runtime_stdin"
          /\ \A u \in Task \ {t} : task'[u] = task[u]
      BY <1>1, <1>7 DEF DeliverStdin
    <2> QED BY <1>3, <2>1, <2>2 DEF SameClaims, Drives, InFlight
  <1>8. CASE DeliverParked(t, m, rest)
    <2>1. \A n \in Message \ {m} : attempt'[n]["session_turn"] = attempt[n]["session_turn"]
      BY <1>1, <1>2, <1>8, SetAttemptSession DEF DeliverParked
    <2>2. MayDrive(m) /\ b.mode = "session_turn"
      BY <1>8 DEF DeliverParked
    <2>3. SessionState(m)' = "queued_for_recipient"
      <3>1. attempt'[m]["session_turn"] = [Begun(m, b) EXCEPT !.state = "queued_for_recipient", !.retryCount = 0]
        BY <1>1, <1>2, <1>8, <2>2, SetAttemptSession DEF DeliverParked
      <3> QED BY <1>2, <2>2, <3>1, EditedState DEF SessionState
    <2>4. KeepsAccepted /\ \A n \in Message : Claimed(n)' <=> Claimed(n)
      BY <1>2, <2>1, <2>2, <2>3 DEF KeepsAccepted, Claimed, SessionState
    <2> QED BY <1>4, <1>8, <2>4 DEF DeliverParked
  <1>9. CASE DeliverSession(t, m, rest)
    <2>1. \A n \in Message \ {m} : attempt'[n]["session_turn"] = attempt[n]["session_turn"]
      BY <1>1, <1>2, <1>9, SetAttemptSession DEF DeliverSession
    <2>2. MayDrive(m) /\ b.mode = "session_turn"
      BY <1>9 DEF DeliverSession
    <2>3. SessionState(m)' = "delivering"
      <3>1. attempt'[m]["session_turn"] = [Begun(m, b) EXCEPT !.state = "delivering"]
        BY <1>1, <1>2, <1>9, <2>2, SetAttemptSession DEF DeliverSession
      <3> QED BY <1>2, <2>2, <3>1, EditedState DEF SessionState
    <2>4. KeepsAccepted /\ ~Claimed(m) /\ Claimed(m)'
      BY <1>2, <2>1, <2>2, <2>3 DEF KeepsAccepted, Claimed, SessionState
    <2>5. /\ task'[t].msg = m /\ task'[t].mode = "session_turn" /\ task'[t].pc = "waiting"
          /\ \A u \in Task \ {t} : task'[u] = task[u]
      BY <1>1, <1>9, <2>2 DEF DeliverSession
    <2>6. TakesClaim(t, m)
      BY <2>1, <2>4, <2>5 DEF TakesClaim, Drives, InFlight, Claimed, SessionState
    <2> QED BY <2>4, <2>6
  <1> QED BY <1>5, <1>6, <1>7, <1>8, <1>9 DEF DeliverMessage

LEMMA SettleClaims ==
  ASSUME ClaimInv, up, NEW t \in Task, Accept(t) \/ Reject(t),
         NEW m \in Message, m = task[t].msg
  PROVE  /\ SameClaims \/ ReturnsClaim(t, m)
         /\ KeepsAccepted
  <1>0. PICK k \in Mode : k = task[t].mode
    BY TaskFields DEF ClaimInv, Accept, Reject, InFlight
  <1>1. InFlight(t)
    BY DEF Accept, Reject, InFlight
  <1>2. attempt[m][k] \in Attempt
    BY <1>0, <1>1, TaskFields DEF ClaimInv
  <1>3. TypeInv /\ attempt \in [Message -> [Mode -> Attempt]]
    BY DEF ClaimInv, TypeInv, TypeOK
  <1>4. PICK a : SetAttempt(m, k, a) /\ a.state # "delivering"
    <2>1. CASE Accept(t)
      <3> DEFINE new == [attempt[m][k] EXCEPT !.state = "accepted_by_runtime", !.retryCount = 0]
      <3>1. SetAttempt(m, k, new)
        BY <1>0, <2>1 DEF Accept
      <3>2. new.state # "delivering"
        BY <1>2, EditedState
      <3> QED BY <3>1, <3>2
    <2>2. CASE Reject(t)
      <3>1. SetAttempt(m, k, Failed(attempt[m][k], k, task[t].retry))
        BY <1>0, <2>2 DEF Reject
      <3>2. Failed(attempt[m][k], k, task[t].retry).state # "delivering"
        BY <1>2, EditedState DEF Failed
      <3> QED BY <3>1, <3>2
    <2> QED BY <2>1, <2>2
  <1>5. /\ \A n \in Message : ~Drives(t, n)'
        /\ \A u \in Task \ {t}, n \in Message : Drives(u, n)' <=> Drives(u, n)
    BY <1>3, ProceedDrives DEF Accept, Reject
  <1>6. CASE k = "session_turn"
    <2>1. Drives(t, m) /\ Claimed(m)
      BY <1>0, <1>1, <1>6 DEF Drives, ClaimInv, ClaimHasOwner, Claimed
    <2>2. attempt'[m]["session_turn"] = a
      BY <1>2, <1>3, <1>4, <1>6, SetAttemptSession
    <2>3. \A n \in Message \ {m} : attempt'[n]["session_turn"] = attempt[n]["session_turn"]
      BY <1>2, <1>3, <1>4, SetAttemptSession
    <2>4. KeepsAccepted /\ ~Claimed(m)'
      <3>1. SessionState(m)' # "delivering" /\ SessionState(m) # "accepted_by_runtime"
        <4>1. SessionState(m)' = a.state
          BY <2>2 DEF SessionState
        <4>2. SessionState(m) = "delivering"
          BY <2>1 DEF Claimed
        <4> QED BY <1>4, <4>1, <4>2
      <3>2. \A n \in Message \ {m} : SessionState(n)' = SessionState(n)
        BY <2>3 DEF SessionState
      <3> QED BY <3>1, <3>2 DEF KeepsAccepted, Claimed
    <2>5. ReturnsClaim(t, m)
      BY <1>5, <2>1, <2>3, <2>4 DEF ReturnsClaim, Claimed, SessionState
    <2> QED BY <2>4, <2>5
  <1>7. CASE k # "session_turn"
    <2>1. \A n \in Message : attempt'[n]["session_turn"] = attempt[n]["session_turn"]
      BY <1>2, <1>3, <1>4, <1>7, SetAttemptSession
    <2>2. \A n \in Message : ~Drives(t, n)
      BY <1>0, <1>7 DEF Drives
    <2> QED BY <1>5, <2>1, <2>2 DEF SameClaims, KeepsAccepted, Claimed, SessionState
  <1> QED BY <1>6, <1>7

LEMMA HandOverClaims ==
  ASSUME TypeInv, NEW t \in Task, HandOver(t)
  PROVE  SameClaims /\ KeepsAccepted
  <1>1. \A u \in Task : /\ task'[u].msg = task[u].msg /\ task'[u].mode = task[u].mode
                        /\ InFlight(u)' <=> InFlight(u)
    BY DEF HandOver, TypeInv, TypeOK, TaskState, InFlight
  <1>2. attempt' = attempt
    BY DEF HandOver, dbVars
  <1> QED BY <1>1, <1>2 DEF SameClaims, KeepsAccepted, Claimed, SessionState, Drives

-----------------------------------------------------------------------------
(* The steps that keep ClaimInv: its parts beside TypeInv.                 *)

ClaimParts == DownIdle /\ ClaimHasOwner /\ SessionClaimExclusive

LEMMA MovesKeep ==
  ASSUME ClaimInv, up, up' = up, NEW t \in Task, NEW m \in Message,
         SameClaims \/ TakesClaim(t, m) \/ ReturnsClaim(t, m)
  PROVE  ClaimParts'
  <1>1. DownIdle'
    BY DEF DownIdle
  <1>2. CASE SameClaims
    BY <1>1, <1>2 DEF SameClaims, Claimed, ClaimInv, ClaimParts, ClaimHasOwner, SessionClaimExclusive
  <1>3. CASE TakesClaim(t, m)
    <2>1. ClaimHasOwner'
      <3>1. ASSUME NEW n \in Message PROVE Claimed(n)' <=> \E u \in Task : Drives(u, n)'
        <4>1. CASE n = m
          BY <1>3, <4>1 DEF TakesClaim
        <4>2. CASE n # m
          <5>1. Claimed(n)' <=> \E u \in Task : Drives(u, n)
            BY <1>3, <4>2 DEF TakesClaim, Claimed, ClaimInv, ClaimHasOwner
          <5> QED BY <1>3, <4>2, <5>1 DEF TakesClaim
        <4> QED BY <4>1, <4>2
      <3> QED BY <3>1 DEF Claimed, ClaimHasOwner
    <2>2. SessionClaimExclusive'
      BY <1>3 DEF TakesClaim, Claimed, ClaimInv, ClaimHasOwner, SessionClaimExclusive
    <2> QED BY <1>1, <2>1, <2>2 DEF ClaimParts
  <1>4. CASE ReturnsClaim(t, m)
    <2>1. ClaimHasOwner'
      <3>1. ASSUME NEW n \in Message PROVE Claimed(n)' <=> \E u \in Task : Drives(u, n)'
        <4>1. CASE n = m
          BY <1>4, <4>1 DEF ReturnsClaim, ClaimInv, SessionClaimExclusive
        <4>2. CASE n # m
          <5>1. Claimed(n)' <=> \E u \in Task : Drives(u, n)
            BY <1>4, <4>2 DEF ReturnsClaim, Claimed, ClaimInv, ClaimHasOwner
          <5>2. ~Drives(t, n)
            BY <1>4, <4>2 DEF ReturnsClaim, Drives
          <5> QED BY <1>4, <5>1, <5>2 DEF ReturnsClaim
        <4> QED BY <4>1, <4>2
      <3> QED BY <3>1 DEF Claimed, ClaimHasOwner
    <2>2. SessionClaimExclusive'
      BY <1>4 DEF ReturnsClaim, ClaimInv, SessionClaimExclusive
    <2> QED BY <1>1, <2>1, <2>2 DEF ClaimParts
  <1> QED BY <1>2, <1>3, <1>4

(* A step that touches neither the rows nor the tasks moves no claim.      *)
LEMMA QuietClaims ==
  ASSUME UNCHANGED <<attempt, task>>
  PROVE  SameClaims /\ KeepsAccepted
  BY DEF SameClaims, KeepsAccepted, Claimed, SessionState, Drives, InFlight

(* A crash leaves no task.                                                 *)
LEMMA LoseMemoryClaims ==
  ASSUME LoseMemory
  PROVE  ClaimParts' /\ \A t \in Task, n \in Message : ~Drives(t, n)'
  BY DEF LoseMemory, IdleTask, ClaimParts, DownIdle, ClaimHasOwner, SessionClaimExclusive,
         Drives, InFlight

LEMMA CrashInSendAccepted ==
  ASSUME TypeInv, NEW m \in Message, CrashInSend(m)
  PROVE  KeepsAccepted
  <1> DEFINE b == directory[To[m]]
  <1>1. CASE UNCHANGED attempt
    BY <1>1 DEF KeepsAccepted, SessionState
  <1>2. CASE b # None /\ SetAttempt(m, b.mode, Begun(m, b))
    <2>1. b \in Binding /\ b.mode \in Mode
      BY <1>2 DEF TypeInv, TypeOK, Binding
    <2>2. \A n \in Message : attempt'[n]["session_turn"] =
              IF n = m /\ b.mode = "session_turn" THEN Begun(m, b) ELSE attempt[n]["session_turn"]
      BY <1>2, <2>1, SetAttemptSession DEF TypeInv, TypeOK
    <2>3. b.mode = "session_turn" /\ SessionState(m) # "none" => Begun(m, b) = attempt[m]["session_turn"]
      BY DEF Begun, SessionState
    <2> QED BY <2>2, <2>3 DEF KeepsAccepted, SessionState
  <1> QED BY <1>1, <1>2 DEF CrashInSend

(* A boot returns every claim, and there is no task to own one.            *)
LEMMA BootClaims ==
  ASSUME ClaimInv, Boot
  PROVE  ClaimParts' /\ KeepsAccepted /\ \A t \in Task, n \in Message : ~Drives(t, n)'
  <1>1. \A t \in Task : task'[t].pc = "idle"
    BY DEF Boot, ClaimInv, DownIdle
  <1>2. \A t \in Task, n \in Message : ~Drives(t, n)'
    BY <1>1 DEF Drives, InFlight
  <1>3. \A n \in Message : attempt'[n]["session_turn"] = ResetStale(attempt[n]["session_turn"])
    BY DEF Boot, ResetStaleSessionInFlight, ClaimInv, TypeInv, TypeOK, Mode
  <1>4. ASSUME NEW n \in Message
        PROVE  /\ SessionState(n)' # "delivering"
               /\ SessionState(n) = "accepted_by_runtime" => SessionState(n)' = SessionState(n)
    <2>1. attempt[n]["session_turn"] \in Attempt
      BY DEF ClaimInv, TypeInv, TypeOK, Mode
    <2>2. CASE SessionState(n) = "delivering"
      <3>1. attempt'[n]["session_turn"] =
                [attempt[n]["session_turn"] EXCEPT !.state = "queued_for_recipient"]
        BY <1>3, <2>2 DEF ResetStale, SessionState
      <3> QED BY <2>1, <2>2, <3>1, EditedState DEF SessionState
    <2>3. CASE SessionState(n) # "delivering"
      BY <1>3, <2>3 DEF ResetStale, SessionState
    <2> QED BY <2>2, <2>3
  <1> QED BY <1>1, <1>2, <1>4
       DEF ClaimParts, DownIdle, ClaimHasOwner, SessionClaimExclusive, KeepsAccepted

(* Every step keeps the invariant, and never undoes an acceptance.         *)
LEMMA ClaimNext ==
  ASSUME ClaimInv, Next
  PROVE  ClaimParts' /\ KeepsAccepted
  <1> USE DEF ClaimInv
  <1>1. ASSUME NEW t \in Task, NEW m \in Message, SendMessage(t, m) \/ ResendMessage(t, m)
        PROVE  ClaimParts' /\ KeepsAccepted
    <2>1. up /\ up' = up /\ ~InFlight(t) /\ DeliverMessage(t, m, {})
      BY <1>1 DEF SendMessage, ResendMessage, Idle, InFlight
    <2> QED BY <2>1, DeliverClaims, MovesKeep
  <1>2. ASSUME NEW t \in Task, Tick(t) \/ SweepNext(t)
        PROVE  ClaimParts' /\ KeepsAccepted
    <2>1. up /\ up' = up /\ ~InFlight(t)
      BY <1>2 DEF Tick, SweepNext, Idle, InFlight, DownIdle
    <2>2. PICK m \in Message, rest \in SUBSET Message : DeliverMessage(t, m, rest)
      BY <1>2, SweepStep
    <2> QED BY <2>1, <2>2, DeliverClaims, MovesKeep
  <1>3. ASSUME NEW t \in Task, HandOver(t)
        PROVE  ClaimParts' /\ KeepsAccepted
    <2>1. up /\ up' = up
      BY <1>3 DEF HandOver, DownIdle
    <2>2. PICK m \in Message : m = task[t].msg
      BY <1>3, TaskFields DEF HandOver, InFlight
    <2> QED BY <1>3, <2>1, <2>2, HandOverClaims, MovesKeep
  <1>4. ASSUME NEW t \in Task, Accept(t) \/ Reject(t)
        PROVE  ClaimParts' /\ KeepsAccepted
    <2>1. up /\ up' = up
      BY <1>4 DEF Accept, Reject, DownIdle
    <2>2. PICK m \in Message : m = task[t].msg
      BY <1>4, TaskFields DEF Accept, Reject, InFlight
    <2> QED BY <1>4, <2>1, <2>2, SettleClaims, MovesKeep
  <1>5. ASSUME UNCHANGED <<attempt, task, up>>
        PROVE  ClaimParts' /\ KeepsAccepted
    BY <1>5, QuietClaims
       DEF SameClaims, Claimed, ClaimParts, DownIdle, ClaimHasOwner, SessionClaimExclusive
  <1>6. ASSUME NEW m \in Message, ChildSend(m)
        PROVE  ClaimParts' /\ KeepsAccepted
    BY <1>5, <1>6 DEF ChildSend
  <1>7. ASSUME NEW a \in Agent, NEW p \in Provider, Launch(a, p)
        PROVE  ClaimParts' /\ KeepsAccepted
    BY <1>5, <1>7 DEF Launch, dbVars
  <1>8. ASSUME NEW a \in Agent,
               PromptFails(a) \/ ChildExit(a) \/ SpawnError(a) \/ StopAgent(a) \/ ExitEvent(a)
        PROVE  ClaimParts' /\ KeepsAccepted
    BY <1>5, <1>8 DEF PromptFails, ChildExit, SpawnError, StopAgent, ExitEvent, dbVars
  <1>9. CASE Crash
    BY <1>9, LoseMemoryClaims DEF Crash, dbVars, KeepsAccepted, SessionState
  <1>10. ASSUME NEW m \in Message, CrashInSend(m)
         PROVE  ClaimParts' /\ KeepsAccepted
    BY <1>10, LoseMemoryClaims, CrashInSendAccepted DEF CrashInSend
  <1>11. CASE Boot
    BY <1>11, BootClaims
  <1> QED BY <1>1, <1>2, <1>3, <1>4, <1>6, <1>7, <1>8, <1>9, <1>10, <1>11 DEF Next, Progress

LEMMA ClaimInductive == ClaimInv /\ [Next]_vars => ClaimInv'
  <1> SUFFICES ASSUME ClaimInv, [Next]_vars PROVE ClaimInv'
    OBVIOUS
  <1>1. TypeInv'
    BY TypeNext DEF ClaimInv
  <1>2. CASE Next
    BY <1>1, <1>2, ClaimNext DEF ClaimInv, ClaimParts
  <1>3. CASE UNCHANGED vars
    BY <1>1, <1>3 DEF vars, ClaimInv, DownIdle, ClaimHasOwner, SessionClaimExclusive, SessionState,
                      Drives, InFlight
  <1> QED BY <1>2, <1>3

LEMMA ClaimInit == Init => ClaimInv
  <1> SUFFICES ASSUME Init PROVE ClaimInv
    OBVIOUS
  <1>1. \A t \in Task, n \in Message : ~Drives(t, n)
    BY DEF Init, Drives, InFlight, IdleTask
  <1>2. \A n \in Message : SessionState(n) # "delivering"
    BY DEF Init, SessionState, NoAttempt, Mode
  <1>3. TypeInv
    BY TypeInit
  <1> QED BY <1>1, <1>2, <1>3 DEF ClaimInv, DownIdle, ClaimHasOwner, SessionClaimExclusive, Init

LEMMA ClaimAlways == Spec => []ClaimInv
  BY ClaimInit, ClaimInductive, PTL DEF Spec

-----------------------------------------------------------------------------
(* No two tasks ever drive the turn of one message.                        *)
THEOREM ClaimIsExclusive == Spec => []SessionClaimExclusive
  BY ClaimAlways, PTL DEF ClaimInv

(* A row says `delivering` exactly while a task of the running sidecar     *)
(* will settle it.                                                         *)
THEOREM ClaimIsOwned == Spec => []ClaimHasOwner
  BY ClaimAlways, PTL DEF ClaimInv

(* An accepted session attempt stays accepted and no turn is ever started  *)
(* for it again.                                                           *)
THEOREM AcceptanceIsFinal == Spec => AcceptedIsFinal
  <1> DEFINE Step == \A m \in Message : SessionState(m) = "accepted_by_runtime" =>
                         /\ SessionState(m)' = "accepted_by_runtime"
                         /\ \A t \in Task : ~Drives(t, m)'
  <1>1. ASSUME ClaimInv, ClaimInv', Next PROVE Step
    <2>1. SUFFICES ASSUME NEW m \in Message, SessionState(m) = "accepted_by_runtime"
                   PROVE  /\ SessionState(m)' = "accepted_by_runtime"
                          /\ \A t \in Task : ~Drives(t, m)'
      OBVIOUS
    <2>2. SessionState(m)' = "accepted_by_runtime"
      BY <1>1, <2>1, ClaimNext DEF KeepsAccepted
    <2>3. CASE up'
      <3>1. \A t \in Task : ~Drives(t, m)'
        BY <1>1, <2>2, <2>3 DEF ClaimInv, ClaimHasOwner
      <3> QED BY <2>2, <3>1
    <2>4. CASE ~up'
      <3>1. \A t \in Task : ~Drives(t, m)'
        BY <1>1, <2>4 DEF ClaimInv, DownIdle, Drives, InFlight
      <3> QED BY <2>2, <3>1
    <2> QED BY <2>3, <2>4
  <1>2. ClaimInv /\ ClaimInv' /\ [Next]_vars => [Step]_vars
    BY <1>1
  <1> HIDE DEF Step
  <1>3. Spec => [][Step]_vars
    BY <1>2, ClaimAlways, PTL DEF Spec
  <1> QED BY <1>3 DEF AcceptedIsFinal, Step

=============================================================================
