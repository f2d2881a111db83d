------------------------------ MODULE Delivery ------------------------------
(***************************************************************************)
(* Delivery of agent-to-agent messages: the SQLite broker (messages and    *)
(* delivery_attempts), the DeliveryWorker of the main sidecar, its retry   *)
(* sweep, the in-memory runtime directory and adapter map, and the MCP     *)
(* children that post into the same database without any live adapter.     *)
(*                                                                         *)
(* deliverMessage runs to its first `await` in one step of the event loop, *)
(* so that prefix is one action; every await after it (the adapter's       *)
(* sendTurn) is a point where other asynchronous tasks, the operator and   *)
(* crashes interleave.  A task t is one running deliverMessage call, alone *)
(* (a message_send) or inside a tick of the sweep.                         *)
(*                                                                         *)
(* Bounds: MaxLaunches incarnations, MaxCrashes crashes of the sidecar and *)
(* MaxFailures turns a live adapter refuses.                               *)
(***************************************************************************)
EXTENDS Naturals, FiniteSets

CONSTANTS
    Message,          \* the messages agents may send
    Agent,            \* the recipients
    To,               \* To[m]: the agent message m is addressed to
    Provider,         \* the agent CLIs an agent can be launched with
    SessionProvider,  \* those driven one process per turn (codex, gemini, opencode)
    Task,             \* asynchronous deliverMessage calls of the main sidecar
    SweepLimit,       \* listMessagesNeedingDelivery({ limit })
    RetryCap,         \* SESSION_WAKE_RETRY_CAP
    MaxLaunches, MaxCrashes, MaxFailures,
    None              \* "no message", "no binding"

ASSUME DeliveryAssumption ==
    /\ IsFiniteSet(Message)
    /\ To \in [Message -> Agent]
    /\ SessionProvider \subseteq Provider
    /\ SweepLimit \in Nat \ {0}
    /\ RetryCap \in Nat \ {0}
    /\ MaxLaunches \in Nat
    /\ MaxCrashes \in Nat
    /\ MaxFailures \in Nat
    /\ None \notin Message

VARIABLES
    posted,     \* rank of each message in (created_at, message_id) order, 0 = not posted
    offline,    \* its offline_queue attempt: "none", "pending" or "committed"
    attempt,    \* its attempt per live delivery mode (row of delivery_attempts)
    handed,     \* history: how often its text went to an agent process in each mode
                \* (2 stands for twice or more)
    up,         \* the main sidecar is running
    registry,   \* runtime_instances row per agent, in the database: "none", "stopped",
                \* or running with the delivery mode it was launched in
    directory,  \* RuntimeDirectory: the binding an agent resolves to, None if unregistered
    adapters,   \* LocalToadRuntime.adapters: incarnation of the agent's adapter, 0 = none
    live,       \* incarnations whose child (stdin) or session is still running
    exits,      \* children stopAgent killed whose 'exit' event has not fired yet
    task,       \* the deliverMessage calls in progress
    launches, crashes, failures

dbVars  == <<posted, offline, attempt>>
rtVars  == <<registry, directory, adapters, live, exits, launches>>
vars    == <<posted, offline, attempt, handed, up, registry, directory, adapters,
             live, exits, task, launches, crashes, failures>>

-----------------------------------------------------------------------------
Mode == {"runtime_stdin", "session_turn"}

ModeOf(p) == IF p \in SessionProvider THEN "session_turn" ELSE "runtime_stdin"

(* status and response_state of an attempt in one value: the last three    *)
(* but the failed ones are status = 'committed'.                           *)
AttemptState == {"none", "pending", "failed_retryable", "failed_terminal",
                 "queued_for_recipient", "delivering", "accepted_by_runtime"}

(* What hashDeliveryPayload tells apart for one message: the metadata of   *)
(* the resolved binding, that is the provider and, for a child process,    *)
(* its pid.                                                                *)
Payload == Provider \X (0..MaxLaunches)

Attempt == [state : AttemptState, retryCount : 0..RetryCap, payload : Payload \cup {None}]

NoAttempt == [state |-> "none", retryCount |-> 0, payload |-> None]

Binding == [mode : Mode, payload : Payload]

IdleTask == [pc |-> "idle", msg |-> None, mode |-> "session_turn", inc |-> 0,
             retry |-> 0, todo |-> {}]

TaskState == [pc : {"idle", "sweep", "waiting", "handed"},
              msg : Message \cup {None},
              mode : Mode,
              inc : 0..MaxLaunches,
              retry : 0..RetryCap,      \* begin.attempt.receipt.retryCount
              todo : SUBSET Message]    \* what is left of the sweep's list

TypeOK ==
    /\ posted \in [Message -> Nat]
    /\ offline \in [Message -> {"none", "pending", "committed"}]
    /\ attempt \in [Message -> [Mode -> Attempt]]
    /\ handed \in [Message -> [Mode -> 0..2]]
    /\ up \in BOOLEAN
    /\ registry \in [Agent -> {"none", "stopped"} \cup Mode]
    /\ directory \in [Agent -> Binding \cup {None}]
    /\ adapters \in [Agent -> 0..MaxLaunches]
    /\ live \subseteq 1..MaxLaunches
    /\ exits \in [Agent -> SUBSET (0..MaxLaunches)]
    /\ task \in [Task -> TaskState]
    /\ launches \in 0..MaxLaunches
    /\ crashes \in 0..MaxCrashes
    /\ failures \in 0..MaxFailures

Init ==
    /\ posted = [m \in Message |-> 0]
    /\ offline = [m \in Message |-> "none"]
    /\ attempt = [m \in Message |-> [k \in Mode |-> NoAttempt]]
    /\ handed = [m \in Message |-> [k \in Mode |-> 0]]
    /\ up = TRUE
    /\ registry = [a \in Agent |-> "none"]
    /\ directory = [a \in Agent |-> None]
    /\ adapters = [a \in Agent |-> 0]
    /\ live = {}
    /\ exits = [a \in Agent |-> {}]
    /\ task = [t \in Task |-> IdleTask]
    /\ launches = 0
    /\ crashes = 0
    /\ failures = 0

-----------------------------------------------------------------------------
(* Posting: appendMessage gives the next rank.                             *)
NextRank == Cardinality({m \in Message : posted[m] > 0}) + 1

Post(m) ==
    /\ posted[m] = 0
    /\ posted' = [posted EXCEPT ![m] = NextRank]

(* The messages listMessagesNeedingDelivery selects before its LIMIT.      *)
NeedsDelivery(m) ==
    /\ posted[m] > 0
    /\ attempt[m]["runtime_stdin"].state # "accepted_by_runtime"
    /\ \/ offline[m] # "none"
       \/ attempt[m]["session_turn"].state = "queued_for_recipient"

Needing == {m \in Message : NeedsDelivery(m)}

Older(S, m) == {n \in S : posted[n] < posted[m]}

Oldest(S, n) == {m \in S : Cardinality(Older(S, m)) < n}

ListMessagesNeedingDelivery == Oldest(Needing, SweepLimit)

-----------------------------------------------------------------------------
(* deliverMessage(m) by task t up to its first await; `rest` is what the   *)
(* sweep still has to deliver after m (nothing, for a direct call).        *)

After(rest) == IF rest = {} THEN IdleTask
                            ELSE [IdleTask EXCEPT !.pc = "sweep", !.todo = rest]

Proceed(t, rest) == task' = [task EXCEPT ![t] = After(rest)]

SetAttempt(m, k, a) == attempt' = [attempt EXCEPT ![m][k] = a]

(* The recipient is not in the directory: the attempt is an offline_queue  *)
(* row, committed as queued_offline.                                       *)
DeliverOffline(t, m, rest) ==
    /\ directory[To[m]] = None
    /\ offline' = [offline EXCEPT ![m] = "committed"]
    /\ Proceed(t, rest)
    /\ UNCHANGED attempt

(* Mutant of Conflict: the payload hash is not compared.                   *)
ConflictIgnored(m, b) == FALSE

(* beginDeliveryAttempt finds the row of this message, runtime and mode.   *)
(* With another payload hash it throws "delivery idempotency conflict".    *)
Conflict(m, b) ==
    /\ attempt[m][b.mode].state # "none"
    /\ attempt[m][b.mode].payload # b.payload

(* Mutants of Settled: the gate lets an attempt in flight through, or one  *)
(* that was accepted.                                                      *)
SettledIfAccepted(m, k) == attempt[m][k].state = "accepted_by_runtime"

SettledIfInFlight(m, k) == attempt[m][k].state = "delivering"

(* Committed, and not parked as queued_for_recipient: returned unchanged.  *)
Settled(m, k) == attempt[m][k].state \in {"delivering", "accepted_by_runtime"}

Begun(m, b) ==
    LET old == attempt[m][b.mode]
    IN  IF old.state = "none" THEN [NoAttempt EXCEPT !.state = "pending", !.payload = b.payload]
                              ELSE old

DeliverRefused(t, m, rest) ==
    /\ directory[To[m]] # None
    /\ LET b == directory[To[m]] IN Conflict(m, b) \/ Settled(m, b.mode)
    /\ Proceed(t, rest)
    /\ UNCHANGED <<offline, attempt>>

(* The guard both delivery modes share: the attempt may be driven.         *)
MayDrive(m) ==
    /\ directory[To[m]] # None
    /\ LET b == directory[To[m]] IN ~Conflict(m, b) /\ ~Settled(m, b.mode)

(* runtime_stdin with no adapter, or one whose child's stdin is gone: the  *)
(* send throws at once and the attempt fails as retryable.                 *)
DeliverUnwritable(t, m, rest) ==
    /\ MayDrive(m)
    /\ LET b == directory[To[m]] IN
        /\ b.mode = "runtime_stdin"
        /\ adapters[To[m]] \notin live
        /\ SetAttempt(m, b.mode, [Begun(m, b) EXCEPT !.state = "failed_retryable"])
    /\ Proceed(t, rest)
    /\ UNCHANGED offline

(* runtime_stdin: the line is written; the task awaits the write callback. *)
(* Nothing marks the attempt as in flight.                                 *)
DeliverStdin(t, m, rest) ==
    /\ MayDrive(m)
    /\ LET b == directory[To[m]] IN
        /\ b.mode = "runtime_stdin"
        /\ adapters[To[m]] \in live
        /\ SetAttempt(m, b.mode, Begun(m, b))
        /\ task' = [task EXCEPT ![t] =
                [pc |-> "waiting", msg |-> m, mode |-> b.mode, inc |-> adapters[To[m]],
                 retry |-> 0, todo |-> rest]]
    /\ UNCHANGED offline

(* session_turn without an adapter: parked as queued_for_recipient; the    *)
(* new receipt carries no retryCount.                                      *)
DeliverParked(t, m, rest) ==
    /\ MayDrive(m)
    /\ LET b == directory[To[m]] IN
        /\ b.mode = "session_turn"
        /\ adapters[To[m]] = 0
        /\ SetAttempt(m, b.mode,
               [Begun(m, b) EXCEPT !.state = "queued_for_recipient", !.retryCount = 0])
    /\ Proceed(t, rest)
    /\ UNCHANGED offline

(* session_turn: markDeliveryInFlight claims the attempt before the turn.  *)
DeliverSession(t, m, rest) ==
    /\ MayDrive(m)
    /\ LET b == directory[To[m]] IN
        /\ b.mode = "session_turn"
        /\ adapters[To[m]] # 0
        /\ SetAttempt(m, b.mode, [Begun(m, b) EXCEPT !.state = "delivering"])
        /\ task' = [task EXCEPT ![t] =
                [pc |-> "waiting", msg |-> m, mode |-> b.mode, inc |-> adapters[To[m]],
                 retry |-> Begun(m, b).retryCount, todo |-> rest]]
    /\ UNCHANGED offline

DeliverMessage(t, m, rest) ==
    \/ DeliverOffline(t, m, rest)
    \/ DeliverRefused(t, m, rest)
    \/ DeliverUnwritable(t, m, rest)
    \/ DeliverStdin(t, m, rest)
    \/ DeliverParked(t, m, rest)
    \/ DeliverSession(t, m, rest)

-----------------------------------------------------------------------------
(* Tasks of the main sidecar.                                              *)

Idle(t) == task[t].pc = "idle"

(* message_send handled by the main sidecar: append, then deliver.         *)
SendMessage(t, m) ==
    /\ up
    /\ Idle(t)
    /\ Post(m)
    /\ DeliverMessage(t, m, {})
    /\ UNCHANGED <<handed, up, rtVars, crashes, failures>>

(* LocalToadRuntime.sendMessage repeated with the idempotency key of a     *)
(* message already stored: appendMessage returns it, and it is delivered   *)
(* again.                                                                  *)
ResendMessage(t, m) ==
    /\ up
    /\ Idle(t)
    /\ posted[m] > 0
    /\ DeliverMessage(t, m, {})
    /\ UNCHANGED <<posted, handed, up, rtVars, crashes, failures>>

(* A tick of the 500 ms interval.  Nothing keeps it from starting while an *)
(* earlier tick still awaits a delivery.                                   *)
Tick(t) ==
    /\ up
    /\ Idle(t)
    /\ \E m \in Oldest(ListMessagesNeedingDelivery, 1) :
           DeliverMessage(t, m, ListMessagesNeedingDelivery \ {m})
    /\ UNCHANGED <<posted, handed, up, rtVars, crashes, failures>>

(* The tick's loop goes on to the next message of its list.                *)
SweepNext(t) ==
    /\ task[t].pc = "sweep"
    /\ \E m \in Oldest(task[t].todo, 1) : DeliverMessage(t, m, task[t].todo \ {m})
    /\ UNCHANGED <<posted, handed, up, rtVars, crashes, failures>>

(* The text reaches the agent process: its stdin, or the turn of the       *)
(* session (whose queue a stop does not empty).                            *)
HandOver(t) ==
    /\ task[t].pc = "waiting"
    /\ task[t].mode = "runtime_stdin" => task[t].inc \in live
    /\ task' = [task EXCEPT ![t].pc = "handed"]
    /\ handed' = [handed EXCEPT ![task[t].msg][task[t].mode] = IF @ < 2 THEN @ + 1 ELSE @]
    /\ UNCHANGED <<dbVars, up, rtVars, crashes, failures>>

(* sendTurn resolves accepted: the attempt is committed.                   *)
Accept(t) ==
    /\ task[t].pc = "handed"
    /\ SetAttempt(task[t].msg, task[t].mode,
           [attempt[task[t].msg][task[t].mode] EXCEPT
                !.state = "accepted_by_runtime", !.retryCount = 0])
    /\ Proceed(t, task[t].todo)
    /\ UNCHANGED <<posted, offline, handed, up, rtVars, crashes, failures>>

(* Mutants of Failed: the cap is not looked at; a session wake fails the   *)
(* way a stdin write does.                                                 *)
FailedUncapped(a, k, retry) ==
    IF k = "runtime_stdin" THEN [a EXCEPT !.state = "failed_retryable"]
    ELSE [a EXCEPT !.state = "queued_for_recipient", !.retryCount = retry + 1]

FailedAlike(a, k, retry) == [a EXCEPT !.state = "failed_retryable"]

(* The catch clause: a stdin failure is retryable whatever the row says by *)
(* now; a session wake goes back to the queue until RetryCap.              *)
Failed(a, k, retry) ==
    IF k = "runtime_stdin" THEN [a EXCEPT !.state = "failed_retryable"]
    ELSE IF retry + 1 >= RetryCap THEN [a EXCEPT !.state = "failed_terminal"]
    ELSE [a EXCEPT !.state = "queued_for_recipient", !.retryCount = retry + 1]

Reject(t) ==
    /\ task[t].pc \in {"waiting", "handed"}
    /\ IF task[t].inc \in live
       THEN failures < MaxFailures /\ failures' = failures + 1
       ELSE UNCHANGED failures
    /\ LET m == task[t].msg
           k == task[t].mode
       IN  SetAttempt(m, k, Failed(attempt[m][k], k, task[t].retry))
    /\ Proceed(t, task[t].todo)
    /\ UNCHANGED <<posted, offline, handed, up, rtVars, crashes>>

-----------------------------------------------------------------------------
(* MCP children: message_send over an empty directory, so always an        *)
(* offline_queue attempt.  The child may be killed between its statements. *)

ChildSend(m) ==
    /\ Post(m)
    /\ \E o \in {"none", "pending", "committed"} : offline' = [offline EXCEPT ![m] = o]
    /\ UNCHANGED <<attempt, handed, up, rtVars, task, crashes, failures>>

-----------------------------------------------------------------------------
(* Life of the agents' runtimes.  The same runtimeId is used again by      *)
(* every relaunch of an agent.                                             *)

Running(a) == registry[a] \in Mode

Launch(a, p) ==
    /\ up
    /\ ~Running(a)
    /\ launches < MaxLaunches
    /\ launches' = launches + 1
    /\ registry' = [registry EXCEPT ![a] = ModeOf(p)]
    /\ directory' = [directory EXCEPT ![a] =
           [mode |-> ModeOf(p),
            payload |-> <<p, IF p \in SessionProvider THEN 0 ELSE launches + 1>>]]
    /\ live' = live \cup {launches + 1}
    /\ adapters' = [adapters EXCEPT ![a] = launches + 1]
    /\ UNCHANGED <<dbVars, handed, up, exits, task, crashes, failures>>

(* The turn of a session's launch prompt fails: the adapter goes first,    *)
(* the registration when stopAgent has awaited the adapter (StopAgent).    *)
PromptFails(a) ==
    /\ registry[a] = "session_turn"
    /\ adapters[a] # 0
    /\ adapters' = [adapters EXCEPT ![a] = 0]
    /\ live' = live \ {adapters[a]}
    /\ UNCHANGED <<dbVars, handed, up, registry, directory, exits, task, launches, crashes,
                   failures>>

(* The child exits by itself: unregistered, its adapter stays in the map.  *)
ChildExit(a) ==
    /\ registry[a] = "runtime_stdin"
    /\ registry' = [registry EXCEPT ![a] = "stopped"]
    /\ directory' = [directory EXCEPT ![a] = None]
    /\ live' = live \ {adapters[a]}
    /\ UNCHANGED <<dbVars, handed, up, adapters, exits, task, launches, crashes, failures>>

(* The child's 'error' event: the directory keeps the binding.             *)
SpawnError(a) ==
    /\ registry[a] = "runtime_stdin"
    /\ registry' = [registry EXCEPT ![a] = "stopped"]
    /\ live' = live \ {adapters[a]}
    /\ UNCHANGED <<dbVars, handed, up, directory, adapters, exits, task, launches, crashes,
                   failures>>

(* The child is only signalled; the session adapter is stopped.            *)
StopAgent(a) ==
    /\ up
    /\ Running(a) \/ adapters[a] # 0
    /\ registry' = [registry EXCEPT ![a] = "stopped"]
    /\ directory' = [directory EXCEPT ![a] = None]
    /\ adapters' = [adapters EXCEPT ![a] = 0]
    /\ IF registry[a] = "runtime_stdin"
       THEN exits' = [exits EXCEPT ![a] = @ \cup {adapters[a]}] /\ UNCHANGED live
       ELSE live' = live \ {adapters[a]} /\ UNCHANGED exits
    /\ UNCHANGED <<dbVars, handed, up, task, launches, crashes, failures>>

(* The exit event of a killed child: #markExited looks the record up by    *)
(* runtimeId, so that it unregisters whatever runs under that id by now.   *)
ExitEvent(a) ==
    /\ \E i \in exits[a] :
           /\ exits' = [exits EXCEPT ![a] = @ \ {i}]
           /\ live' = live \ {i}
    /\ registry' = [registry EXCEPT ![a] = "stopped"]
    /\ directory' = [directory EXCEPT ![a] = None]
    /\ UNCHANGED <<dbVars, handed, up, adapters, task, launches, crashes, failures>>

-----------------------------------------------------------------------------
(* Crash of the main sidecar: everything in memory is gone.  A crash in    *)
(* the middle of SendMessage leaves the message without an attempt, or     *)
(* with one that was begun and never driven.                               *)

LoseMemory ==
    /\ up
    /\ crashes < MaxCrashes
    /\ crashes' = crashes + 1
    /\ up' = FALSE
    /\ directory' = [a \in Agent |-> None]
    /\ adapters' = [a \in Agent |-> 0]
    /\ live' = {}
    /\ exits' = [a \in Agent |-> {}]
    /\ task' = [t \in Task |-> IdleTask]
    /\ UNCHANGED <<handed, registry, launches, failures>>

Crash == LoseMemory /\ UNCHANGED dbVars

CrashInSend(m) ==
    /\ LoseMemory
    /\ Post(m)
    /\ \/ UNCHANGED <<offline, attempt>>
       \/ /\ directory[To[m]] = None
          /\ offline' = [offline EXCEPT ![m] = "pending"]
          /\ UNCHANGED attempt
       \/ /\ directory[To[m]] # None
          /\ LET b == directory[To[m]] IN SetAttempt(m, b.mode, Begun(m, b))
          /\ UNCHANGED offline

(* start(): reconcileOrphans marks every running row stopped and drops its *)
(* delivery mode, so that hydrateRuntimeDirectory finds nothing; then      *)
(* resetStaleSessionInFlight, and reconcileSessionInboxes over the rows    *)
(* that are (still) running.                                               *)
ReconcileOrphans == [a \in Agent |-> IF Running(a) THEN "stopped" ELSE registry[a]]

(* Mutants of ResetStale: claims survive the boot; every committed attempt *)
(* is reset.                                                               *)
ResetNothing(a) == a

ResetCommitted(a) == IF a.state \in {"delivering", "accepted_by_runtime"}
                     THEN [a EXCEPT !.state = "queued_for_recipient"]
                     ELSE a

ResetStale(a) == IF a.state = "delivering" THEN [a EXCEPT !.state = "queued_for_recipient"]
                                           ELSE a

ResetStaleSessionInFlight ==
    [m \in Message |-> [attempt[m] EXCEPT !["session_turn"] = ResetStale(@)]]

Undelivered(m) == \A k \in Mode : attempt[m][k].state # "accepted_by_runtime"

UndeliveredSessionMessages(rows) ==
    {m \in Message : posted[m] > 0 /\ rows[To[m]] = "session_turn" /\ Undelivered(m)}

Boot ==
    /\ ~up
    /\ up' = TRUE
    /\ registry' = ReconcileOrphans
    /\ attempt' = ResetStaleSessionInFlight
    /\ LET owed == UndeliveredSessionMessages(ReconcileOrphans)
       IN  \* nobody is registered yet: each is committed to the offline queue
           offline' = [m \in Message |-> IF m \in owed THEN "committed" ELSE offline[m]]
    /\ UNCHANGED <<posted, handed, directory, adapters, live, exits, task, launches, crashes,
                   failures>>

-----------------------------------------------------------------------------
Progress(t) == SweepNext(t) \/ HandOver(t) \/ Accept(t) \/ Reject(t)

Next ==
    \/ \E t \in Task, m \in Message : SendMessage(t, m) \/ ResendMessage(t, m)
    \/ \E t \in Task : Tick(t) \/ Progress(t)
    \/ \E m \in Message : ChildSend(m) \/ CrashInSend(m)
    \/ \E a \in Agent, p \in Provider : Launch(a, p)
    \/ \E a \in Agent : PromptFails(a) \/ ChildExit(a) \/ SpawnError(a)
                         \/ StopAgent(a) \/ ExitEvent(a)
    \/ Crash
    \/ Boot

Spec == Init /\ [][Next]_vars

(* The event loop runs every started task on, the interval keeps ticking   *)
(* and the shell restarts the sidecar.  Nothing obliges anyone to launch   *)
(* an agent, and nothing obliges a turn to succeed before MaxFailures.     *)
FairSpec ==
    /\ Spec
    /\ WF_vars(Boot)
    /\ \A t \in Task : WF_vars(Progress(t)) /\ WF_vars(Tick(t))

-----------------------------------------------------------------------------
(* PROPERTIES                                                              *)

InFlight(t) == task[t].pc \in {"waiting", "handed"}

Drives(t, m) == InFlight(t) /\ task[t].msg = m /\ task[t].mode = "session_turn"

SessionState(m) == attempt[m]["session_turn"].state

(* The claim of markDeliveryInFlight is exclusive: no two tasks ever drive *)
(* the turn of one message at the same time, whatever ticks, direct sends, *)
(* relaunches and provider swaps overlap (deliveryWorker.js, W1).          *)
SessionClaimExclusive ==
    \A t1, t2 \in Task, m \in Message : Drives(t1, m) /\ Drives(t2, m) => t1 = t2

(* While the sidecar runs, a row says `delivering` exactly while some task *)
(* will still settle it.  A claim without a task would be refused by the   *)
(* gate and left out by the sweep until the next restart; a task without a *)
(* claim would be joined by a second one.                                  *)
ClaimHasOwner ==
    up => \A m \in Message : SessionState(m) = "delivering" <=> \E t \in Task : Drives(t, m)

(* A session wake is never silently dropped (W2): as long as the sidecar   *)
(* has not crashed, a row that was begun for a session agent is in flight, *)
(* back in the sweep's queue, accepted or terminal - never in a state that *)
(* no code path looks at again.                                            *)
SessionNeverDropped ==
    crashes = 0 => \A m \in Message :
        SessionState(m) \in {"none", "delivering", "queued_for_recipient",
                             "accepted_by_runtime", "failed_terminal"}

(* Once a session attempt is accepted it stays accepted, and no turn is    *)
(* ever started for its message through a session again: the idempotency   *)
(* gate of deliverMessage.                                                 *)
AcceptedIsFinal ==
    [][\A m \in Message : SessionState(m) = "accepted_by_runtime" =>
          /\ SessionState(m)' = "accepted_by_runtime"
          /\ \A t \in Task : ~Drives(t, m)']_vars

(* An attempt is only ever driven with the payload it was begun with, so a *)
(* text that was offered to one child process through its attempt is never *)
(* written to the process of a later launch through the same attempt.      *)
OneProcessPerAttempt ==
    \A t \in Task :
        task[t].pc \in {"waiting", "handed"} /\ task[t].mode = "runtime_stdin" =>
            attempt[task[t].msg]["runtime_stdin"].payload[2] = task[t].inc

(* What the session mode promises to the sender: Mailbox.                  *)
Box == [m \in Message |-> IF posted[m] = 0 THEN "absent"
                          ELSE IF SessionState(m) = "accepted_by_runtime" THEN "acked"
                          ELSE "open"]

SessionMailbox == INSTANCE Mailbox WITH
    box <- Box, handed <- [m \in Message |-> handed[m]["session_turn"]]

(* The session delivery path implements the abstract mailbox: a message is *)
(* acknowledged only after it was handed over, and never handed over after *)
(* it was acknowledged - through crashes, boots, relaunches and overlaps.  *)
ImplementsMailbox == SessionMailbox!Spec

-----------------------------------------------------------------------------
(* Liveness.                                                               *)

(* The agent can take messages: its binding is registered and its adapter  *)
(* usable.                                                                 *)
Ready(a) ==
    /\ up
    /\ directory[a] # None
    /\ IF directory[a].mode = "session_turn" THEN adapters[a] # 0 ELSE adapters[a] \in live

Concluded(m) ==
    \E k \in Mode : attempt[m][k].state \in {"accepted_by_runtime", "failed_terminal"}

(* The binding of the recipient can drive the attempt m already has, if    *)
(* any: no idempotency conflict with an earlier launch.                    *)
Drivable(m) == directory[To[m]] # None => ~Conflict(m, directory[To[m]])

(* "This sweep rescues queued messages and delivers them for real": every  *)
(* message an MCP child posted to an agent that is up for good, and whose  *)
(* attempt was not begun with another launch's payload, is in the end      *)
(* accepted by it, or given up after RetryCap wakes.                       *)
EventuallyDelivered ==
    \A m \in Message :
        <>[](Ready(To[m]) /\ Drivable(m)) => (offline[m] # "none" ~> Concluded(m))

(* The design promises the same of every message that was stored, because  *)
(* a boot re-drives the inbox of each session agent: "message survives a   *)
(* TOAD crash ... No lost messages".                                       *)
NoLostMessages ==
    \A m \in Message :
        <>[]Ready(To[m]) => (posted[m] > 0 ~> Concluded(m))
=============================================================================
