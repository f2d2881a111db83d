---------------------------- MODULE EventStream -----------------------------
(***************************************************************************)
(* What an agent prints and what the sidecar does with it, for one runtime *)
(* id driven over stdin (Claude): the lines of a process wait in the       *)
(* iterable its adapter made (ClaudeStreamJsonAdapter.events) until the    *)
(* loop that was started at the launch takes them (ingestFrom), one after  *)
(* the other.  Each is logged and published first; a reply, a call of a    *)
(* tool and a request for an approval then need a running runtime.  A call *)
(* the ingestor executes is answered on the stdin of the adapter that is   *)
(* registered then, and the loop waits for the write.                      *)
(*                                                                         *)
(* An event is named by its process and its place in the output of it;     *)
(* what it is, is chosen when somebody looks: when it is taken.  An       *)
(* exception in the middle of an event ends the loop; the process is not   *)
(* told and lives on.                                                      *)
(***************************************************************************)
EXTENDS Integers

CONSTANTS
    MaxProcs,       \* processes of the runtime id (bound)
    MaxPrints,      \* events of a process (bound)
    MaxRestarts     \* restartPolicy.maxRestarts

ASSUME StreamAssumption ==
    /\ MaxProcs \in Nat \ {0} /\ MaxPrints \in Nat /\ MaxRestarts \in Nat

VARIABLES
    status,         \* of the runtime: the record's and the row's
    stopRequested,  \* record.stopRequested
    restarts,       \* record.restartCount
    adapter,        \* the process whose adapter LocalToadRuntime.adapters has, 0: none
    spawned,        \* processes so far
    alive,
    exits,          \* processes whose exit event is to be handled
    printed,        \* how many events each process has printed
    taken,          \* how many of its events were taken from the iterable: they are logged
    loop,           \* its ingestFrom: "none", "reading", "writing" or "over"
    hand,           \* the result being written, for a loop that is writing
    acts,           \* what was done for the agent: replies, calls, approvals
    told            \* history: the results that reached the process that made the call

streamVars == <<status, stopRequested, restarts, adapter, spawned, alive, exits, printed,
                taken, loop, hand, acts, told>>
runtimeVars == <<status, stopRequested, restarts, adapter, spawned, alive, exits>>

Proc    == 1..MaxProcs
Place   == 1..MaxPrints

(* What a call of a tool comes to: it returns, or throws.                  *)
Outcome == {"done", "refused"}

NoHand == [to |-> 0, what |-> "refused", again |-> TRUE]

StreamTypeOK ==
    /\ status \in {"none", "running", "stopped", "exited"}
    /\ stopRequested \in BOOLEAN
    /\ restarts \in 0..MaxRestarts
    /\ adapter \in 0..MaxProcs
    /\ spawned \in 0..MaxProcs
    /\ alive \subseteq 1..spawned /\ exits \subseteq 1..spawned
    /\ printed \in [Proc -> 0..MaxPrints]
    /\ taken \in [Proc -> 0..MaxPrints] /\ \A p \in Proc : taken[p] <= printed[p]
    /\ loop \in [Proc -> {"none", "reading", "writing", "over"}]
    /\ hand \in [Proc -> [to : 0..MaxProcs, what : Outcome, again : BOOLEAN]]
    /\ acts \subseteq [by : Proc, at : Place, what : Outcome \cup {"recorded"}]
    /\ told \subseteq [by : Proc, at : Place, what : Outcome]

StreamInit ==
    /\ status = "none"
    /\ stopRequested = FALSE
    /\ restarts = 0
    /\ adapter = 0
    /\ spawned = 0
    /\ alive = {}
    /\ exits = {}
    /\ printed = [p \in Proc |-> 0]
    /\ taken = [p \in Proc |-> 0]
    /\ loop = [p \in Proc |-> "none"]
    /\ hand = [p \in Proc |-> NoHand]
    /\ acts = {}
    /\ told = {}

-----------------------------------------------------------------------------
(* The life of the runtime, as far as its streams depend on it.            *)
Spawn ==
    /\ spawned < MaxProcs
    /\ spawned' = spawned + 1
    /\ alive' = alive \cup {spawned'}
    /\ status' = "running"
    /\ stopRequested' = FALSE

(* launchAgent: the new adapter is registered and a loop reads it.         *)
LaunchAgent ==
    /\ status # "running"
    /\ Spawn
    /\ restarts' = 0
    /\ adapter' = spawned'
    /\ loop' = [loop EXCEPT ![spawned'] = "reading"]
    /\ UNCHANGED <<exits, printed, taken, hand, acts, told>>

(* stopAgent: the process is signalled, which it may outlive for a while.  *)
StopAgent ==
    /\ status # "none"
    /\ stopRequested' = (stopRequested \/ status = "running")
    /\ status' = "stopped"
    /\ adapter' = 0
    /\ UNCHANGED <<restarts, spawned, alive, exits, printed, taken, loop, hand, acts,
                   told>>

Die(p) ==
    /\ p \in alive
    /\ alive' = alive \ {p}
    /\ exits' = exits \cup {p}
    /\ UNCHANGED <<status, stopRequested, restarts, adapter, spawned, printed, taken, loop,
                   hand, acts, told>>

(* #markExited acts on the record its runtime id has now; #restartRuntime  *)
(* makes an adapter that is neither registered nor read.                   *)
OnExit(p) ==
    /\ p \in exits
    /\ exits' = exits \ {p}
    /\ IF status = "stopped" \/ stopRequested
       THEN UNCHANGED <<status, stopRequested, restarts, spawned, alive>>
       ELSE IF restarts < MaxRestarts
       THEN Spawn /\ restarts' = restarts + 1
       ELSE status' = "exited" /\ UNCHANGED <<stopRequested, restarts, spawned, alive>>
    /\ UNCHANGED <<adapter, printed, taken, loop, hand, acts, told>>

(* A line arrives and is normalized; the iterable keeps it.                *)
Emit(p) ==
    /\ p \in alive /\ printed[p] < MaxPrints
    /\ printed' = [printed EXCEPT ![p] = @ + 1]
    /\ UNCHANGED <<status, stopRequested, restarts, adapter, spawned, alive, exits, taken,
                   loop, hand, acts, told>>

-----------------------------------------------------------------------------
(* The next event of p is taken and logged.                                *)
TakeFrom(p) ==
    /\ loop[p] = "reading" /\ taken[p] < printed[p]
    /\ taken' = [taken EXCEPT ![p] = @ + 1]
    /\ UNCHANGED <<runtimeVars, printed, told>>

Act(p, what) == [by |-> p, at |-> taken[p] + 1, what |-> what]

(* An event that changes nothing else here: the lifecycle of turns, or a   *)
(* tool outside allowedToolNames that the runtime may announce.            *)
Note(p) == TakeFrom(p) /\ UNCHANGED <<loop, hand, acts>>

(* assertCanWrite lets the event through.                                  *)
CanWrite(p) == status = "running" /\ TakeFrom(p)

(* assertCanWrite, or requireString for a reply of white space, throws,    *)
(* and with it ingestFrom.                                                 *)
Thrown(p) ==
    /\ TakeFrom(p)
    /\ loop' = [loop EXCEPT ![p] = "over"]
    /\ UNCHANGED <<hand, acts>>

Refused(p) == status # "running" /\ Thrown(p)

Blank(p) == status = "running" /\ Thrown(p)

(* A reply is appended, an approval requested.                             *)
Record(p) ==
    /\ CanWrite(p)
    /\ acts' = acts \cup {Act(p, "recorded")}
    /\ UNCHANGED <<loop, hand>>

(* #sendToolResult: to the adapter the runtime id has now, if it has one.  *)
SendResult(p, what, again) ==
    IF adapter = 0
    THEN loop' = [loop EXCEPT ![p] = "reading"] /\ hand' = [hand EXCEPT ![p] = NoHand]
    ELSE /\ loop' = [loop EXCEPT ![p] = "writing"]
         /\ hand' = [hand EXCEPT ![p] = [to |-> adapter, what |-> what, again |-> again]]

(* Mutant of Call: a call that throws is answered like any other.          *)
CallSwallows(p) ==
    /\ CanWrite(p)
    /\ \E what \in Outcome : acts' = acts \cup {Act(p, what)} /\ SendResult(p, "done", what = "refused")

(* Mutant of Call: the receipt written first is taken for one of an        *)
(* earlier attempt, and nothing is sent.                                   *)
CallFindsItsReceipt(p) ==
    /\ CanWrite(p)
    /\ \E what \in Outcome : acts' = acts \cup {Act(p, what)}
    /\ UNCHANGED <<loop, hand>>

(* #dispatchToolUse: the tool returns or throws, and the agent is told.    *)
(* What returns may be a promise (message_send): it is not awaited, the    *)
(* agent is told an empty object whatever becomes of it, and a rejection,  *)
(* which nobody handles, ends the sidecar and the behaviours seen here.    *)
(* A send that fails is tried once more unless it was sending an error.    *)
Call(p) ==
    /\ CanWrite(p)
    /\ \E what \in Outcome : acts' = acts \cup {Act(p, what)} /\ SendResult(p, what, what = "refused")

(* The write callback, with the agent alive at the other end.              *)
Written(p) ==
    /\ loop[p] = "writing" /\ hand[p].to \in alive
    /\ told' = told \cup {r \in {[by |-> p, at |-> taken[p], what |-> hand[p].what]} : hand[p].to = p}
    /\ loop' = [loop EXCEPT ![p] = "reading"]
    /\ hand' = [hand EXCEPT ![p] = NoHand]
    /\ UNCHANGED <<runtimeVars, printed, taken, acts>>

(* Mutant of WriteFails: the callback of the write ignores its error.      *)
WriteFailsSilently(p) == FALSE /\ Written(p)

(* The stdin of a dead process: the catch of #dispatchToolUse sends the    *)
(* failure of the send as the failure of the tool.                         *)
WriteFails(p) ==
    /\ loop[p] = "writing" /\ hand[p].to \notin alive
    /\ IF hand[p].again
       THEN loop' = [loop EXCEPT ![p] = "over"] /\ hand' = [hand EXCEPT ![p] = NoHand]
       ELSE SendResult(p, "refused", TRUE)
    /\ UNCHANGED <<runtimeVars, printed, taken, acts, told>>

(* The end of stdout, once everything before it was taken.                 *)
StreamEnds(p) ==
    /\ loop[p] = "reading" /\ p \notin alive /\ taken[p] = printed[p]
    /\ loop' = [loop EXCEPT ![p] = "over"]
    /\ UNCHANGED <<runtimeVars, printed, taken, hand, acts, told>>

Ingest(p) ==
    \/ Note(p) \/ Record(p) \/ Blank(p) \/ Call(p) \/ Refused(p)
    \/ Written(p) \/ WriteFails(p) \/ StreamEnds(p)

StreamNext ==
    \/ LaunchAgent \/ StopAgent
    \/ \E p \in Proc : Die(p) \/ OnExit(p) \/ Emit(p) \/ Ingest(p)

(* The event loop runs on, and an agent that lives reads its stdin.        *)
StreamSpec == StreamInit /\ [][StreamNext]_streamVars /\ \A p \in Proc : WF_streamVars(Ingest(p))

-----------------------------------------------------------------------------
(* The process that made a call and hears of it hears what happened: an    *)
(* error only when the tool threw, never because an earlier attempt to     *)
(* tell it failed, and a result only when the tool returned it.            *)
ResultsAreHonest == told \subseteq acts

(* Every call that was executed is answered to the process that made it,   *)
(* unless the process died or was stopped or replaced meanwhile: the agent *)
(* does not wait for an answer that nobody is writing.                     *)
CallsAreAnswered ==
    \A c \in acts : c.what \in Outcome =>
        \/ loop[c.by] = "writing" /\ taken[c.by] = c.at
        \/ \E r \in told : r.by = c.by /\ r.at = c.at
        \/ c.by \notin alive \/ adapter # c.by

(* The loop of a process comes to all of its events, or is ended by one:   *)
(* none of its waits is for ever.                                          *)
EventuallyHeard ==
    \A p \in Proc : []<>(loop[p] \in {"none", "over"} \/ taken[p] = printed[p])

(* LocalToadRuntime.js:643-647: events are consumed automatically, without *)
(* which "an agent runs and accepts input but its responses are lost".     *)
RunningIsHeard ==
    \A p \in alive : status = "running" /\ p = spawned => loop[p] \in {"reading", "writing"}
=============================================================================
