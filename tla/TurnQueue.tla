----------------------------- MODULE TurnQueue -----------------------------
(***************************************************************************)
(* The turn queue of a per-turn agent: one CLI process per turn, turns     *)
(* serialized on a promise chain, messages that arrive during a turn       *)
(* batched into the next one.  CodexExecAdapter, GeminiExecAdapter and     *)
(* OpencodeExecAdapter share the queue and differ in what they hear from   *)
(* their CLI, and in what they do with it.                                 *)
(*                                                                         *)
(* Every sendTurn puts its text in _pendingTexts and chains one slot; a    *)
(* slot drains whatever texts are pending, its own or not.  An action runs *)
(* from one await to the next, so a turn is a start, what its process      *)
(* does, and the settling of its promise; calls and stop() come between.   *)
(* A stopped agent is launched again, with the same CLI or another, as a   *)
(* new adapter with a queue of its own; both use the one session id that   *)
(* the runtime's row holds.                                                *)
(***************************************************************************)
EXTENDS Naturals, Sequences, FiniteSets, SequencesExt

CONSTANTS
    Call,        \* the calls of sendTurn, each with a text of its own
    Cli,         \* the command-line programs in use: "codex", "gemini", "opencode"
    MaxLaunches  \* the launches of the agent

ASSUME QueueAssumption ==
    /\ Cli \subseteq {"codex", "gemini", "opencode"}
    /\ MaxLaunches \in Nat \ {0}

VARIABLES
    launches,    \* how often the agent was launched: the last is the one in use
    queue,       \* the adapter of each launch
    cliSession,  \* the runtime's row has a cliSessionId
    outcome,     \* what each sendTurn call was told
    called,      \* history: the calls of each adapter, in order
    log,         \* history: the texts its processes have read, in order
    missed       \* history: texts of batches whose process never came up

queueVars == <<launches, queue, cliSession, outcome, called, log, missed>>

-----------------------------------------------------------------------------
(* What the normalizer of each CLI makes of its output lines, as far as    *)
(* the adapter acts on it.                                                 *)
CodexReports == {"session_started", "turn_completed", "turn_failed"}

GeminiReports == {"session_started", "turn_completed", "turn_failed"}

OpencodeReports == {"session_started", "turn_completed"}

Reports == [codex |-> CodexReports, gemini |-> GeminiReports, opencode |-> OpencodeReports]

(* Which of these settle the turn while its process is still there, and    *)
(* which endings of a resumed turn may show that its session is unknown:   *)
(* codex looks at what the closed process wrote to stderr, the others at   *)
(* the error of any failed turn.                                           *)
CodexActs == [settle |-> {"turn_completed"}, unknown |-> {"close"}]

GeminiActs == [settle |-> {"turn_completed", "turn_failed"}, unknown |-> {"turn_failed", "close"}]

OpencodeActs == [settle |-> {"turn_completed", "turn_failed"}, unknown |-> {"turn_failed", "close"}]

Acts == [codex |-> CodexActs, gemini |-> GeminiActs, opencode |-> OpencodeActs]

Adapter == 1..MaxLaunches

(* up: the process exists (otherwise its 'error' event is on its way);     *)
(* killed: it was sent SIGTERM.                                            *)
Turn == [batch : Seq(Call), resume : BOOLEAN, up : BOOLEAN, killed : BOOLEAN]

NoTurn == [batch |-> << >>, resume |-> FALSE, up |-> FALSE, killed |-> FALSE]

(* pending is _pendingTexts, each text standing for its call; slots are    *)
(* those left on _chain, the running one first; left counts the processes  *)
(* of settled turns that have not exited.                                  *)
Queue == [cli : Cli, pending : Seq(Call), slots : Seq(Call), turn : Turn, ended : BOOLEAN,
          left : Nat]

NewQueue(cli) == [cli |-> cli, pending |-> << >>, slots |-> << >>, turn |-> NoTurn,
                  ended |-> FALSE, left |-> 0]

Outcome == {"none", "waiting", "accepted", "coalesced", "turn_failed", "thrown"}

InFlight(a) == queue[a].turn # NoTurn

QueueTypeOK ==
    /\ launches \in Adapter
    /\ queue \in [Adapter -> Queue]
    /\ cliSession \in BOOLEAN
    /\ outcome \in [Call -> Outcome]
    /\ called \in [Adapter -> Seq(Call)]
    /\ log \in [Adapter -> Seq(Call)]
    /\ missed \subseteq Call
    /\ \A a \in Adapter : InFlight(a) => queue[a].slots # << >>

QueueInit ==
    /\ launches = 1
    /\ \E cli \in Cli : queue = [a \in Adapter |-> NewQueue(cli)]
    /\ cliSession = FALSE
    /\ outcome = [c \in Call |-> "none"]
    /\ called = [a \in Adapter |-> << >>]
    /\ log = [a \in Adapter |-> << >>]
    /\ missed = {}

-----------------------------------------------------------------------------
(* Messages go to the adapter of the last launch.                          *)
SendTurn(c) ==
    /\ outcome[c] = "none" /\ ~queue[launches].ended
    /\ outcome' = [outcome EXCEPT ![c] = "waiting"]
    /\ queue' = [queue EXCEPT ![launches].pending = Append(@, c), ![launches].slots = Append(@, c)]
    /\ called' = [called EXCEPT ![launches] = Append(@, c)]
    /\ UNCHANGED <<launches, cliSession, log, missed>>

(* The promise of the running slot settles and the chain moves on; still   *)
(* counts the process that is left behind.                                 *)
Settled(q, still) == [q EXCEPT !.slots = Tail(@), !.turn = NoTurn, !.left = @ + still]

Tell(a, result) == outcome' = [outcome EXCEPT ![Head(queue[a].slots)] = result]

(* A slot that finds nothing pending resolves as coalesced.                *)
Coalesce(a) ==
    /\ ~InFlight(a) /\ queue[a].slots # << >> /\ queue[a].pending = << >>
    /\ queue' = [queue EXCEPT ![a] = Settled(@, 0)]
    /\ Tell(a, "coalesced")
    /\ UNCHANGED <<launches, cliSession, called, log, missed>>

(* attempt(): the process comes up and reads the batch, or an 'error'      *)
(* event will say that it did not.                                         *)
Attempt(a, q, resume) ==
    \E ok \in BOOLEAN :
        /\ queue' = [queue EXCEPT ![a] =
               [q EXCEPT !.turn = [@ EXCEPT !.resume = resume, !.up = ok, !.killed = FALSE]]]
        /\ log' = IF ok THEN [log EXCEPT ![a] = @ \o q.turn.batch] ELSE log

(* A slot takes all that is pending.                                       *)
StartTurn(a) ==
    /\ ~InFlight(a) /\ queue[a].slots # << >> /\ queue[a].pending # << >>
    /\ Attempt(a, [queue[a] EXCEPT !.turn.batch = queue[a].pending, !.pending = << >>], cliSession)
    /\ UNCHANGED <<launches, cliSession, outcome, called, missed>>

(* Mutants of Restored: the batch goes to the back, or nowhere.            *)
RestoredBehind(batch, later) == later \o batch

NotRestored(batch, later) == SubSeq(batch, 1, 0) \o later

(* A spawn that throws puts its batch in front of later texts.             *)
Restored(batch, later) == batch \o later

StartThrows(a) ==
    /\ ~InFlight(a) /\ queue[a].slots # << >> /\ queue[a].pending # << >>
    /\ queue' = [queue EXCEPT ![a] = [Settled(queue[a], 0) EXCEPT !.pending = Restored(@, << >>)]]
    /\ Tell(a, "thrown")
    /\ UNCHANGED <<launches, cliSession, called, log, missed>>

(* session_started: the session id is persisted in the runtime's row.      *)
SessionStarted(a) ==
    /\ "session_started" \in Reports[queue[a].cli]
    /\ queue[a].turn.up /\ ~cliSession
    /\ cliSession' = TRUE
    /\ UNCHANGED <<launches, queue, outcome, called, log, missed>>

(* An output line that settles the turn, its process still being there.    *)
(* The first turn of a session fails if the agent could not see the TOAD   *)
(* tools.                                                                  *)
TurnCompletedLine(a) ==
    /\ "turn_completed" \in Reports[queue[a].cli] \cap Acts[queue[a].cli].settle
    /\ queue[a].turn.up
    /\ queue' = [queue EXCEPT ![a] = Settled(@, 1)]
    /\ \/ Tell(a, "accepted")
       \/ ~queue[a].turn.resume /\ Tell(a, "turn_failed")
    /\ UNCHANGED <<launches, cliSession, called, log, missed>>

TurnFailedLine(a) ==
    /\ "turn_failed" \in Reports[queue[a].cli] \cap Acts[queue[a].cli].settle
    /\ queue[a].turn.up
    /\ queue' = [queue EXCEPT ![a] = Settled(@, 1)]
    /\ Tell(a, "turn_failed")
    /\ UNCHANGED <<launches, cliSession, called, log, missed>>

(* 'close' before a line that settles the turn.                            *)
ProcessClosed(a) ==
    /\ queue[a].turn.up
    /\ queue' = [queue EXCEPT ![a] = Settled(@, 0)]
    /\ Tell(a, "turn_failed")
    /\ UNCHANGED <<launches, cliSession, called, log, missed>>

(* 'error': the process never came up; its batch is dropped.               *)
SpawnFailed(a) ==
    /\ InFlight(a) /\ ~queue[a].turn.up
    /\ missed' = missed \cup ToSet(queue[a].turn.batch)
    /\ queue' = [queue EXCEPT ![a] = Settled(@, 0)]
    /\ Tell(a, "turn_failed")
    /\ UNCHANGED <<launches, cliSession, called, log>>

(* A resume whose session the CLI does not know: the session is cleared    *)
(* and the batch tried once more as a first turn, under the same slot.     *)
SessionUnknown(a) ==
    /\ queue[a].turn.up /\ queue[a].turn.resume
    /\ cliSession' = FALSE
    /\ \E still \in {0} \cup {1 : line \in {"turn_failed"} \cap Reports[queue[a].cli]
                                             \cap Acts[queue[a].cli].unknown} :
          \/ /\ Attempt(a, [queue[a] EXCEPT !.left = @ + still], FALSE)
             /\ UNCHANGED outcome
          \/ /\ queue' = [queue EXCEPT ![a] =
                    [Settled(queue[a], still) EXCEPT !.pending = Restored(queue[a].turn.batch, @)]]
             /\ Tell(a, "thrown")
             /\ UNCHANGED log
    /\ UNCHANGED <<launches, called, missed>>

(* The timer of the turn fires; its process is sent SIGTERM.               *)
TurnTimeout(a) ==
    /\ queue[a].turn.up /\ ~queue[a].turn.killed
    /\ queue' = [queue EXCEPT ![a].turn.killed = TRUE]
    /\ UNCHANGED <<launches, cliSession, outcome, called, log, missed>>

(* A process whose turn is settled exits; nobody listens any more.         *)
LeftExits(a) ==
    /\ queue[a].left > 0
    /\ queue' = [queue EXCEPT ![a].left = @ - 1]
    /\ UNCHANGED <<launches, cliSession, outcome, called, log, missed>>

(* stop() signals the process of the turn in flight; the chain goes on.    *)
Stop(a) ==
    /\ a = launches /\ ~queue[a].ended
    /\ queue' = [queue EXCEPT ![a].ended = TRUE, ![a].turn.killed = queue[a].turn.up]
    /\ UNCHANGED <<launches, cliSession, outcome, called, log, missed>>

(* registerSessionAgent: a new adapter, and the row keeps its session id.  *)
RegisterSessionAgent(cli) ==
    /\ launches < MaxLaunches /\ queue[launches].ended
    /\ launches' = launches + 1
    /\ queue' = [queue EXCEPT ![launches + 1] = NewQueue(cli)]
    /\ UNCHANGED <<cliSession, outcome, called, log, missed>>

QueueNext ==
    \/ \E c \in Call : SendTurn(c)
    \/ \E a \in Adapter :
          \/ Coalesce(a) \/ StartTurn(a) \/ StartThrows(a)
          \/ SessionStarted(a) \/ TurnCompletedLine(a) \/ TurnFailedLine(a) \/ ProcessClosed(a)
          \/ SpawnFailed(a) \/ SessionUnknown(a)
          \/ TurnTimeout(a) \/ LeftExits(a) \/ Stop(a)
    \/ \E cli \in Cli : RegisterSessionAgent(cli)

QueueSpec == QueueInit /\ [][QueueNext]_queueVars

-----------------------------------------------------------------------------
Told(c) == outcome[c] \in {"accepted", "coalesced"}

(* A call told that its text was accepted or coalesced had it written to a *)
(* process, or its batch was dropped by a spawn that failed; in no case is *)
(* the text still waiting to be sent, also when its agent was stopped or   *)
(* replaced meanwhile.  A call often reports the turn of another: the slot *)
(* drains what is pending, not what it was chained for.                    *)
CarriedUnlessSpawnFailed ==
    \A c \in Call : Told(c) =>
        /\ c \in missed \cup UNION {ToSet(log[a]) : a \in Adapter}
        /\ \A a \in Adapter : c \notin ToSet(queue[a].pending)

(* What an adapter's agent has last read is in the order its calls were    *)
(* made, across batches, thrown spawns that put a batch back, and sessions *)
(* started afresh that read theirs again.                                  *)
TextsKeepOrder ==
    \A a \in Adapter : \A i, j \in DOMAIN called[a] :
        (i < j /\ {called[a][i], called[a][j]} \subseteq ToSet(log[a])) =>
            \E k \in DOMAIN log[a] :
                log[a][k] = called[a][j] /\ \A l \in k..Len(log[a]) : log[a][l] # called[a][i]

(* Turns are "serialized per agent (FIFO, one in-flight `codex exec        *)
(* resume` per runtimeId): overlapping resume on one disk session corrupts *)
(* continuity".  So while a process resumes a session no other process of  *)
(* the agent is running the same CLI.                                      *)
OneTurnPerSession ==
    \A a, b \in Adapter :
        queue[a].turn.up /\ queue[a].turn.resume /\ queue[a].cli = queue[b].cli =>
            queue[b].left = 0 /\ (b # a => ~queue[b].turn.up)
=============================================================================
