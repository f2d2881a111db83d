------------------------------ MODULE Foundry -------------------------------
(***************************************************************************)
(* The chat of one Foundry planning session: foundry_chat_turn of the tool *)
(* facade, the session's row, and the CLI behind it.  ClaudeFoundryAdapter *)
(* keeps a process per session and writes every question to its stdin;     *)
(* CodexFoundryAdapter spawns a process per turn, which resumes the stored *)
(* conversation or begins one.                                             *)
(*                                                                         *)
(* Nothing keeps a second turn from starting while one is waiting, and a   *)
(* turn that is given up after five minutes leaves its process to die.     *)
(* All listeners of a process read its stdout through one line buffer.     *)
(* A conversation is named by the process that began it.                   *)
(***************************************************************************)
EXTENDS Integers, Sequences, FiniteSets

CONSTANTS
    Turn,          \* calls of foundry_chat_turn, each made once
    MaxProcesses,  \* CLI processes ever spawned (bound)
    MaxStops       \* stops of the sidecar (bound)

ASSUME FoundryAssumption == MaxProcesses \in Nat /\ MaxStops \in Nat

VARIABLES
    provider,      \* of the session, fixed when it is created
    cliSessionId,  \* foundry_sessions.cli_session_id, NoConversation for null
    process,       \* the CLI processes, in the order they were spawned
    registry,      \* ClaudeFoundryAdapter.#processes has this one, 0 if none
    turn,          \* the calls
    answered,      \* the assistant messages: turn, conversation, question answered
    forked,        \* history: two first turns of the session were open at once
    stops

foundryVars == <<provider, cliSessionId, process, registry, turn, answered, forked, stops>>

CliProcess     == 1..MaxProcesses
NoConversation == 0

Unasked  == [step |-> "unused"]
TurnOver == [step |-> "ended"]
Unborn   == [status |-> "unborn"]

Turns         == {Unasked, TurnOver} \cup [step : {"waiting"}, of : CliProcess,
                                           first : BOOLEAN]
ProcessStates == {Unborn} \cup [status : {"up", "dying", "closed"}, conversation : CliProcess,
                                owes : Seq(Turn)]

FoundryTypeOK ==
    /\ provider \in {"anthropic", "openai"}
    /\ cliSessionId \in {NoConversation} \cup CliProcess
    /\ process \in [CliProcess -> ProcessStates]
    /\ registry \in {0} \cup CliProcess
    /\ registry # 0 => process[registry].status \in {"up", "dying"}
    /\ turn \in [Turn -> Turns]
    /\ answered \subseteq [turn : Turn, conversation : CliProcess, question : Turn]
    /\ forked \in BOOLEAN
    /\ stops \in 0..MaxStops

FoundryInit ==
    /\ provider \in {"anthropic", "openai"}
    /\ cliSessionId = NoConversation
    /\ process = [p \in CliProcess |-> Unborn]
    /\ registry = 0
    /\ turn = [t \in Turn |-> Unasked]
    /\ answered = {}
    /\ forked = FALSE
    /\ stops = 0

Waiting(p) == {t \in Turn : turn[t].step = "waiting" /\ turn[t].of = p}

-----------------------------------------------------------------------------
(* Mutant of Spawned: a stored conversation is not resumed.                *)
SpawnedAnew(p, t) == [status |-> "up", conversation |-> p, owes |-> <<t>>]

(* A new process, asked its first question.                                *)
Spawned(p, t) ==
    [status |-> "up", owes |-> <<t>>,
     conversation |-> IF cliSessionId = NoConversation THEN p ELSE cliSessionId]

(* The adapter finds the process of the session, or spawns one: Codex      *)
(* always does.  A process told to stop is found until it has closed.      *)
Send(t, p) ==
    IF registry # 0
    THEN /\ p = registry
         /\ process' = [process EXCEPT ![p].owes = Append(@, t)]
         /\ UNCHANGED registry
    ELSE /\ process[p] = Unborn
         /\ \A q \in 1..p - 1 : process[q] # Unborn
         /\ process' = [process EXCEPT ![p] = Spawned(p, t)]
         /\ registry' = IF provider = "anthropic" THEN p ELSE 0

(* foundry_chat_turn up to its wait: the user's message is stored, and the *)
(* row's conversation is the one of this moment.                           *)
ChatTurn(t, p) ==
    /\ turn[t] = Unasked
    /\ Send(t, p)
    /\ turn' = [turn EXCEPT ![t] = [step |-> "waiting", of |-> p,
                                    first |-> cliSessionId = NoConversation]]
    /\ forked' = (forked \/ (/\ cliSessionId = NoConversation
                             /\ \E u \in Turn : turn[u].step = "waiting"))
    /\ UNCHANGED <<provider, cliSessionId, answered, stops>>

(* The process p prints the end of the turn it owes first.  Whoever        *)
(* listens takes it for its own: the one turn there is, or some of several *)
(* (a line split between two reads is garbled for the others).  The turns  *)
(* that saw no text with it fail.  The first turn of a session stores the  *)
(* conversation.                                                           *)
Answer(p, told, failed) ==
    /\ process[p].status \in {"up", "dying"}
    /\ process[p].owes # <<>>
    /\ Cardinality(Waiting(p)) = 1 => told \cup failed = Waiting(p)
    /\ process' = [process EXCEPT ![p].owes = Tail(@)]
    /\ turn' = [t \in Turn |-> IF t \in told \cup failed THEN TurnOver ELSE turn[t]]
    /\ answered' = answered \cup
           {[turn |-> t, conversation |-> process[p].conversation,
             question |-> Head(process[p].owes)] : t \in told}
    /\ cliSessionId' = IF \E t \in told : turn[t].first THEN process[p].conversation
                       ELSE cliSessionId
    /\ UNCHANGED <<provider, registry, forked, stops>>

(* Five minutes: the turn fails and its process gets a SIGTERM.            *)
TimedOut(t) ==
    /\ turn[t].step = "waiting"
    /\ turn' = [turn EXCEPT ![t] = TurnOver]
    /\ process' = [process EXCEPT ![turn[t].of].status = "dying"]
    /\ UNCHANGED <<provider, cliSessionId, registry, answered, forked, stops>>

(* The process closes, of itself or told to: the turns waiting for it fail *)
(* and the registry forgets it.                                            *)
Close(p) ==
    /\ process[p].status \in {"up", "dying"}
    /\ process' = [process EXCEPT ![p].status = "closed", ![p].owes = <<>>]
    /\ turn' = [t \in Turn |-> IF t \in Waiting(p) THEN TurnOver ELSE turn[t]]
    /\ registry' = IF registry = p THEN 0 ELSE registry
    /\ UNCHANGED <<provider, cliSessionId, answered, forked, stops>>

(* The sidecar stops and starts: its processes read the end of their stdin *)
(* and nobody reads what they still print.                                 *)
Stop ==
    /\ stops < MaxStops
    /\ stops' = stops + 1
    /\ process' = [p \in CliProcess |-> IF process[p] = Unborn THEN Unborn
                                     ELSE [process[p] EXCEPT !.status = "closed", !.owes = <<>>]]
    /\ turn' = [t \in Turn |-> IF turn[t].step = "waiting" THEN TurnOver ELSE turn[t]]
    /\ registry' = 0
    /\ UNCHANGED <<provider, cliSessionId, answered, forked>>

FoundryNext ==
    \/ \E t \in Turn : \/ \E p \in CliProcess : ChatTurn(t, p)
                       \/ TimedOut(t)
    \/ \E p \in CliProcess :
          \/ \E told \in SUBSET Waiting(p) : \E failed \in SUBSET (Waiting(p) \ told) :
                Answer(p, told, failed)
          \/ Close(p)
    \/ Stop

FoundrySpec == FoundryInit /\ [][FoundryNext]_foundryVars

-----------------------------------------------------------------------------
(* Every answer of a session comes from one conversation, the one its row  *)
(* names, whatever crashes, times out or is asked at the same time; with   *)
(* the Codex CLI as long as no two first turns were open at once.          *)
OneConversation ==
    provider = "anthropic" \/ ~forked =>
        \A m \in answered : m.conversation = cliSessionId
=============================================================================
