----------------------------- MODULE Supervisor -----------------------------
(***************************************************************************)
(* Ownership of agent processes: the RuntimeSupervisor of each sidecar,    *)
(* its project's runtime_instances row and delivery-mode row, the runtime  *)
(* directory, the boot sweep, and the spawn ledger that the sidecars of    *)
(* all projects share.  Each sidecar drives one runtime id (the agent      *)
(* runtime-<team>-<agent>), relaunched under the same id.                  *)
(*                                                                         *)
(* An action runs one handler up to its next await.  launchAgent awaits    *)
(* twice: for the authentication preflight, before the supervisor is       *)
(* called, and for the launch prompt, after it.  A child's 'exit' event is *)
(* delivered some time after the child died.  A sidecar may crash between  *)
(* two handlers; its children outlive it.                                  *)
(*                                                                         *)
(* Bounds: MaxProcs spawns, MaxBoots boots (all sidecars together).        *)
(***************************************************************************)
EXTENDS Naturals, FiniteSets

CONSTANTS
    Sidecar,        \* one sidecar per open project
    Caller,         \* launchAgent calls in progress at once in a sidecar
    MaxRestarts,    \* restartPolicy.maxRestarts
    MaxProcs, MaxBoots

ASSUME SupervisorAssumption ==
    /\ IsFiniteSet(Sidecar)
    /\ MaxRestarts \in Nat /\ MaxProcs \in Nat /\ MaxBoots \in Nat

VARIABLES
    phase,      \* "down", "unswept" (start() done, zombie sweep not yet) or "ready"
    session,    \* boot of the sidecar: stands for its supervisor's sessionId
    record,     \* the runtime's entry in #runtimes
    row,        \* its runtime_instances row: status and pid
    mode,       \* its agent_delivery_modes row exists
    bound,      \* the RuntimeDirectory routes the agent to the runtime
    adapter,    \* LocalToadRuntime.adapters has the runtime
    caller,     \* where each launchAgent call is waiting
    owner,      \* sidecar and session that spawned each process
    alive,      \* processes running
    term,       \* processes the supervisor sent a signal
    exits,      \* dead children whose 'exit' event has not been handled
    ledger,     \* processes with a file in ~/.symphony/active-pids
    overtaken,  \* history: the runtime was relaunched before a child's 'exit'
    restarted   \* history: the processes #restartRuntime spawned

memVars == <<record, bound, adapter, caller, exits>>
osVars  == <<owner, alive, term>>
vars    == <<phase, session, record, row, mode, bound, adapter, caller,
             owner, alive, term, exits, ledger, overtaken, restarted>>

-----------------------------------------------------------------------------
Proc   == 1..MaxProcs
NoProc == 0     \* pid = null: a per-turn session, or a spawn that failed

Status == {"none", "running", "stopped", "exited", "error"}

Record == [status : Status, proc : Proc \cup {NoProc},
           stopRequested : BOOLEAN, restarts : 0..MaxRestarts]

NoRecord == [status |-> "none", proc |-> NoProc, stopRequested |-> FALSE, restarts |-> 0]

Nobody == << >>

TypeOK ==
    /\ phase \in [Sidecar -> {"down", "unswept", "ready"}]
    /\ session \in [Sidecar -> 0..MaxBoots]
    /\ record \in [Sidecar -> Record]
    /\ row \in [Sidecar -> [status : Status, proc : Proc \cup {NoProc}]]
    /\ mode \in [Sidecar -> BOOLEAN]
    /\ bound \in [Sidecar -> BOOLEAN]
    /\ adapter \in [Sidecar -> BOOLEAN]
    /\ caller \in [Sidecar -> [Caller -> {"idle", "preflight", "prompt"}]]
    /\ owner \in [Proc -> (Sidecar \X (1..MaxBoots)) \cup {Nobody}]
    /\ alive \subseteq Proc
    /\ term \subseteq Proc
    /\ exits \in [Sidecar -> SUBSET Proc]
    /\ ledger \subseteq Proc
    /\ overtaken \in [Sidecar -> BOOLEAN]
    /\ restarted \subseteq Proc

Init ==
    /\ phase = [s \in Sidecar |-> "down"]
    /\ session = [s \in Sidecar |-> 0]
    /\ record = [s \in Sidecar |-> NoRecord]
    /\ row = [s \in Sidecar |-> [status |-> "none", proc |-> NoProc]]
    /\ mode = [s \in Sidecar |-> FALSE]
    /\ bound = [s \in Sidecar |-> FALSE]
    /\ adapter = [s \in Sidecar |-> FALSE]
    /\ caller = [s \in Sidecar |-> [c \in Caller |-> "idle"]]
    /\ owner = [p \in Proc |-> Nobody]
    /\ alive = {}
    /\ term = {}
    /\ exits = [s \in Sidecar |-> {}]
    /\ ledger = {}
    /\ overtaken = [s \in Sidecar |-> FALSE]
    /\ restarted = {}

-----------------------------------------------------------------------------
(* The session a sidecar runs under, and the session that owns a process.  *)
Me(s) == <<s, session[s]>>

OwnerUp(p) == \E s \in Sidecar : phase[s] # "down" /\ owner[p] = Me(s)

Mine(s) == {p \in Proc : owner[p] = Me(s)}

Unspawned == {p \in Proc : owner[p] = Nobody}

(* A successful spawn: the operating system hands out the next process.    *)
Spawn(s, p) ==
    /\ p \in Unspawned
    /\ \A q \in Unspawned : p <= q
    /\ owner' = [owner EXCEPT ![p] = Me(s)]
    /\ alive' = alive \cup {p}

(* A spawn that yields no process: the call failed (the 'error' event      *)
(* follows at once and marks the record) or the runtime is a per-turn      *)
(* session without a child.                                                *)
SpawnNothing == UNCHANGED <<owner, alive>>

(* #registerRunningRuntime, followed for a failed spawn by the handler of  *)
(* the 'error' event, which marks the row but leaves the directory.        *)
Register(s, st, p, n) ==
    /\ record' = [record EXCEPT ![s] = [status |-> st, proc |-> p,
                                        stopRequested |-> FALSE, restarts |-> n]]
    /\ row' = [row EXCEPT ![s] = [status |-> st, proc |-> p]]
    /\ mode' = [mode EXCEPT ![s] = (st = "running")]
    /\ bound' = [bound EXCEPT ![s] = TRUE]

(* markRuntimeStopped and unregisterAgent, shared by stop and exit.        *)
Unregister(s, st) ==
    /\ row' = [row EXCEPT ![s].status = st]
    /\ mode' = [mode EXCEPT ![s] = FALSE]
    /\ bound' = [bound EXCEPT ![s] = FALSE]

RemoveSpawn(p) == ledger' = ledger \ {p}

-----------------------------------------------------------------------------
(* team_launch skips a member whose row runs with a live adapter, and      *)
(* marks a running row without one as stopped before it relaunches.        *)
TeamLaunch(s, c) ==
    /\ phase[s] # "down" /\ caller[s][c] = "idle"
    /\ ~(row[s].status = "running" /\ adapter[s])
    /\ caller' = [caller EXCEPT ![s][c] = "preflight"]
    /\ IF row[s].status = "running"
       THEN /\ row' = [row EXCEPT ![s].status = "stopped"]
            /\ mode' = [mode EXCEPT ![s] = FALSE]
       ELSE UNCHANGED <<row, mode>>
    /\ UNCHANGED <<phase, session, record, bound, adapter, osVars, exits, ledger, overtaken, restarted>>

(* agent_launch goes straight to launchAgent.                              *)
AgentLaunch(s, c) ==
    /\ phase[s] # "down" /\ caller[s][c] = "idle"
    /\ caller' = [caller EXCEPT ![s][c] = "preflight"]
    /\ UNCHANGED <<phase, session, record, row, mode, bound, adapter, osVars, exits,
                   ledger, overtaken, restarted>>

(* Mutant of CanLaunch: the guard on a running runtime is gone.            *)
CanAlwaysLaunch(s) == record[s].status \in Status

CanLaunch(s) == record[s].status # "running"

(* supervisor.launchAgent or registerSessionAgent, then adapters.set.      *)
LaunchAgent(s, c) ==
    /\ phase[s] # "down" /\ caller[s][c] = "preflight" /\ CanLaunch(s)
    /\ \/ \E p \in Proc :
             /\ Spawn(s, p)
             /\ Register(s, "running", p, 0)
             /\ ledger' = ledger \cup {p}
       \/ \E st \in {"running", "error"} :
             /\ SpawnNothing
             /\ Register(s, st, NoProc, 0)
             /\ UNCHANGED ledger
    /\ adapter' = [adapter EXCEPT ![s] = TRUE]
    /\ caller' = [caller EXCEPT ![s][c] = "prompt"]
    /\ overtaken' = [overtaken EXCEPT ![s] =
                        @ \/ (/\ record[s].status # "running"
                              /\ Mine(s) \cap (alive \cup exits[s]) # {})]
    /\ UNCHANGED <<phase, session, term, exits, restarted>>

(* The preflight blocks, the supervisor finds the runtime running and      *)
(* throws, or the launch prompt was written: the call returns.             *)
LaunchReturns(s, c) ==
    /\ phase[s] # "down" /\ caller[s][c] # "idle"
    /\ caller' = [caller EXCEPT ![s][c] = "idle"]
    /\ UNCHANGED <<phase, session, record, row, mode, bound, adapter, osVars, exits,
                   ledger, overtaken, restarted>>

(* stopAgent on the record the runtime id has now, whatever its status.    *)
StopRecord(s) ==
    LET r == record[s] IN
    /\ record' = [record EXCEPT ![s].status = "stopped",
                                ![s].stopRequested = @ \/ (r.status = "running" /\ r.proc # NoProc)]
    /\ term' = IF r.status = "running" THEN term \cup ({r.proc} \ {NoProc}) ELSE term
    /\ Unregister(s, "stopped")
    /\ RemoveSpawn(r.proc)

StopAgent(s) ==
    /\ phase[s] # "down" /\ record[s].status # "none"
    /\ StopRecord(s)
    /\ adapter' = [adapter EXCEPT ![s] = FALSE]
    /\ UNCHANGED <<phase, session, caller, owner, alive, exits, overtaken, restarted>>

(* The launch prompt could not be written: the launch is undone.           *)
PromptFails(s, c) ==
    /\ phase[s] # "down" /\ caller[s][c] = "prompt"
    /\ StopRecord(s)
    /\ adapter' = [adapter EXCEPT ![s] = FALSE]
    /\ caller' = [caller EXCEPT ![s][c] = "idle"]
    /\ UNCHANGED <<phase, session, owner, alive, exits, overtaken, restarted>>

-----------------------------------------------------------------------------
(* Processes in P die; each sidecar still up will see the exits of its own. *)
Kill(P) ==
    /\ alive' = alive \ P
    /\ exits' = [s \in Sidecar |-> IF phase[s] = "down" THEN {}
                                   ELSE exits[s] \cup (P \cap alive \cap Mine(s))]

Die(p) ==
    /\ p \in alive
    /\ Kill({p})
    /\ UNCHANGED <<phase, session, record, row, mode, bound, adapter, caller, owner, term,
                   ledger, overtaken, restarted>>

(* Mutant of RestartRuntime: the new process is not registered.            *)
RestartUnregistered(s) ==
    \E p \in Proc :
        /\ Spawn(s, p)
        /\ record' = [record EXCEPT ![s].proc = p, ![s].restarts = @ + 1]
        /\ restarted' = restarted \cup {p}
        /\ UNCHANGED <<row, mode, bound>>

(* #restartRuntime: spawns anew under the same record, and registers it;   *)
(* neither the spawn ledger nor LocalToadRuntime.adapters is touched.      *)
RestartRuntime(s) ==
    LET n == record[s].restarts + 1 IN
    \/ \E p \in Proc : /\ Spawn(s, p)
                       /\ Register(s, "running", p, n)
                       /\ restarted' = restarted \cup {p}
    \/ SpawnNothing /\ Register(s, "error", NoProc, n) /\ UNCHANGED restarted

(* Mutant of MarkExited: one restart too many.                             *)
MarkExitedOneMore(s) ==
    LET r == record[s] IN
    IF r.status = "stopped"
    THEN UNCHANGED <<record, row, mode, bound, owner, alive, ledger, restarted>>
    ELSE IF r.stopRequested
    THEN RemoveSpawn(r.proc) /\ UNCHANGED <<record, row, mode, bound, owner, alive, restarted>>
    ELSE IF r.restarts <= MaxRestarts
    THEN RestartRuntime(s) /\ UNCHANGED ledger
    ELSE /\ record' = [record EXCEPT ![s].status = "exited"]
         /\ Unregister(s, "exited")
         /\ RemoveSpawn(r.proc)
         /\ UNCHANGED <<owner, alive, restarted>>

(* #markExited is called with the runtime id only: it acts on the record   *)
(* the id has when the event is handled.                                   *)
MarkExited(s) ==
    LET r == record[s] IN
    IF r.status = "stopped"
    THEN UNCHANGED <<record, row, mode, bound, owner, alive, ledger, restarted>>
    ELSE IF r.stopRequested
    THEN RemoveSpawn(r.proc) /\ UNCHANGED <<record, row, mode, bound, owner, alive, restarted>>
    ELSE IF r.restarts < MaxRestarts
    THEN RestartRuntime(s) /\ UNCHANGED ledger
    ELSE /\ record' = [record EXCEPT ![s].status = "exited"]
         /\ Unregister(s, "exited")
         /\ RemoveSpawn(r.proc)
         /\ UNCHANGED <<owner, alive, restarted>>

OnExit(s, p) ==
    /\ phase[s] # "down" /\ p \in exits[s]
    /\ exits' = [exits EXCEPT ![s] = @ \ {p}]
    /\ MarkExited(s)
    /\ UNCHANGED <<phase, session, adapter, caller, term, overtaken>>

-----------------------------------------------------------------------------
(* The sidecar dies: what it held in memory is gone.                       *)
Crash(s) ==
    /\ phase[s] # "down"
    /\ phase' = [phase EXCEPT ![s] = "down"]
    /\ record' = [record EXCEPT ![s] = NoRecord]
    /\ bound' = [bound EXCEPT ![s] = FALSE]
    /\ adapter' = [adapter EXCEPT ![s] = FALSE]
    /\ caller' = [caller EXCEPT ![s] = [c \in Caller |-> "idle"]]
    /\ exits' = [exits EXCEPT ![s] = {}]
    /\ UNCHANGED <<session, row, mode, osVars, ledger, overtaken, restarted>>

(* Mutant of Orphans: the boot kills none of them.                         *)
NoOrphans(s) == {p \in {row[s].proc} : FALSE}

(* The processes reconcileOrphans reports for the boot to kill.            *)
Orphans(s) == IF row[s].status = "running" THEN {row[s].proc} \ {NoProc} ELSE {}

TotalBoots == Cardinality({b \in Sidecar \X (1..MaxBoots) : b[2] <= session[b[1]]})

(* Mutant of Boot: the delivery mode of a reconciled row is kept.          *)
BootKeepingModes(s) ==
    /\ phase[s] = "down" /\ TotalBoots < MaxBoots
    /\ phase' = [phase EXCEPT ![s] = "unswept"]
    /\ session' = [session EXCEPT ![s] = @ + 1]
    /\ row' = [row EXCEPT ![s].status = IF @ = "running" THEN "stopped" ELSE @]
    /\ UNCHANGED mode
    /\ bound' = [bound EXCEPT ![s] = mode'[s]]
    /\ Kill(Orphans(s))
    /\ UNCHANGED <<record, adapter, caller, owner, term, ledger, overtaken, restarted>>

(* start(): reconcile the rows, kill the orphans, hydrate the directory.   *)
Boot(s) ==
    /\ phase[s] = "down" /\ TotalBoots < MaxBoots
    /\ phase' = [phase EXCEPT ![s] = "unswept"]
    /\ session' = [session EXCEPT ![s] = @ + 1]
    /\ IF row[s].status = "running"
       THEN /\ row' = [row EXCEPT ![s].status = "stopped"]
            /\ mode' = [mode EXCEPT ![s] = FALSE]
       ELSE UNCHANGED <<row, mode>>
    /\ bound' = [bound EXCEPT ![s] = mode'[s]]
    /\ Kill(Orphans(s))
    /\ UNCHANGED <<record, adapter, caller, owner, term, ledger, overtaken, restarted>>

(* Mutants of Swept: called without a session; only this project's files.  *)
SweptAll(s) == {p \in ledger : owner[p] # <<s, 0>>}

SweptOwnProject(s) == {p \in ledger : owner[p][1] = s /\ owner[p] # Me(s)}

(* sweepZombies({ currentSessionId }): the files of other sessions.        *)
Swept(s) == ledger \ Mine(s)

Sweep(s) ==
    /\ phase[s] = "unswept"
    /\ phase' = [phase EXCEPT ![s] = "ready"]
    /\ Kill(Swept(s))
    /\ ledger' = ledger \ Swept(s)
    /\ UNCHANGED <<session, record, row, mode, bound, adapter, caller, owner, term, overtaken, restarted>>

Next ==
    \/ \E s \in Sidecar :
          \/ \E c \in Caller : \/ TeamLaunch(s, c) \/ AgentLaunch(s, c)
                               \/ LaunchAgent(s, c)
                               \/ LaunchReturns(s, c) \/ PromptFails(s, c)
          \/ StopAgent(s)
          \/ \E p \in Proc : OnExit(s, p)
          \/ Crash(s) \/ Boot(s) \/ Sweep(s)
    \/ \E p \in Proc : Die(p)

Spec == Init /\ [][Next]_vars

-----------------------------------------------------------------------------
(* The processes of s nobody asked to end.                                 *)
Running(s) == Mine(s) \cap (alive \ term)

(* The database row and the supervisor's record agree while the sidecar is *)
(* up, whatever launches, exits, stops and restarts were interleaved: the  *)
(* stale-row cleanup of team_launch never marks a live runtime stopped.    *)
RowMatchesRecord ==
    \A s \in Sidecar : phase[s] # "down" =>
        /\ record[s].status = "running" <=> row[s].status = "running"
        /\ record[s].status = "running" => row[s].proc = record[s].proc

(* Messages are routed to a runtime exactly while it runs; only a failed   *)
(* spawn leaves its directory binding behind.                              *)
RoutedIsRegistered ==
    \A s \in Sidecar : phase[s] # "down" =>
        /\ record[s].status = "running" => bound[s] /\ mode[s]
        /\ mode[s] => record[s].status = "running"
        /\ bound[s] => record[s].status \in {"running", "error"}

(* Unless a relaunch overtook an exit event, every process the sidecar     *)
(* spawned and did not signal is the one its record names, so that stop    *)
(* and exit act on it.                                                     *)
EveryProcessIsRecorded ==
    \A s \in Sidecar : phase[s] # "down" /\ ~overtaken[s] =>
        \A p \in Running(s) : record[s].status = "running" /\ record[s].proc = p

(* After a crash and a boot no process of an earlier session of the same   *)
(* project is left running, even one the ledger never listed.              *)
NoZombies ==
    \A s \in Sidecar : phase[s] # "down" /\ ~overtaken[s] =>
        \A p \in alive \ term : owner[p][1] = s => owner[p] = Me(s)

(* The sweep of any sidecar ends the processes every crashed sidecar left  *)
(* running, but for the restarted ones, which the ledger does not list.    *)
SweepReachesCrashed ==
    [][\A s \in Sidecar : Sweep(s) =>
          \A p \in (alive' \ term) \ restarted :
              OwnerUp(p) \/ overtaken[owner[p][1]]]_vars

(* A launch may come between start() and the sweep; the sweep spares it.   *)
SweepSparesOwnSession ==
    [][\A s \in Sidecar : Sweep(s) => Mine(s) \cap alive \subseteq alive']_vars

(* RuntimeSupervisor.js:74: a relaunch is blocked while the previous       *)
(* process is still alive, so a runtime id never has two.                  *)
OneProcess ==
    \A s \in Sidecar : phase[s] # "down" => Cardinality(Running(s)) <= 1

(* spawnLedger.js:20-22: the sweep kills the processes no current sidecar  *)
(* owns.                                                                   *)
SweepKillsOnlyOrphans ==
    [][\A s \in Sidecar : Sweep(s) => \A p \in alive \ alive' : ~OwnerUp(p)]_vars
=============================================================================
