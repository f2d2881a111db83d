-------------------------- MODULE SupervisorProofs --------------------------
(***************************************************************************)
(* Theorems about Supervisor for every finite set of sidecars and every    *)
(* bound on restarts, processes and boots: types, and the agreement of the *)
(* row, the delivery mode and the directory with the record.               *)
(***************************************************************************)
EXTENDS Supervisor, FiniteSetTheorems, TLAPS

USE SupervisorAssumption

-----------------------------------------------------------------------------
(* Type correctness.                                                       *)

Booted == \A s \in Sidecar : phase[s] # "down" => session[s] > 0

TypeInv == TypeOK /\ Booted

(* While a boot is left, no sidecar has used all of them.                  *)
LEMMA BootsLeft ==
  ASSUME TypeOK, NEW s \in Sidecar, TotalBoots < MaxBoots
  PROVE  session[s] + 1 \in 1..MaxBoots
  <1> DEFINE B == {b \in Sidecar \X (1..MaxBoots) : b[2] <= session[b[1]]}
  <1>1. session[s] \in 0..MaxBoots
    BY DEF TypeOK
  <1>2. CASE session[s] = MaxBoots
    <2> DEFINE f == [k \in 1..MaxBoots |-> <<s, k>>]
    <2>1. IsFiniteSet(1..MaxBoots) /\ Cardinality(1..MaxBoots) = MaxBoots
      BY FS_Interval
    <2>2. IsFiniteSet(B)
      <3>1. IsFiniteSet(Sidecar \X (1..MaxBoots))
        BY <2>1, FS_Product
      <3> QED BY <3>1, FS_Subset
    <2>3. f \in Injection(1..MaxBoots, B)
      BY <1>2 DEF Injection, IsInjective
    <2>4. MaxBoots <= Cardinality(B)
      BY <2>1, <2>2, <2>3, FS_Injection
    <2>5. Cardinality(B) \in Nat
      BY <2>2, FS_CardinalityType
    <2> QED BY <2>4, <2>5 DEF TotalBoots
  <1> QED BY <1>1, <1>2

LEMMA StatusSet == Status = {"none", "running", "stopped", "exited", "error"}
  BY DEF Status

LEMMA SpawnType ==
  ASSUME TypeInv, NEW s \in Sidecar, phase[s] # "down", NEW p \in Proc, Spawn(s, p)
  PROVE  /\ owner' \in [Proc -> (Sidecar \X (1..MaxBoots)) \cup {Nobody}]
         /\ alive' \subseteq Proc
  BY DEF Spawn, Me, TypeInv, TypeOK, Booted

LEMMA RegisterType ==
  ASSUME TypeInv, NEW s \in Sidecar, NEW st \in {"running", "error"},
         NEW p \in Proc \cup {NoProc}, NEW n \in 0..MaxRestarts, Register(s, st, p, n)
  PROVE  /\ record' \in [Sidecar -> Record]
         /\ row' \in [Sidecar -> [status : Status, proc : Proc \cup {NoProc}]]
         /\ mode' \in [Sidecar -> BOOLEAN] /\ bound' \in [Sidecar -> BOOLEAN]
  BY StatusSet DEF Register, Record, TypeInv, TypeOK

LEMMA UnregisterType ==
  ASSUME TypeInv, NEW s \in Sidecar, NEW st \in Status, Unregister(s, st)
  PROVE  /\ row' \in [Sidecar -> [status : Status, proc : Proc \cup {NoProc}]]
         /\ mode' \in [Sidecar -> BOOLEAN] /\ bound' \in [Sidecar -> BOOLEAN]
  BY DEF Unregister, TypeInv, TypeOK

LEMMA KillType ==
  ASSUME TypeInv, NEW P, Kill(P)
  PROVE  alive' \subseteq Proc /\ exits' \in [Sidecar -> SUBSET Proc]
  BY DEF Kill, TypeInv, TypeOK

LEMMA StopRecordType ==
  ASSUME TypeInv, NEW s \in Sidecar, StopRecord(s)
  PROVE  /\ record' \in [Sidecar -> Record]
         /\ row' \in [Sidecar -> [status : Status, proc : Proc \cup {NoProc}]]
         /\ mode' \in [Sidecar -> BOOLEAN] /\ bound' \in [Sidecar -> BOOLEAN]
         /\ term' \subseteq Proc /\ ledger' \subseteq Proc
  <1>1. record[s] \in Record
    BY DEF TypeInv, TypeOK
  <1>2. record' \in [Sidecar -> Record]
    BY <1>1, StatusSet DEF StopRecord, Record, TypeInv, TypeOK
  <1>3. term' \subseteq Proc
    BY <1>1 DEF StopRecord, Record, TypeInv, TypeOK
  <1>4. ledger' \subseteq Proc
    BY DEF StopRecord, RemoveSpawn, TypeInv, TypeOK
  <1>5. Unregister(s, "stopped")
    BY DEF StopRecord
  <1> QED BY <1>2, <1>3, <1>4, <1>5, UnregisterType, StatusSet

LEMMA MarkExitedType ==
  ASSUME TypeInv, NEW s \in Sidecar, phase[s] # "down", MarkExited(s)
  PROVE  /\ record' \in [Sidecar -> Record]
         /\ row' \in [Sidecar -> [status : Status, proc : Proc \cup {NoProc}]]
         /\ mode' \in [Sidecar -> BOOLEAN] /\ bound' \in [Sidecar -> BOOLEAN]
         /\ owner' \in [Proc -> (Sidecar \X (1..MaxBoots)) \cup {Nobody}]
         /\ alive' \subseteq Proc /\ ledger' \subseteq Proc /\ restarted' \subseteq Proc
  <1>r. record[s] \in Record
    BY DEF TypeInv, TypeOK
  <1>1. CASE UNCHANGED <<record, row, mode, bound, owner, alive, ledger, restarted>>
    BY <1>1 DEF TypeInv, TypeOK
  <1>2. CASE /\ RemoveSpawn(record[s].proc)
             /\ UNCHANGED <<record, row, mode, bound, owner, alive, restarted>>
    BY <1>2 DEF RemoveSpawn, TypeInv, TypeOK
  <1>3. CASE record[s].restarts < MaxRestarts /\ RestartRuntime(s) /\ UNCHANGED ledger
    <2> DEFINE n == record[s].restarts + 1
    <2>1. n \in 0..MaxRestarts
      BY <1>3, <1>r DEF Record
    <2>2. ASSUME NEW p \in Proc, Spawn(s, p), Register(s, "running", p, n),
                 restarted' = restarted \cup {p}
          PROVE  /\ record' \in [Sidecar -> Record]
                 /\ row' \in [Sidecar -> [status : Status, proc : Proc \cup {NoProc}]]
                 /\ mode' \in [Sidecar -> BOOLEAN] /\ bound' \in [Sidecar -> BOOLEAN]
                 /\ owner' \in [Proc -> (Sidecar \X (1..MaxBoots)) \cup {Nobody}]
                 /\ alive' \subseteq Proc /\ restarted' \subseteq Proc
      <3>1. restarted' \subseteq Proc
        BY <2>2 DEF TypeInv, TypeOK
      <3> QED BY <2>1, <2>2, <3>1, SpawnType, RegisterType
    <2>3. ASSUME SpawnNothing, Register(s, "error", NoProc, n), UNCHANGED restarted
          PROVE  /\ record' \in [Sidecar -> Record]
                 /\ row' \in [Sidecar -> [status : Status, proc : Proc \cup {NoProc}]]
                 /\ mode' \in [Sidecar -> BOOLEAN] /\ bound' \in [Sidecar -> BOOLEAN]
                 /\ owner' \in [Proc -> (Sidecar \X (1..MaxBoots)) \cup {Nobody}]
                 /\ alive' \subseteq Proc /\ restarted' \subseteq Proc
      <3>1. /\ owner' \in [Proc -> (Sidecar \X (1..MaxBoots)) \cup {Nobody}]
            /\ alive' \subseteq Proc /\ restarted' \subseteq Proc
        BY <2>3 DEF SpawnNothing, TypeInv, TypeOK
      <3> QED BY <2>1, <2>3, <3>1, RegisterType
    <2>4. ledger' \subseteq Proc
      BY <1>3 DEF TypeInv, TypeOK
    <2> QED BY <1>3, <2>2, <2>3, <2>4 DEF RestartRuntime
  <1>4. CASE /\ record' = [record EXCEPT ![s].status = "exited"]
             /\ Unregister(s, "exited")
             /\ RemoveSpawn(record[s].proc)
             /\ UNCHANGED <<owner, alive, restarted>>
    <2>1. record' \in [Sidecar -> Record]
      BY <1>4, <1>r, StatusSet DEF Record, TypeInv, TypeOK
    <2>2. /\ owner' \in [Proc -> (Sidecar \X (1..MaxBoots)) \cup {Nobody}]
          /\ alive' \subseteq Proc /\ ledger' \subseteq Proc /\ restarted' \subseteq Proc
      BY <1>4 DEF RemoveSpawn, TypeInv, TypeOK
    <2> QED BY <1>4, <2>1, <2>2, UnregisterType, StatusSet
  <1> QED BY <1>1, <1>2, <1>3, <1>4 DEF MarkExited

(* The steps of one sidecar.                                               *)
Act(s) ==
    \/ \E c \in Caller : \/ TeamLaunch(s, c) \/ AgentLaunch(s, c) \/ LaunchAgent(s, c)
                         \/ LaunchReturns(s, c) \/ PromptFails(s, c)
    \/ StopAgent(s)
    \/ \E p \in Proc : OnExit(s, p)
    \/ Crash(s) \/ Boot(s) \/ Sweep(s)

LEMMA NextActs == Next <=> (\E s \in Sidecar : Act(s)) \/ (\E p \in Proc : Die(p))
  BY DEF Next, Act

(* A step of a call, whatever it waits for next.                           *)
LEMMA CallerType ==
  ASSUME TypeInv, NEW s \in Sidecar, NEW c \in Caller,
         NEW w \in {"idle", "preflight", "prompt"}, caller' = [caller EXCEPT ![s][c] = w]
  PROVE  caller' \in [Sidecar -> [Caller -> {"idle", "preflight", "prompt"}]]
  <1>1. caller \in [Sidecar -> [Caller -> {"idle", "preflight", "prompt"}]]
    BY DEF TypeInv, TypeOK
  <1> QED BY <1>1

(* A row and its delivery mode are cleared.                                *)
LEMMA ClearType ==
  ASSUME TypeInv, NEW s \in Sidecar,
         \/ /\ row' = [row EXCEPT ![s].status = "stopped"]
            /\ mode' = [mode EXCEPT ![s] = FALSE]
         \/ UNCHANGED <<row, mode>>
  PROVE  /\ row' \in [Sidecar -> [status : Status, proc : Proc \cup {NoProc}]]
         /\ mode' \in [Sidecar -> BOOLEAN]
  <1>1. /\ row \in [Sidecar -> [status : Status, proc : Proc \cup {NoProc}]]
        /\ mode \in [Sidecar -> BOOLEAN]
    BY DEF TypeInv, TypeOK
  <1> QED BY <1>1, StatusSet

LEMMA LaunchType ==
  ASSUME TypeInv, NEW s \in Sidecar, NEW c \in Caller, LaunchAgent(s, c)
  PROVE  TypeInv'
  <1>1. /\ phase' = phase /\ session' = session /\ term' = term /\ exits' = exits
        /\ restarted' = restarted /\ phase[s] # "down"
    BY DEF LaunchAgent
  <1>2. /\ adapter' \in [Sidecar -> BOOLEAN] /\ overtaken' \in [Sidecar -> BOOLEAN]
        /\ caller' \in [Sidecar -> [Caller -> {"idle", "preflight", "prompt"}]]
    BY CallerType DEF LaunchAgent, TypeInv, TypeOK
  <1>3. ASSUME NEW p \in Proc, Spawn(s, p), Register(s, "running", p, 0),
               ledger' = ledger \cup {p}
        PROVE  TypeInv'
    <2>1. ledger' \subseteq Proc
      BY <1>3 DEF TypeInv, TypeOK
    <2> QED BY <1>1, <1>2, <1>3, <2>1, SpawnType, RegisterType DEF TypeInv, TypeOK, Booted
  <1>4. ASSUME NEW st \in {"running", "error"}, SpawnNothing, Register(s, st, NoProc, 0),
               UNCHANGED ledger
        PROVE  TypeInv'
    <2>1. 0 \in 0..MaxRestarts
      OBVIOUS
    <2>2. /\ record' \in [Sidecar -> Record]
          /\ row' \in [Sidecar -> [status : Status, proc : Proc \cup {NoProc}]]
          /\ mode' \in [Sidecar -> BOOLEAN] /\ bound' \in [Sidecar -> BOOLEAN]
      BY <1>4, <2>1, RegisterType
    <2> QED BY <1>1, <1>2, <1>4, <2>2 DEF SpawnNothing, TypeInv, TypeOK, Booted
  <1> QED BY <1>3, <1>4 DEF LaunchAgent

LEMMA TypeNext == TypeInv /\ Next => TypeInv'
  <1>1. ASSUME TypeInv, NEW s \in Sidecar, NEW c \in Caller, TeamLaunch(s, c) PROVE TypeInv'
    <2>1. /\ row' \in [Sidecar -> [status : Status, proc : Proc \cup {NoProc}]]
          /\ mode' \in [Sidecar -> BOOLEAN]
      BY <1>1, ClearType DEF TeamLaunch
    <2>2. caller' \in [Sidecar -> [Caller -> {"idle", "preflight", "prompt"}]]
      BY <1>1, CallerType DEF TeamLaunch
    <2> QED BY <1>1, <2>1, <2>2 DEF TeamLaunch, osVars, TypeInv, TypeOK, Booted
  <1>2. ASSUME TypeInv, NEW s \in Sidecar, NEW c \in Caller,
               AgentLaunch(s, c) \/ LaunchReturns(s, c)
        PROVE  TypeInv'
    <2>1. caller' \in [Sidecar -> [Caller -> {"idle", "preflight", "prompt"}]]
      BY <1>2, CallerType DEF AgentLaunch, LaunchReturns
    <2> QED BY <1>2, <2>1 DEF AgentLaunch, LaunchReturns, osVars, TypeInv, TypeOK, Booted
  <1>3. ASSUME TypeInv, NEW s \in Sidecar, NEW c \in Caller, PromptFails(s, c) PROVE TypeInv'
    <2>1. StopRecord(s)
      BY <1>3 DEF PromptFails
    <2>2. caller' \in [Sidecar -> [Caller -> {"idle", "preflight", "prompt"}]]
      BY <1>3, CallerType DEF PromptFails
    <2> QED BY <1>3, <2>1, <2>2, StopRecordType DEF PromptFails, TypeInv, TypeOK, Booted
  <1>4. ASSUME TypeInv, NEW s \in Sidecar, StopAgent(s) PROVE TypeInv'
    <2>1. StopRecord(s)
      BY <1>4 DEF StopAgent
    <2> QED BY <1>4, <2>1, StopRecordType DEF StopAgent, TypeInv, TypeOK, Booted
  <1>5. ASSUME TypeInv, NEW s \in Sidecar, NEW p \in Proc, OnExit(s, p) PROVE TypeInv'
    <2>1. MarkExited(s) /\ phase[s] # "down"
      BY <1>5 DEF OnExit
    <2>2. exits' \in [Sidecar -> SUBSET Proc]
      BY <1>5 DEF OnExit, TypeInv, TypeOK
    <2> QED BY <1>5, <2>1, <2>2, MarkExitedType DEF OnExit, TypeInv, TypeOK, Booted
  <1>6. ASSUME TypeInv, NEW s \in Sidecar, Crash(s) PROVE TypeInv'
    <2>1. NoRecord \in Record
      BY StatusSet DEF NoRecord, Record
    <2> QED BY <1>6, <2>1 DEF Crash, osVars, TypeInv, TypeOK, Booted
  <1>7. ASSUME TypeInv, NEW s \in Sidecar, Boot(s) PROVE TypeInv'
    <2>1. session[s] + 1 \in 1..MaxBoots
      BY <1>7, BootsLeft DEF Boot, TypeInv
    <2>2. session' \in [Sidecar -> 0..MaxBoots] /\ Booted'
      BY <1>7, <2>1 DEF Boot, TypeInv, TypeOK, Booted
    <2>3. /\ row' \in [Sidecar -> [status : Status, proc : Proc \cup {NoProc}]]
          /\ mode' \in [Sidecar -> BOOLEAN]
      BY <1>7, ClearType DEF Boot
    <2>4. bound' \in [Sidecar -> BOOLEAN]
      BY <1>7, <2>3 DEF Boot, TypeInv, TypeOK
    <2>5. alive' \subseteq Proc /\ exits' \in [Sidecar -> SUBSET Proc]
      BY <1>7, KillType DEF Boot
    <2> QED BY <1>7, <2>2, <2>3, <2>4, <2>5 DEF Boot, TypeInv, TypeOK
  <1>8. ASSUME TypeInv, NEW s \in Sidecar, Sweep(s) PROVE TypeInv'
    <2>1. alive' \subseteq Proc /\ exits' \in [Sidecar -> SUBSET Proc]
      BY <1>8, KillType DEF Sweep
    <2> QED BY <1>8, <2>1 DEF Sweep, TypeInv, TypeOK, Booted
  <1>9. ASSUME TypeInv, NEW p \in Proc, Die(p) PROVE TypeInv'
    <2>1. alive' \subseteq Proc /\ exits' \in [Sidecar -> SUBSET Proc]
      BY <1>9, KillType DEF Die
    <2> QED BY <1>9, <2>1 DEF Die, TypeInv, TypeOK, Booted
  <1> QED BY <1>1, <1>2, <1>3, <1>4, <1>5, <1>6, <1>7, <1>8, <1>9, LaunchType, NextActs DEF Act

LEMMA TypeAlways == Spec => []TypeInv
  <1>1. Init => TypeInv
    BY StatusSet DEF Init, NoRecord, Record, TypeInv, TypeOK, Booted
  <1>2. TypeInv /\ UNCHANGED vars => TypeInv'
    BY DEF vars, osVars, TypeInv, TypeOK, Booted
  <1> QED BY <1>1, <1>2, TypeNext, PTL DEF Spec

(* The records, rows, directories and process sets of all sidecars always  *)
(* have their types; in particular no runtime is restarted beyond its      *)
(* policy.                                                                 *)
THEOREM SupervisorTypeCorrect == Spec => []TypeOK
  BY TypeAlways, PTL DEF TypeInv

-----------------------------------------------------------------------------
(* What holds of one sidecar.  RowMatchesRecord and RoutedIsRegistered are *)
(* not inductive by themselves: a stale-row cleanup of team_launch is      *)
(* harmless because every runtime that was not stopped has its adapter, a  *)
(* late exit because a process of this session implies a record, and a     *)
(* boot because only running rows have a delivery mode.                    *)

UpView(s) ==
    /\ record[s].status = "running" <=> row[s].status = "running"
    /\ record[s].status = "running" => row[s].proc = record[s].proc
    /\ record[s].status = "running" => bound[s] /\ mode[s]
    /\ mode[s] => record[s].status = "running"
    /\ bound[s] => record[s].status \in {"running", "error"}
    /\ record[s].status \notin {"none", "stopped"} => adapter[s]
    /\ record[s].status = "none" => Mine(s) = {}

View(s) ==
    /\ phase[s] # "down" => UpView(s)
    /\ phase[s] = "down" => record[s] = NoRecord /\ exits[s] = {}
    /\ mode[s] => row[s].status = "running"
    /\ \A p \in Proc, k \in Nat : owner[p] = <<s, k>> => k <= session[s]
    /\ exits[s] \subseteq Mine(s)

ViewInv == TypeInv /\ \A s \in Sidecar : View(s)

(* The processes of a sidecar that does not act.                           *)
LEMMA MineKept ==
  ASSUME ViewInv, NEW s \in Sidecar, NEW t \in Sidecar, t # s, session'[t] = session[t],
         owner' = owner \/ \E p \in Proc : Spawn(s, p)
  PROVE  /\ Mine(t)' = Mine(t)
         /\ \A p \in Proc, k \in Nat : owner'[p] = <<t, k>> => owner[p] = <<t, k>>
  <1>1. CASE owner' = owner
    BY <1>1 DEF Mine, Me
  <1>2. ASSUME NEW p \in Proc, Spawn(s, p)
        PROVE  /\ Mine(t)' = Mine(t)
               /\ \A q \in Proc, k \in Nat : owner'[q] = <<t, k>> => owner[q] = <<t, k>>
    <2>1. owner \in [Proc -> (Sidecar \X (1..MaxBoots)) \cup {Nobody}]
      BY DEF ViewInv, TypeInv, TypeOK
    <2>2. owner[p] = Nobody /\ owner' = [owner EXCEPT ![p] = <<s, session[s]>>]
      BY <1>2 DEF Spawn, Unspawned, Me
    <2>3. \A k \in Nat : Nobody # <<t, k>>
      BY DEF Nobody
    <2>4. ASSUME NEW q \in Proc, NEW k \in Nat, owner'[q] = <<t, k>> PROVE owner[q] = <<t, k>>
      BY <2>1, <2>2, <2>4
    <2>5. \A q \in Proc : owner'[q] = <<t, session[t]>> <=> owner[q] = <<t, session[t]>>
      BY <2>1, <2>2, <2>3 DEF ViewInv, TypeInv, TypeOK
    <2> QED BY <2>4, <2>5 DEF Mine, Me
  <1> QED BY <1>1, <1>2

(* What a step leaves of a sidecar that does not act.                      *)
Untouched(t) ==
    /\ phase'[t] = phase[t] /\ session'[t] = session[t]
    /\ record'[t] = record[t] /\ row'[t] = row[t] /\ mode'[t] = mode[t]
    /\ bound'[t] = bound[t] /\ adapter'[t] = adapter[t]
    /\ exits'[t] \subseteq exits[t] \cup Mine(t)
    /\ phase[t] = "down" => exits'[t] \subseteq exits[t]

LEMMA Frame ==
  ASSUME NEW t \in Sidecar, View(t), Untouched(t), Mine(t)' = Mine(t),
         \A p \in Proc, k \in Nat : owner'[p] = <<t, k>> => owner[p] = <<t, k>>
  PROVE  View(t)'
  <1>1. CASE phase[t] = "down"
    BY <1>1 DEF View, Untouched
  <1>2. CASE phase[t] # "down"
    BY <1>2 DEF View, UpView, Untouched
  <1> QED BY <1>1, <1>2

(* What Kill does to the exit events, and MarkExited to the rest.          *)
LEMMA KillExits ==
  ASSUME ViewInv, NEW P, Kill(P), NEW t \in Sidecar
  PROVE  /\ exits'[t] \subseteq exits[t] \cup Mine(t)
         /\ phase[t] = "down" => exits'[t] = {}
  BY DEF Kill

LEMMA MarkExitedOthers ==
  ASSUME ViewInv, NEW s \in Sidecar, MarkExited(s)
  PROVE  /\ \A t \in Sidecar \ {s} : /\ record'[t] = record[t] /\ row'[t] = row[t]
                                     /\ mode'[t] = mode[t] /\ bound'[t] = bound[t]
         /\ owner' = owner \/ \E p \in Proc : Spawn(s, p)
  <1> USE DEF ViewInv, TypeInv, TypeOK
  <1>1. CASE RestartRuntime(s)
    BY <1>1 DEF RestartRuntime, SpawnNothing, Register
  <1>2. CASE record' = [record EXCEPT ![s].status = "exited"] /\ Unregister(s, "exited")
             /\ UNCHANGED <<owner, alive, restarted>>
    BY <1>2 DEF Unregister
  <1>3. CASE UNCHANGED <<record, row, mode, bound, owner, alive, restarted>>
    BY <1>3
  <1> QED BY <1>1, <1>2, <1>3 DEF MarkExited

LEMMA OthersUntouched ==
  ASSUME ViewInv, NEW s \in Sidecar, NEW t \in Sidecar, t # s, Act(s)
  PROVE  Untouched(t) /\ (owner' = owner \/ \E p \in Proc : Spawn(s, p))
  <1>t. TypeOK
    BY DEF ViewInv, TypeInv
  <1>1. ASSUME NEW c \in Caller,
               TeamLaunch(s, c) \/ AgentLaunch(s, c) \/ LaunchReturns(s, c)
        PROVE  Untouched(t) /\ owner' = owner
    BY <1>1, <1>t DEF TeamLaunch, AgentLaunch, LaunchReturns, osVars, Untouched, TypeOK
  <1>2. ASSUME NEW c \in Caller, LaunchAgent(s, c)
        PROVE  Untouched(t) /\ (owner' = owner \/ \E p \in Proc : Spawn(s, p))
    BY <1>2, <1>t DEF LaunchAgent, SpawnNothing, Register, Untouched, TypeOK
  <1>3. ASSUME NEW c \in Caller, PromptFails(s, c)
        PROVE  Untouched(t) /\ owner' = owner
    BY <1>3, <1>t DEF PromptFails, StopRecord, Unregister, Untouched, TypeOK
  <1>4. CASE StopAgent(s)
    BY <1>4, <1>t DEF StopAgent, StopRecord, Unregister, Untouched, TypeOK
  <1>5. ASSUME NEW p \in Proc, OnExit(s, p)
        PROVE  Untouched(t) /\ (owner' = owner \/ \E q \in Proc : Spawn(s, q))
    <2>1. MarkExited(s)
      BY <1>5 DEF OnExit
    <2>2. exits'[t] = exits[t] /\ phase' = phase /\ session' = session /\ adapter' = adapter
      BY <1>5, <1>t DEF OnExit, TypeOK
    <2> QED BY <2>1, <2>2, MarkExitedOthers DEF Untouched
  <1>6. CASE Crash(s)
    BY <1>6, <1>t DEF Crash, osVars, Untouched, TypeOK
  <1>7. CASE Boot(s)
    <2>1. exits'[t] \subseteq exits[t] \cup Mine(t) /\ (phase[t] = "down" => exits'[t] = {})
      BY <1>7, KillExits DEF Boot
    <2>2. /\ phase'[t] = phase[t] /\ session'[t] = session[t] /\ row'[t] = row[t]
          /\ mode'[t] = mode[t] /\ bound'[t] = bound[t]
      BY <1>7, <1>t DEF Boot, TypeOK
    <2> QED BY <1>7, <2>1, <2>2 DEF Boot, Untouched
  <1>8. CASE Sweep(s)
    <2>1. exits'[t] \subseteq exits[t] \cup Mine(t) /\ (phase[t] = "down" => exits'[t] = {})
      BY <1>8, KillExits DEF Sweep
    <2>2. phase'[t] = phase[t]
      BY <1>8, <1>t DEF Sweep, TypeOK
    <2> QED BY <1>8, <2>1, <2>2 DEF Sweep, Untouched
  <1> QED BY <1>1, <1>2, <1>3, <1>4, <1>5, <1>6, <1>7, <1>8 DEF Act

LEMMA OthersKeep ==
  ASSUME ViewInv, NEW s \in Sidecar, Act(s)
  PROVE  \A t \in Sidecar \ {s} : View(t)'
  BY OthersUntouched, MineKept, Frame DEF ViewInv, Untouched

-----------------------------------------------------------------------------
(* The sidecar that acts.                                                  *)

LEMMA SpawnMine ==
  ASSUME ViewInv, NEW s \in Sidecar, NEW p \in Proc, Spawn(s, p), session'[s] = session[s]
  PROVE  /\ Mine(s)' = Mine(s) \cup {p}
         /\ \A q \in Proc, k \in Nat : owner'[q] = <<s, k>> => k <= session[s]
  <1>1. owner \in [Proc -> (Sidecar \X (1..MaxBoots)) \cup {Nobody}] /\ session[s] \in Nat
    BY DEF ViewInv, TypeInv, TypeOK
  <1>2. owner' = [owner EXCEPT ![p] = <<s, session[s]>>]
    BY DEF Spawn, Me
  <1>3. \A q \in Proc, k \in Nat : owner[q] = <<s, k>> => k <= session[s]
    BY DEF ViewInv, View
  <1>4. ASSUME NEW q \in Proc, NEW k \in Nat, owner'[q] = <<s, k>> PROVE k <= session[s]
    <2>1. CASE q = p
      BY <1>1, <1>2, <1>4, <2>1
    <2>2. CASE q # p
      BY <1>1, <1>2, <1>3, <1>4, <2>2
    <2> QED BY <2>1, <2>2
  <1>5. \A q \in Proc : owner'[q] = <<s, session[s]>> <=> q = p \/ owner[q] = <<s, session[s]>>
    BY <1>1, <1>2
  <1> QED BY <1>4, <1>5 DEF Mine, Me

(* A running or failed launch, or restart, is registered.                  *)
LEMMA RegisterView ==
  ASSUME ViewInv, NEW s \in Sidecar, NEW st \in {"running", "error"},
         NEW p \in Proc \cup {NoProc}, NEW n \in 0..MaxRestarts, Register(s, st, p, n),
         phase[s] # "down", phase' = phase, session' = session, adapter'[s] = TRUE,
         exits'[s] \subseteq exits[s],
         (Spawn(s, p) /\ p \in Proc) \/ SpawnNothing
  PROVE  View(s)'
  <1>1. /\ record'[s] = [status |-> st, proc |-> p, stopRequested |-> FALSE, restarts |-> n]
        /\ row'[s] = [status |-> st, proc |-> p]
        /\ mode'[s] = (st = "running") /\ bound'[s] = TRUE
    BY DEF Register, ViewInv, TypeInv, TypeOK
  <1>2. /\ Mine(s) \subseteq Mine(s)'
        /\ \A q \in Proc, k \in Nat : owner'[q] = <<s, k>> => k <= session[s]
    <2>1. CASE SpawnNothing
      BY <2>1 DEF SpawnNothing, Mine, Me, ViewInv, View
    <2>2. CASE Spawn(s, p) /\ p \in Proc
      BY <2>2, SpawnMine
    <2> QED BY <2>1, <2>2
  <1>3. exits'[s] \subseteq Mine(s)'
    BY <1>2 DEF ViewInv, View
  <1>4. UpView(s)'
    <2>1. record'[s].status = st /\ record'[s].proc = p
          /\ row'[s].status = st /\ row'[s].proc = p
      BY <1>1
    <2> QED BY <1>1, <2>1 DEF UpView
  <1>5. phase'[s] # "down" /\ (mode'[s] => row'[s].status = "running")
    <2>1. CASE st = "running"
      BY <1>1, <2>1
    <2>2. CASE st = "error"
      <3>1. mode'[s] = FALSE
        BY <1>1, <2>2
      <3> QED BY <3>1
    <2> QED BY <2>1, <2>2
  <1> QED BY <1>2, <1>3, <1>4, <1>5 DEF View

(* A running runtime that ends: stopped by the user or gone by itself.     *)
LEMMA UnregisterView ==
  ASSUME ViewInv, NEW s \in Sidecar, NEW st \in {"stopped", "exited"}, Unregister(s, st),
         phase[s] # "down", phase' = phase, session' = session, owner' = owner,
         record'[s].status = st, adapter'[s] = adapter[s] \/ st = "stopped",
         st = "exited" => adapter[s],
         exits'[s] \subseteq exits[s]
  PROVE  View(s)'
  <1>1. row'[s].status = st /\ mode'[s] = FALSE /\ bound'[s] = FALSE
    BY DEF Unregister, ViewInv, TypeInv, TypeOK
  <1>2. Mine(s)' = Mine(s)
    BY DEF Mine, Me
  <1>3. UpView(s)'
    <2>1. record'[s].status # "none" /\ record'[s].status # "running"
      OBVIOUS
    <2>2. st = "exited" => adapter'[s]
      OBVIOUS
    <2> QED BY <1>1, <2>1, <2>2 DEF UpView
  <1>4. \A p \in Proc, k \in Nat : owner[p] = <<s, k>> => k <= session[s]
    BY DEF ViewInv, View
  <1>5. exits[s] \subseteq Mine(s)
    BY DEF ViewInv, View
  <1> QED BY <1>1, <1>2, <1>3, <1>4, <1>5 DEF View

LEMMA StopView ==
  ASSUME ViewInv, NEW s \in Sidecar, StopRecord(s),
         phase[s] # "down", phase' = phase, session' = session, owner' = owner, exits' = exits
  PROVE  View(s)'
  <1>1. record'[s].status = "stopped"
    BY DEF StopRecord, ViewInv, TypeInv, TypeOK, Record
  <1> QED BY <1>1, UnregisterView DEF StopRecord

LEMMA ExitView ==
  ASSUME ViewInv, NEW s \in Sidecar, NEW p \in Proc, OnExit(s, p)
  PROVE  View(s)'
  <1>1. /\ phase[s] # "down" /\ phase' = phase /\ session' = session /\ adapter' = adapter
        /\ p \in exits[s] /\ exits'[s] = exits[s] \ {p} /\ MarkExited(s)
    BY DEF OnExit, ViewInv, TypeInv, TypeOK
  <1>2. record[s].status # "none" /\ record[s] \in Record
    BY <1>1 DEF ViewInv, View, UpView, TypeInv, TypeOK
  <1>3. CASE UNCHANGED <<record, row, mode, bound, owner>>
    <2>1. Mine(s)' = Mine(s)
      BY <1>1, <1>3 DEF Mine, Me
    <2> QED BY <1>1, <1>3, <2>1 DEF ViewInv, View, UpView
  <1>4. CASE record[s].status # "stopped" /\ record[s].restarts < MaxRestarts /\ RestartRuntime(s)
    <2> DEFINE n == record[s].restarts + 1
    <2>1. n \in 0..MaxRestarts
      BY <1>2, <1>4 DEF Record
    <2>2. adapter'[s] = TRUE
      BY <1>1, <1>2, <1>4 DEF ViewInv, View, UpView, TypeInv, TypeOK
    <2>3. ASSUME NEW q \in Proc, Spawn(s, q), Register(s, "running", q, n) PROVE View(s)'
      BY <1>1, <2>1, <2>2, <2>3, RegisterView
    <2>4. ASSUME SpawnNothing, Register(s, "error", NoProc, n) PROVE View(s)'
      BY <1>1, <2>1, <2>2, <2>4, RegisterView
    <2> QED BY <1>4, <2>3, <2>4 DEF RestartRuntime
  <1>5. CASE /\ record[s].status # "stopped"
             /\ record' = [record EXCEPT ![s].status = "exited"]
             /\ Unregister(s, "exited") /\ owner' = owner
    <2>1. record'[s].status = "exited"
      BY <1>2, <1>5 DEF Record, ViewInv, TypeInv, TypeOK
    <2>2. adapter[s]
      BY <1>1, <1>2, <1>5 DEF ViewInv, View, UpView
    <2> QED BY <1>1, <1>5, <2>1, <2>2, UnregisterView
  <1> QED BY <1>1, <1>3, <1>4, <1>5 DEF MarkExited

LEMMA BootView ==
  ASSUME ViewInv, NEW s \in Sidecar, Boot(s)
  PROVE  View(s)'
  <1>1. /\ phase[s] = "down" /\ phase'[s] = "unswept" /\ session'[s] = session[s] + 1
        /\ record'[s] = NoRecord /\ owner' = owner /\ exits'[s] = {} /\ session[s] \in Nat
    BY KillExits DEF Boot, ViewInv, View, TypeInv, TypeOK
  <1>2. row'[s].status # "running" /\ mode'[s] = FALSE /\ bound'[s] = FALSE
    <2>1. /\ row \in [Sidecar -> [status : Status, proc : Proc \cup {NoProc}]]
          /\ mode \in [Sidecar -> BOOLEAN] /\ bound \in [Sidecar -> BOOLEAN]
          /\ mode[s] => row[s].status = "running"
      BY DEF ViewInv, View, TypeInv, TypeOK
    <2>2. row'[s].status # "running" /\ mode'[s] = FALSE
      BY <2>1 DEF Boot
    <2> QED BY <2>1, <2>2 DEF Boot
  <1>3. \A p \in Proc, k \in Nat : owner[p] = <<s, k>> => k <= session[s]
    BY DEF ViewInv, View
  <1>4. Mine(s)' = {}
    BY <1>1, <1>3 DEF Mine, Me
  <1> QED BY <1>1, <1>2, <1>3, <1>4 DEF View, UpView, NoRecord

(* A step that leaves everything of s but its processes and exits.         *)
LEMMA ActorFrame ==
  ASSUME ViewInv, NEW s \in Sidecar, phase[s] # "down", phase'[s] # "down",
         session' = session, owner' = owner,
         record' = record, row' = row, mode' = mode, bound' = bound, adapter' = adapter,
         exits'[s] \subseteq exits[s] \cup Mine(s)
  PROVE  View(s)'
  <1>1. Mine(s)' = Mine(s)
    BY DEF Mine, Me
  <1>2. View(s)
    BY DEF ViewInv
  <1>3. UpView(s)'
    BY <1>1, <1>2 DEF View, UpView
  <1> QED BY <1>1, <1>2, <1>3 DEF View

LEMMA LaunchView ==
  ASSUME ViewInv, NEW s \in Sidecar, NEW c \in Caller, LaunchAgent(s, c)
  PROVE  View(s)'
  <1>1. /\ phase[s] # "down" /\ phase' = phase /\ session' = session /\ exits' = exits
        /\ adapter'[s] = TRUE /\ 0 \in 0..MaxRestarts
    BY DEF LaunchAgent, ViewInv, TypeInv, TypeOK
  <1>2. ASSUME NEW p \in Proc, Spawn(s, p), Register(s, "running", p, 0) PROVE View(s)'
    BY <1>1, <1>2, RegisterView
  <1>3. ASSUME NEW st \in {"running", "error"}, SpawnNothing, Register(s, st, NoProc, 0)
        PROVE  View(s)'
    BY <1>1, <1>3, RegisterView
  <1> QED BY <1>2, <1>3 DEF LaunchAgent

(* team_launch never finds a running row whose adapter is gone.            *)
LEMMA TeamLaunchView ==
  ASSUME ViewInv, NEW s \in Sidecar, NEW c \in Caller, TeamLaunch(s, c)
  PROVE  View(s)'
  <1>1. phase[s] # "down" /\ row[s].status # "running"
    BY DEF TeamLaunch, ViewInv, View, UpView
  <1>2. /\ phase' = phase /\ session' = session /\ owner' = owner /\ record' = record
        /\ row' = row /\ mode' = mode /\ bound' = bound /\ adapter' = adapter /\ exits' = exits
    BY <1>1 DEF TeamLaunch, osVars
  <1> QED BY <1>1, <1>2, ActorFrame

LEMMA ActorKeeps ==
  ASSUME ViewInv, NEW s \in Sidecar, Act(s)
  PROVE  View(s)'
  <1>1. ASSUME NEW c \in Caller, AgentLaunch(s, c) \/ LaunchReturns(s, c) PROVE View(s)'
    BY <1>1, ActorFrame DEF AgentLaunch, LaunchReturns, osVars
  <1>2. ASSUME NEW c \in Caller, PromptFails(s, c) PROVE View(s)'
    BY <1>2, StopView DEF PromptFails
  <1>3. CASE StopAgent(s)
    BY <1>3, StopView DEF StopAgent
  <1>4. CASE Crash(s)
    <2>1. /\ phase'[s] = "down" /\ record'[s] = NoRecord /\ exits'[s] = {}
          /\ session' = session /\ owner' = owner /\ row' = row /\ mode' = mode
      BY <1>4 DEF Crash, osVars, ViewInv, TypeInv, TypeOK
    <2> QED BY <2>1 DEF ViewInv, View
  <1>5. CASE Sweep(s)
    <2>1. exits'[s] \subseteq exits[s] \cup Mine(s)
      BY <1>5, KillExits DEF Sweep
    <2>2. phase[s] # "down" /\ phase'[s] # "down"
      BY <1>5 DEF Sweep, ViewInv, TypeInv, TypeOK
    <2> QED BY <1>5, <2>1, <2>2, ActorFrame DEF Sweep
  <1> QED BY <1>1, <1>2, <1>3, <1>4, <1>5, LaunchView, TeamLaunchView, ExitView, BootView DEF Act

LEMMA DieKeeps ==
  ASSUME ViewInv, NEW p \in Proc, Die(p), NEW t \in Sidecar
  PROVE  View(t)'
  <1>1. /\ exits'[t] \subseteq exits[t] \cup Mine(t)
        /\ phase[t] = "down" => exits'[t] = {}
    BY KillExits DEF Die
  <1>2. Untouched(t) /\ owner' = owner
    BY <1>1 DEF Die, Untouched
  <1>3. Mine(t)' = Mine(t)
    BY <1>2 DEF Mine, Me, Untouched
  <1> QED BY <1>2, <1>3, Frame DEF ViewInv

LEMMA ViewNext == ViewInv /\ Next => ViewInv'
  <1>1. ASSUME ViewInv, NEW s \in Sidecar, Act(s) PROVE \A t \in Sidecar : View(t)'
    BY <1>1, OthersKeep, ActorKeeps
  <1>2. ASSUME ViewInv, NEW p \in Proc, Die(p) PROVE \A t \in Sidecar : View(t)'
    BY <1>2, DieKeeps
  <1> QED BY <1>1, <1>2, NextActs, TypeNext DEF ViewInv

LEMMA ViewAlways == Spec => []ViewInv
  <1>1. Init => ViewInv
    <2>1. Init => TypeInv
      BY StatusSet DEF Init, NoRecord, Record, TypeInv, TypeOK, Booted
    <2>2. ASSUME Init, NEW s \in Sidecar PROVE View(s)
      BY <2>2 DEF Init, View, Nobody
    <2> QED BY <2>1, <2>2 DEF ViewInv
  <1>2. ViewInv /\ UNCHANGED vars => ViewInv'
    BY DEF vars, osVars, ViewInv, View, UpView, Mine, Me, TypeInv, TypeOK, Booted
  <1> QED BY <1>1, <1>2, ViewNext, PTL DEF Spec

(* While the sidecar is up the row and the record agree; no cleanup of a   *)
(* stale row ever hits a live runtime.                                     *)
THEOREM RowsAgree == Spec => []RowMatchesRecord
  <1>1. ViewInv => RowMatchesRecord
    BY DEF ViewInv, View, UpView, RowMatchesRecord
  <1> QED BY <1>1, ViewAlways, PTL

(* Messages are routed to a runtime exactly while it runs, except that the *)
(* binding of a failed spawn stays behind.                                 *)
THEOREM RoutingAgrees == Spec => []RoutedIsRegistered
  <1>1. ViewInv => RoutedIsRegistered
    BY DEF ViewInv, View, UpView, RoutedIsRegistered
  <1> QED BY <1>1, ViewAlways, PTL

-----------------------------------------------------------------------------
(***************************************************************************)
(* Every process has its record, boots leave no zombies, and the sweep     *)
(* ends what crashed sidecars left behind - unless a relaunch overtook the *)
(* exit event of the earlier process.                                      *)
(***************************************************************************)

(* While a sidecar is up and not overtaken, the one process of its session *)
(* that lives, or died unnoticed, is the one its record names; one nobody  *)
(* asked to end has a running record, in a ledger file unless a restart    *)
(* made it.  While the sidecar is down its row still names that process.   *)

OfSidecar(p, s) == \E k \in Nat : owner[p] = <<s, k>>

Wanted == alive \ term

UpOwn(s) ==
    /\ \A p \in Mine(s) : p \in alive \cup exits[s] => p = record[s].proc
    /\ \A p \in Mine(s) : p \in Wanted => record[s].status = "running"
    /\ \A p \in Wanted : OfSidecar(p, s) => p \in Mine(s)

DownOwn(s) ==
    \A p \in Wanted : OfSidecar(p, s) => row[s].status = "running" /\ row[s].proc = p

Listed(s) == \A p \in Wanted \ restarted : OfSidecar(p, s) => p \in ledger

Own(s) ==
    /\ exits[s] \cap alive = {}
    /\ phase[s] # "down" => record[s].proc \in Mine(s) \cup {NoProc}
    /\ ~overtaken[s] /\ phase[s] # "down" => UpOwn(s)
    /\ ~overtaken[s] /\ phase[s] = "down" => DownOwn(s)
    /\ ~overtaken[s] => Listed(s)

OwnParts == alive \cap Unspawned = {} /\ \A s \in Sidecar : Own(s)

OwnInv == ViewInv /\ OwnParts

(* The sidecar and the boot of a process that lives.                       *)
LEMMA OwnerOf ==
  ASSUME OwnInv, NEW p \in alive
  PROVE  /\ owner[p][1] \in Sidecar /\ OfSidecar(p, owner[p][1])
         /\ owner[p] = <<owner[p][1], owner[p][2]>> /\ owner[p][2] \in 1..MaxBoots
         /\ p \in Proc
  <1>1. p \in Proc /\ owner[p] # Nobody
    BY DEF OwnInv, OwnParts, ViewInv, TypeInv, TypeOK, Unspawned
  <1>2. owner[p] \in Sidecar \X (1..MaxBoots)
    BY <1>1 DEF OwnInv, ViewInv, TypeInv, TypeOK
  <1> QED BY <1>1, <1>2 DEF OfSidecar

LEMMA MineOf ==
  ASSUME OwnInv, NEW s \in Sidecar, NEW p \in Mine(s)
  PROVE  OfSidecar(p, s) /\ p \in Proc
  BY DEF Mine, Me, OfSidecar, OwnInv, ViewInv, TypeInv, TypeOK

LEMMA NotAnothers ==
  ASSUME OwnInv, NEW s \in Sidecar, NEW t \in Sidecar, t # s, NEW p \in Mine(s) \cup {NoProc}
  PROVE  p \notin Proc \/ ~OfSidecar(p, t)
  BY DEF Mine, Me, OfSidecar, NoProc, Proc

(* No step gives a process of one sidecar to another.                      *)
LEMMA OwnersKept ==
  ASSUME OwnInv, NEW s \in Sidecar, NEW t \in Sidecar, t # s, session'[t] = session[t],
         owner' = owner \/ \E p \in Proc : Spawn(s, p)
  PROVE  \A p \in Proc : OfSidecar(p, t)' <=> OfSidecar(p, t)
  <1>1. \A q \in Proc : OfSidecar(q, t)' => OfSidecar(q, t)
    BY MineKept DEF OfSidecar, OwnInv
  <1>2. ASSUME NEW q \in Proc, OfSidecar(q, t), NEW p \in Proc, Spawn(s, p)
        PROVE  OfSidecar(q, t)'
    <2>1. owner[p] = Nobody /\ owner' = [owner EXCEPT ![p] = Me(s)]
      BY <1>2 DEF Spawn, Unspawned
    <2>2. \A k \in Nat : Nobody # <<t, k>>
      BY DEF Nobody
    <2>3. q # p
      BY <1>2, <2>1, <2>2 DEF OfSidecar
    <2> QED BY <1>2, <2>1, <2>3 DEF OfSidecar, OwnInv, ViewInv, TypeInv, TypeOK
  <1>3. CASE owner' = owner
    BY <1>3 DEF OfSidecar
  <1> QED BY <1>1, <1>2, <1>3

(* What a step does to the processes themselves.                           *)
LEMMA KillSpares ==
  ASSUME OwnInv, NEW P, Kill(P), NEW t \in Sidecar
  PROVE  /\ alive' \subseteq alive
         /\ exits'[t] \subseteq exits[t] \cup (alive \cap Mine(t))
         /\ exits'[t] \cap alive' = {}
  BY DEF Kill, OwnInv, OwnParts, Own

LEMMA SpawnedAreOwned ==
  ASSUME OwnInv, \/ alive' \subseteq alive /\ owner' = owner
                 \/ \E s \in Sidecar, p \in Proc : Spawn(s, p)
  PROVE  alive' \cap Unspawned' = {}
  <1>1. CASE alive' \subseteq alive /\ owner' = owner
    BY <1>1 DEF Unspawned, OwnInv, OwnParts
  <1>2. ASSUME NEW s \in Sidecar, NEW p \in Proc, Spawn(s, p) PROVE alive' \cap Unspawned' = {}
    <2>1. alive' = alive \cup {p} /\ owner' = [owner EXCEPT ![p] = Me(s)]
      BY <1>2 DEF Spawn
    <2>2. \A q \in Proc : owner'[q] = IF q = p THEN Me(s) ELSE owner[q]
      BY <2>1 DEF OwnInv, ViewInv, TypeInv, TypeOK
    <2>3. Me(s) # Nobody
      BY DEF Me, Nobody
    <2> QED BY <2>1, <2>2, <2>3 DEF Unspawned, OwnInv, OwnParts
  <1> QED BY <1>1, <1>2

-----------------------------------------------------------------------------
(* A step that is not about the processes of t: of another sidecar, of the *)
(* operating system, or of t between two of its own.                       *)
Spared(t) ==
    /\ overtaken'[t] = overtaken[t]
    /\ term \subseteq term' /\ restarted \subseteq restarted'
    /\ \A p \in Proc : OfSidecar(p, t) /\ p \in alive' => p \in alive
    /\ exits'[t] \subseteq exits[t] \cup alive
    /\ exits'[t] \cap alive' = {}
    /\ \A p \in Proc : OfSidecar(p, t) /\ p \in ledger \ ledger' => p \notin Wanted'

Bystander(t) ==
    /\ (phase'[t] = "down") = (phase[t] = "down")
    /\ record'[t] = record[t] /\ row'[t] = row[t]
    /\ Mine(t)' = Mine(t)
    /\ \A p \in Proc : OfSidecar(p, t)' <=> OfSidecar(p, t)
    /\ Spared(t)

LEMMA BystanderKeeps ==
  ASSUME OwnInv, TypeInv', NEW t \in Sidecar, Bystander(t)
  PROVE  Own(t)'
  <1>1. alive' \subseteq Proc
    BY DEF TypeInv, TypeOK
  <1>2. \A p \in Wanted' : OfSidecar(p, t)' => p \in Wanted /\ OfSidecar(p, t)
    BY <1>1 DEF Bystander, Spared, Wanted
  <1>3. ASSUME phase[t] # "down", ~overtaken[t] PROVE UpOwn(t)'
    <2>1. UpOwn(t)
      BY <1>3 DEF OwnInv, OwnParts, Own
    <2>2. ASSUME NEW p \in Mine(t), p \in alive' \cup exits'[t] PROVE p \in alive \cup exits[t]
      BY <2>2, MineOf DEF Bystander, Spared
    <2>3. ASSUME NEW p \in Mine(t), p \in Wanted' PROVE p \in Wanted
      BY <2>3, <1>2, MineOf DEF Bystander
    <2> QED BY <2>1, <2>2, <2>3, <1>2 DEF UpOwn, Bystander
  <1>4. ASSUME phase[t] = "down", ~overtaken[t] PROVE DownOwn(t)'
    <2>1. DownOwn(t)
      BY <1>4 DEF OwnInv, OwnParts, Own
    <2> QED BY <2>1, <1>2 DEF DownOwn, Bystander
  <1>5. ASSUME ~overtaken[t] PROVE Listed(t)'
    <2>1. Listed(t)
      BY <1>5 DEF OwnInv, OwnParts, Own
    <2>2. ASSUME NEW p \in Wanted' \ restarted', OfSidecar(p, t)' PROVE p \in ledger'
      BY <2>1, <2>2, <1>1, <1>2 DEF Listed, Bystander, Spared, Wanted
    <2> QED BY <2>2 DEF Listed
  <1>6. phase[t] # "down" => record[t].proc \in Mine(t) \cup {NoProc}
    BY DEF OwnInv, OwnParts, Own
  <1> QED BY <1>3, <1>4, <1>5, <1>6 DEF Own, Bystander, Spared

-----------------------------------------------------------------------------
(* The processes of the sidecars that do not act are spared.               *)

LEMMA QuietSpares ==
  ASSUME OwnInv, NEW t \in Sidecar, UNCHANGED <<alive, term, ledger, restarted>>,
         overtaken'[t] = overtaken[t], exits'[t] \subseteq exits[t]
  PROVE  Spared(t)
  BY DEF Spared, OwnInv, OwnParts, Own

LEMMA SpawnSpares ==
  ASSUME OwnInv, NEW s \in Sidecar, NEW t \in Sidecar, t # s, NEW p \in Proc, Spawn(s, p),
         overtaken'[t] = overtaken[t], exits'[t] = exits[t], term' = term,
         ledger \subseteq ledger', restarted \subseteq restarted'
  PROVE  Spared(t)
  <1>1. owner[p] = Nobody /\ alive' = alive \cup {p}
    BY DEF Spawn, Unspawned
  <1>2. ~OfSidecar(p, t) /\ p \notin Mine(t)
    BY <1>1 DEF OfSidecar, Mine, Me, Nobody
  <1>3. exits[t] \cap alive = {} /\ exits[t] \subseteq Mine(t)
    BY DEF OwnInv, OwnParts, Own, ViewInv, View
  <1> QED BY <1>1, <1>2, <1>3 DEF Spared

LEMMA RemoveSpares ==
  ASSUME OwnInv, NEW s \in Sidecar, NEW t \in Sidecar, t # s, phase[s] # "down",
         RemoveSpawn(record[s].proc), UNCHANGED <<alive, restarted>>, term \subseteq term',
         overtaken'[t] = overtaken[t], exits'[t] = exits[t]
  PROVE  Spared(t)
  <1>1. record[s].proc \in Mine(s) \cup {NoProc}
    BY DEF OwnInv, OwnParts, Own
  <1>2. \A p \in Proc : p \in ledger \ ledger' => ~OfSidecar(p, t)
    BY <1>1, NotAnothers DEF RemoveSpawn
  <1> QED BY <1>2 DEF Spared, OwnInv, OwnParts, Own

LEMMA KillSparesOthers ==
  ASSUME OwnInv, NEW P, Kill(P), NEW t \in Sidecar, UNCHANGED <<term, restarted>>,
         overtaken'[t] = overtaken[t], ledger' = ledger \/ ledger' = ledger \ P
  PROVE  Spared(t)
  <1>1. \A p \in P : p \notin Wanted'
    BY DEF Kill, Wanted
  <1> QED BY <1>1, KillSpares DEF Spared

LEMMA ExitSpares ==
  ASSUME OwnInv, NEW s \in Sidecar, NEW t \in Sidecar, t # s, NEW p \in Proc, OnExit(s, p)
  PROVE  Spared(t)
  <1>1. /\ phase[s] # "down" /\ MarkExited(s) /\ exits'[t] = exits[t]
        /\ term' = term /\ overtaken' = overtaken
    BY DEF OnExit, OwnInv, ViewInv, TypeInv, TypeOK
  <1>2. CASE RestartRuntime(s) /\ UNCHANGED ledger
    <2>1. ASSUME NEW q \in Proc, Spawn(s, q), restarted' = restarted \cup {q}
          PROVE  Spared(t)
      BY <1>1, <1>2, <2>1, SpawnSpares
    <2>2. CASE SpawnNothing /\ UNCHANGED restarted
      BY <1>1, <1>2, <2>2, QuietSpares DEF SpawnNothing
    <2> QED BY <1>2, <2>1, <2>2 DEF RestartRuntime
  <1>3. CASE RemoveSpawn(record[s].proc) /\ UNCHANGED <<alive, restarted>>
    BY <1>1, <1>3, RemoveSpares
  <1>4. CASE UNCHANGED <<alive, ledger, restarted>>
    BY <1>1, <1>4, QuietSpares
  <1> QED BY <1>1, <1>2, <1>3, <1>4 DEF MarkExited

LEMMA OthersAreSpared ==
  ASSUME OwnInv, NEW s \in Sidecar, NEW t \in Sidecar, t # s, Act(s)
  PROVE  Spared(t)
  <1>t. TypeOK
    BY DEF OwnInv, ViewInv, TypeInv
  <1>1. ASSUME NEW c \in Caller,
               TeamLaunch(s, c) \/ AgentLaunch(s, c) \/ LaunchReturns(s, c)
        PROVE  Spared(t)
    BY <1>1, QuietSpares DEF TeamLaunch, AgentLaunch, LaunchReturns, osVars
  <1>2. ASSUME NEW c \in Caller, LaunchAgent(s, c) PROVE Spared(t)
    <2>1. /\ term' = term /\ exits'[t] = exits[t] /\ restarted' = restarted
          /\ overtaken'[t] = overtaken[t]
      BY <1>2, <1>t DEF LaunchAgent, TypeOK
    <2>2. ASSUME NEW p \in Proc, Spawn(s, p), ledger' = ledger \cup {p} PROVE Spared(t)
      BY <2>1, <2>2, SpawnSpares
    <2>3. CASE SpawnNothing /\ UNCHANGED ledger
      BY <2>1, <2>3, QuietSpares DEF SpawnNothing
    <2> QED BY <1>2, <2>2, <2>3 DEF LaunchAgent
  <1>3. ASSUME NEW c \in Caller, PromptFails(s, c) PROVE Spared(t)
    BY <1>3, RemoveSpares DEF PromptFails, StopRecord
  <1>4. CASE StopAgent(s)
    BY <1>4, RemoveSpares DEF StopAgent, StopRecord
  <1>5. CASE Crash(s)
    BY <1>5, <1>t, QuietSpares DEF Crash, osVars, TypeOK
  <1>6. CASE Boot(s)
    BY <1>6, KillSparesOthers DEF Boot
  <1>7. CASE Sweep(s)
    BY <1>7, KillSparesOthers DEF Sweep
  <1> QED BY <1>1, <1>2, <1>3, <1>4, <1>5, <1>6, <1>7, ExitSpares DEF Act

LEMMA OthersOwn ==
  ASSUME OwnInv, TypeInv', NEW s \in Sidecar, NEW t \in Sidecar, t # s, Act(s)
  PROVE  Own(t)'
  <1>1. Untouched(t) /\ (owner' = owner \/ \E p \in Proc : Spawn(s, p))
    BY OthersUntouched DEF OwnInv
  <1>2. session'[t] = session[t]
    BY <1>1 DEF Untouched
  <1>3. Mine(t)' = Mine(t)
    BY <1>1, <1>2, MineKept DEF OwnInv
  <1>4. \A p \in Proc : OfSidecar(p, t)' <=> OfSidecar(p, t)
    BY <1>1, <1>2, OwnersKept
  <1> QED BY <1>1, <1>3, <1>4, OthersAreSpared, BystanderKeeps DEF Bystander, Untouched

-----------------------------------------------------------------------------
(* The sidecar that acts.                                                  *)

(* A launch or a restart, once no process of the session is left.          *)
LEMMA RegisterOwn ==
  ASSUME OwnInv, TypeInv', NEW s \in Sidecar, NEW st, NEW p \in Proc \cup {NoProc}, NEW n,
         Register(s, st, p, n), phase[s] # "down", phase' = phase, session' = session,
         exits'[s] \subseteq exits[s], term' = term,
         \/ Spawn(s, p) /\ p \in Proc /\ st = "running"
         \/ SpawnNothing /\ p = NoProc,
         ledger \subseteq ledger', restarted \subseteq restarted',
         p \in Proc => p \in ledger' \cup restarted',
         ~overtaken'[s] => ~overtaken[s] /\ Mine(s) \cap (alive \cup exits'[s]) = {}
  PROVE  Own(s)'
  <1>1. record'[s].proc = p /\ record'[s].status = st
    BY DEF Register, OwnInv, ViewInv, TypeInv, TypeOK
  <1>2. /\ Mine(s)' = Mine(s) \cup ({p} \ {NoProc}) /\ alive' = alive \cup ({p} \ {NoProc})
        /\ p # NoProc => p \notin Mine(s)
    <2>1. CASE SpawnNothing /\ p = NoProc
      BY <2>1 DEF SpawnNothing, Mine, Me
    <2>2. CASE Spawn(s, p) /\ p \in Proc
      <3>1. p # NoProc
        BY <2>2 DEF Proc, NoProc
      <3>2. Mine(s)' = Mine(s) \cup {p}
        BY <2>2, SpawnMine DEF OwnInv
      <3>3. alive' = alive \cup {p} /\ p \notin Mine(s)
        BY <2>2 DEF Spawn, Unspawned, Mine, Me, Nobody
      <3> QED BY <3>1, <3>2, <3>3
    <2> QED BY <2>1, <2>2
  <1>3. \A q \in Proc : q # p => (OfSidecar(q, s)' <=> OfSidecar(q, s))
    BY DEF Spawn, SpawnNothing, OfSidecar, OwnInv, ViewInv, TypeInv, TypeOK
  <1>4. exits'[s] \cap alive' = {} /\ exits'[s] \subseteq Mine(s)
    BY <1>2 DEF OwnInv, OwnParts, Own, ViewInv, View
  <1>5. alive' \subseteq Proc /\ phase'[s] # "down"
    BY DEF TypeInv, TypeOK
  <1>6. ASSUME ~overtaken'[s] PROVE UpOwn(s)' /\ Listed(s)'
    <2>1. UpOwn(s) /\ Listed(s) /\ Mine(s) \cap (alive \cup exits'[s]) = {}
      BY <1>6 DEF OwnInv, OwnParts, Own
    <2>2. \A q \in Mine(s)' : q \in alive' \cup exits'[s] => q = p /\ p \in Proc
      BY <1>2, <1>4, <2>1 DEF NoProc
    <2>3. p \in Proc => st = "running"
      BY DEF NoProc, Proc
    <2>4. ASSUME NEW q \in Wanted', OfSidecar(q, s)', q # p PROVE FALSE
      <3>1. q \in Proc /\ q \in Wanted
        BY <1>2, <1>5, <2>4 DEF Wanted
      <3>2. OfSidecar(q, s)
        BY <1>3, <2>4, <3>1
      <3> QED BY <2>1, <3>1, <3>2 DEF UpOwn, Wanted
    <2>5. \A q \in Wanted' : OfSidecar(q, s)' => q = p /\ q \in Mine(s)'
      BY <1>2, <1>5, <2>4 DEF Wanted, Proc, NoProc
    <2>6. UpOwn(s)'
      BY <1>1, <2>2, <2>3, <2>5 DEF UpOwn, Wanted
    <2>7. Listed(s)'
      BY <1>5, <2>5 DEF Listed, Wanted
    <2> QED BY <2>6, <2>7
  <1> QED BY <1>1, <1>2, <1>4, <1>5, <1>6 DEF Own

(* The exit of the process the record names, when nothing is spawned.      *)
LEMMA GoneOwn ==
  ASSUME OwnInv, NEW s \in Sidecar, NEW p \in exits[s], phase[s] # "down",
         phase' = phase, session' = session, exits'[s] \subseteq exits[s],
         UNCHANGED <<owner, alive, term, restarted>>, overtaken'[s] = overtaken[s],
         record'[s].proc = record[s].proc, ledger \ {record[s].proc} \subseteq ledger'
  PROVE  Own(s)'
  <1>1. Mine(s)' = Mine(s) /\ \A q : OfSidecar(q, s)' <=> OfSidecar(q, s)
    BY DEF Mine, Me, OfSidecar
  <1>2. exits[s] \subseteq Mine(s) /\ exits[s] \cap alive = {}
        /\ record[s].proc \in Mine(s) \cup {NoProc}
    BY DEF OwnInv, OwnParts, Own, ViewInv, View
  <1>3. ASSUME ~overtaken[s] PROVE UpOwn(s)' /\ Listed(s)'
    <2>1. UpOwn(s) /\ Listed(s)
      BY <1>3 DEF OwnInv, OwnParts, Own
    <2>2. p = record[s].proc /\ Mine(s) \cap alive = {}
      BY <1>2, <2>1 DEF UpOwn
    <2>3. Wanted' = Wanted /\ \A q \in Wanted : ~OfSidecar(q, s)
      BY <2>1, <2>2 DEF UpOwn, Wanted
    <2>4. Listed(s)'
      BY <1>1, <2>3 DEF Listed
    <2>5. \A q \in Mine(s)' : q \in alive' \cup exits'[s] => q = record[s].proc
      BY <1>1, <2>1 DEF UpOwn
    <2>6. \A q \in Mine(s)' : q \notin Wanted'
      BY <1>1, <2>2, <2>3 DEF Wanted
    <2>7. \A q \in Wanted' : ~OfSidecar(q, s)'
      BY <1>1, <2>3
    <2> QED BY <2>4, <2>5, <2>6, <2>7 DEF UpOwn
  <1> QED BY <1>1, <1>2, <1>3 DEF Own

LEMMA ExitOwn ==
  ASSUME OwnInv, TypeInv', NEW s \in Sidecar, NEW p \in Proc, OnExit(s, p)
  PROVE  Own(s)'
  <1>1. /\ phase[s] # "down" /\ phase' = phase /\ session' = session /\ term' = term
        /\ overtaken' = overtaken /\ p \in exits[s] /\ exits'[s] = exits[s] \ {p}
        /\ MarkExited(s)
    BY DEF OnExit, OwnInv, ViewInv, TypeInv, TypeOK
  <1>2. CASE RestartRuntime(s) /\ UNCHANGED ledger
    <2> DEFINE n == record[s].restarts + 1
    <2>1. ~overtaken[s] => Mine(s) \cap (alive \cup exits'[s]) = {}
      <3>1. p \in Mine(s) /\ exits[s] \cap alive = {}
        BY <1>1 DEF OwnInv, OwnParts, Own, ViewInv, View
      <3>2. ~overtaken[s] => \A q \in Mine(s) : q \in alive \cup exits[s] => q = p
        BY <1>1, <3>1 DEF OwnInv, OwnParts, Own, UpOwn
      <3> QED BY <1>1, <3>1, <3>2
    <2>2. ASSUME NEW q \in Proc, Spawn(s, q), Register(s, "running", q, n),
                 restarted' = restarted \cup {q}
          PROVE  Own(s)'
      <3>1. /\ q \in Proc \cup {NoProc} /\ exits'[s] \subseteq exits[s]
            /\ ledger \subseteq ledger' /\ restarted \subseteq restarted'
            /\ q \in ledger' \cup restarted'
            /\ Spawn(s, q)
        BY <1>1, <1>2, <2>2
      <3> HIDE DEF n
      <3> QED BY <1>1, <2>1, <2>2, <3>1, RegisterOwn
    <2>3. ASSUME SpawnNothing, Register(s, "error", NoProc, n), UNCHANGED restarted
          PROVE  Own(s)'
      <3>1. NoProc \notin Proc
        BY DEF NoProc, Proc
      <3> HIDE DEF n
      <3> QED BY <1>1, <1>2, <2>1, <2>3, <3>1, RegisterOwn
    <2> QED BY <1>2, <2>2, <2>3 DEF RestartRuntime
  <1>3. CASE /\ RemoveSpawn(record[s].proc)
             /\ \/ UNCHANGED record
                \/ record' = [record EXCEPT ![s].status = "exited"]
             /\ UNCHANGED <<owner, alive, restarted>>
    <2>1. record'[s].proc = record[s].proc
      BY <1>3 DEF Record, OwnInv, ViewInv, TypeInv, TypeOK
    <2>2. ledger \ {record[s].proc} \subseteq ledger'
      BY <1>3 DEF RemoveSpawn
    <2> QED BY <1>1, <1>3, <2>1, <2>2, GoneOwn
  <1>4. CASE UNCHANGED <<record, owner, alive, ledger, restarted>>
    BY <1>1, <1>4, GoneOwn
  <1> QED BY <1>1, <1>2, <1>3, <1>4 DEF MarkExited

LEMMA LaunchOwn ==
  ASSUME OwnInv, TypeInv', NEW s \in Sidecar, NEW c \in Caller, LaunchAgent(s, c)
  PROVE  Own(s)'
  <1>1. /\ phase[s] # "down" /\ phase' = phase /\ session' = session /\ exits' = exits
        /\ term' = term /\ restarted' = restarted
        /\ ~overtaken'[s] => ~overtaken[s] /\ Mine(s) \cap (alive \cup exits[s]) = {}
    BY DEF LaunchAgent, CanLaunch, OwnInv, ViewInv, TypeInv, TypeOK
  <1>2. ASSUME NEW p \in Proc, Spawn(s, p), Register(s, "running", p, 0),
               ledger' = ledger \cup {p}
        PROVE  Own(s)'
    BY <1>1, <1>2, RegisterOwn
  <1>3. ASSUME NEW st, SpawnNothing, Register(s, st, NoProc, 0), UNCHANGED ledger
        PROVE  Own(s)'
    <2>1. NoProc \notin Proc
      BY DEF NoProc, Proc
    <2> QED BY <1>1, <1>3, <2>1, RegisterOwn
  <1> QED BY <1>2, <1>3 DEF LaunchAgent

(* A stop signals the one process of the session that is still wanted.     *)
LEMMA StopOwn ==
  ASSUME OwnInv, NEW s \in Sidecar, StopRecord(s), phase[s] # "down", phase' = phase,
         session' = session, UNCHANGED <<owner, alive, exits, overtaken, restarted>>
  PROVE  Own(s)'
  <1>1. record[s] \in Record /\ record'[s].proc = record[s].proc
    BY DEF StopRecord, Record, OwnInv, ViewInv, TypeInv, TypeOK
  <1>2. Mine(s)' = Mine(s) /\ \A q : OfSidecar(q, s)' <=> OfSidecar(q, s)
    BY DEF Mine, Me, OfSidecar
  <1>3. term \subseteq term'
    BY DEF StopRecord
  <1>4. ASSUME ~overtaken[s], NEW q \in Wanted', OfSidecar(q, s)' PROVE FALSE
    <2>1. q \in Wanted /\ OfSidecar(q, s) /\ q \in alive
      BY <1>2, <1>3, <1>4 DEF Wanted
    <2>2. UpOwn(s)
      BY <1>4 DEF OwnInv, OwnParts, Own
    <2>3. q \in Mine(s) /\ record[s].status = "running" /\ q = record[s].proc
      BY <2>1, <2>2 DEF UpOwn
    <2>4. q \in term'
      BY <2>3 DEF StopRecord, Mine, Proc, NoProc
    <2> QED BY <1>4, <2>4 DEF Wanted
  <1>5. ASSUME ~overtaken[s] PROVE UpOwn(s)' /\ Listed(s)'
    <2>1. \A q \in Mine(s)' : q \in alive' \cup exits'[s] => q = record[s].proc
      BY <1>2, <1>5 DEF OwnInv, OwnParts, Own, UpOwn
    <2>2. \A q \in Mine(s)' : q \notin Wanted'
      BY <1>2, <1>4, <1>5, MineOf
    <2> QED BY <1>1, <1>4, <1>5, <2>1, <2>2 DEF UpOwn, Listed
  <1> QED BY <1>1, <1>2, <1>5 DEF Own, OwnInv, OwnParts

(* A crash leaves behind a process the row names.                          *)
LEMMA CrashOwn ==
  ASSUME OwnInv, NEW s \in Sidecar, Crash(s)
  PROVE  Own(s)'
  <1>1. /\ phase[s] # "down" /\ phase'[s] = "down" /\ exits'[s] = {}
        /\ UNCHANGED <<session, row, owner, alive, term, ledger, overtaken, restarted>>
    BY DEF Crash, osVars, OwnInv, ViewInv, TypeInv, TypeOK
  <1>2. \A q : OfSidecar(q, s)' <=> OfSidecar(q, s)
    BY <1>1 DEF OfSidecar
  <1>3. ASSUME ~overtaken[s] PROVE DownOwn(s)' /\ Listed(s)'
    <2>1. UpOwn(s) /\ Listed(s)
      BY <1>1, <1>3 DEF OwnInv, OwnParts, Own
    <2>2. record[s].status = "running" => row[s].status = "running" /\ row[s].proc = record[s].proc
      BY <1>1 DEF OwnInv, ViewInv, View, UpView
    <2>3. ASSUME NEW q \in Wanted, OfSidecar(q, s)
          PROVE  row[s].status = "running" /\ row[s].proc = q
      <3>1. q \in Mine(s) /\ q \in alive
        BY <2>1, <2>3 DEF UpOwn, Wanted
      <3> QED BY <2>1, <2>2, <2>3, <3>1 DEF UpOwn
    <2>4. DownOwn(s)'
      BY <1>1, <1>2, <2>3 DEF DownOwn, Wanted
    <2>5. Listed(s)'
      BY <1>1, <1>2, <2>1 DEF Listed, Wanted
    <2> QED BY <2>4, <2>5
  <1> QED BY <1>1, <1>3 DEF Own

(* A boot kills it.                                                        *)
LEMMA BootOwn ==
  ASSUME OwnInv, NEW s \in Sidecar, Boot(s)
  PROVE  Own(s)'
  <1>1. /\ phase[s] = "down" /\ phase'[s] # "down" /\ session'[s] = session[s] + 1
        /\ session[s] \in Nat /\ Kill(Orphans(s))
        /\ UNCHANGED <<record, owner, term, overtaken>> /\ record[s] = NoRecord
    BY DEF Boot, OwnInv, ViewInv, View, TypeInv, TypeOK
  <1>2. exits'[s] = {} /\ alive' \subseteq alive /\ alive' \cap Orphans(s) = {}
    BY <1>1 DEF Kill
  <1>3. Mine(s)' = {}
    <2>1. \A p \in Proc, k \in Nat : owner[p] = <<s, k>> => k <= session[s]
      BY DEF OwnInv, ViewInv, View
    <2> QED BY <1>1, <2>1 DEF Mine, Me
  <1>4. ASSUME ~overtaken[s], NEW q \in Wanted' PROVE ~OfSidecar(q, s)'
    <2>1. SUFFICES ASSUME OfSidecar(q, s) PROVE FALSE
      BY <1>1 DEF OfSidecar
    <2>2. q \in Wanted /\ q \in alive
      BY <1>1, <1>2, <1>4 DEF Wanted
    <2>3. row[s].status = "running" /\ row[s].proc = q
      BY <1>1, <1>4, <2>1, <2>2 DEF OwnInv, OwnParts, Own, DownOwn
    <2>4. q \in Orphans(s)
      BY <2>2, <2>3, OwnerOf DEF Orphans, Proc, NoProc
    <2> QED BY <1>2, <1>4, <2>4 DEF Wanted
  <1>5. ~overtaken[s] => UpOwn(s)' /\ Listed(s)'
    BY <1>3, <1>4 DEF UpOwn, Listed
  <1>6. record'[s].proc = NoProc
    BY <1>1 DEF NoRecord
  <1> QED BY <1>1, <1>2, <1>5, <1>6 DEF Own

(* A step of a sidecar that is not about its processes.                    *)
LEMMA QuietOwn ==
  ASSUME OwnInv, TypeInv', NEW s \in Sidecar, UNCHANGED <<session, owner, record, row>>,
         (phase'[s] = "down") = (phase[s] = "down"), Spared(s)
  PROVE  Own(s)'
  <1>1. Mine(s)' = Mine(s) /\ \A p \in Proc : OfSidecar(p, s)' <=> OfSidecar(p, s)
    BY DEF Mine, Me, OfSidecar
  <1> QED BY <1>1, BystanderKeeps DEF Bystander

LEMMA ActorOwns ==
  ASSUME OwnInv, TypeInv', NEW s \in Sidecar, Act(s)
  PROVE  Own(s)'
  <1>1. ASSUME NEW c \in Caller, AgentLaunch(s, c) \/ LaunchReturns(s, c) PROVE Own(s)'
    BY <1>1, QuietSpares, QuietOwn DEF AgentLaunch, LaunchReturns, osVars
  <1>2. ASSUME NEW c \in Caller, TeamLaunch(s, c) PROVE Own(s)'
    <2>1. row[s].status # "running"
      BY <1>2 DEF TeamLaunch, OwnInv, ViewInv, View, UpView
    <2> QED BY <1>2, <2>1, QuietSpares, QuietOwn DEF TeamLaunch, osVars
  <1>3. ASSUME NEW c \in Caller, PromptFails(s, c) PROVE Own(s)'
    BY <1>3, StopOwn DEF PromptFails
  <1>4. CASE StopAgent(s)
    BY <1>4, StopOwn DEF StopAgent
  <1>5. CASE Sweep(s)
    <2>1. (phase'[s] = "down") = (phase[s] = "down")
      BY <1>5 DEF Sweep, OwnInv, ViewInv, TypeInv, TypeOK
    <2>2. Spared(s)
      BY <1>5, KillSparesOthers DEF Sweep
    <2> QED BY <1>5, <2>1, <2>2, QuietOwn DEF Sweep
  <1> QED BY <1>1, <1>2, <1>3, <1>4, <1>5, LaunchOwn, ExitOwn, CrashOwn, BootOwn DEF Act

(* A process of the operating system dies.                                 *)
LEMMA DieOwn ==
  ASSUME OwnInv, TypeInv', NEW p \in Proc, Die(p), NEW s \in Sidecar
  PROVE  Own(s)'
  <1>1. /\ Kill({p}) /\ overtaken' = overtaken
        /\ UNCHANGED <<phase, session, owner, record, row, term, ledger, restarted>>
    BY DEF Die
  <1>2. Spared(s)
    BY <1>1, KillSparesOthers
  <1> QED BY <1>1, <1>2, QuietOwn

(* Processes begin only by a spawn.                                        *)
LEMMA AliveStep ==
  ASSUME OwnInv, Next
  PROVE  \/ alive' \subseteq alive /\ owner' = owner
         \/ \E s \in Sidecar, p \in Proc : Spawn(s, p)
  <1>1. ASSUME NEW s \in Sidecar, NEW p \in Proc, OnExit(s, p)
        PROVE  \/ alive' \subseteq alive /\ owner' = owner
               \/ \E q \in Proc : Spawn(s, q)
    <2>1. MarkExited(s)
      BY <1>1 DEF OnExit
    <2> QED BY <2>1 DEF MarkExited, RestartRuntime, SpawnNothing
  <1>2. ASSUME NEW s \in Sidecar, Boot(s) \/ Sweep(s)
        PROVE  alive' \subseteq alive /\ owner' = owner
    BY <1>2 DEF Boot, Sweep, Kill
  <1>3. ASSUME NEW p \in Proc, Die(p) PROVE alive' \subseteq alive /\ owner' = owner
    BY <1>3 DEF Die, Kill
  <1>4. ASSUME NEW s \in Sidecar, NEW c \in Caller, LaunchAgent(s, c)
        PROVE  \/ alive' \subseteq alive /\ owner' = owner
               \/ \E q \in Proc : Spawn(s, q)
    BY <1>4 DEF LaunchAgent, SpawnNothing
  <1>5. ASSUME NEW s \in Sidecar, NEW c \in Caller,
               \/ TeamLaunch(s, c) \/ AgentLaunch(s, c) \/ LaunchReturns(s, c)
               \/ PromptFails(s, c)
        PROVE  alive' \subseteq alive /\ owner' = owner
    BY <1>5 DEF TeamLaunch, AgentLaunch, LaunchReturns, PromptFails, osVars
  <1>6. ASSUME NEW s \in Sidecar, StopAgent(s) \/ Crash(s)
        PROVE  alive' \subseteq alive /\ owner' = owner
    BY <1>6 DEF StopAgent, Crash, osVars
  <1> QED BY <1>1, <1>2, <1>3, <1>4, <1>5, <1>6, NextActs DEF Act

LEMMA OwnNext == OwnInv /\ Next => OwnInv'
  <1> SUFFICES ASSUME OwnInv, Next PROVE OwnInv'
    OBVIOUS
  <1>1. ViewInv' /\ TypeInv'
    BY ViewNext DEF OwnInv, ViewInv
  <1>2. alive' \cap Unspawned' = {}
    BY AliveStep, SpawnedAreOwned
  <1>3. ASSUME NEW s \in Sidecar, Act(s), NEW t \in Sidecar PROVE Own(t)'
    BY <1>1, <1>3, ActorOwns, OthersOwn
  <1>4. ASSUME NEW p \in Proc, Die(p), NEW t \in Sidecar PROVE Own(t)'
    BY <1>1, <1>4, DieOwn
  <1> QED BY <1>1, <1>2, <1>3, <1>4, NextActs DEF OwnInv, OwnParts

LEMMA OwnAlways == Spec => []OwnInv
  <1>1. Init => ViewInv
    <2>1. Init => TypeInv
      BY StatusSet DEF Init, NoRecord, Record, TypeInv, TypeOK, Booted
    <2>2. ASSUME Init, NEW s \in Sidecar PROVE View(s)
      BY <2>2 DEF Init, View, Nobody
    <2> QED BY <2>1, <2>2 DEF ViewInv
  <1>2. Init => OwnParts
    BY DEF Init, OwnParts, Own, DownOwn, Listed, Wanted
  <1>3. OwnInv /\ UNCHANGED vars => OwnInv'
    BY DEF vars, osVars, OwnInv, OwnParts, Own, UpOwn, DownOwn, Listed, Wanted, OfSidecar,
           Unspawned, ViewInv, View, UpView, Mine, Me, TypeInv, TypeOK, Booted
  <1> QED BY <1>1, <1>2, <1>3, OwnNext, PTL DEF Spec, OwnInv

-----------------------------------------------------------------------------
(* Until a relaunch overtakes an exit event, every living process that was *)
(* not signalled is the one the record of its running runtime names.       *)
THEOREM ProcessesAreRecorded == Spec => []EveryProcessIsRecorded
  <1>1. OwnInv => EveryProcessIsRecorded
    BY DEF OwnInv, OwnParts, Own, UpOwn, Wanted, Running, EveryProcessIsRecorded
  <1> QED BY <1>1, OwnAlways, PTL

(* A boot, which kills the processes the reconciled rows name, leaves none *)
(* of an earlier session of its project.                                   *)
THEOREM BootsLeaveNoZombies == Spec => []NoZombies
  <1>1. OwnInv => NoZombies
    <2> SUFFICES ASSUME OwnInv, NEW s \in Sidecar, phase[s] # "down", ~overtaken[s],
                        NEW p \in alive \ term, owner[p][1] = s
                 PROVE  owner[p] = Me(s)
      BY DEF NoZombies
    <2>1. OfSidecar(p, s) /\ p \in Wanted
      BY OwnerOf DEF Wanted
    <2> QED BY <2>1 DEF OwnInv, OwnParts, Own, UpOwn, Mine
  <1> QED BY <1>1, OwnAlways, PTL

(* After the sweep of any sidecar the processes still running, but for the *)
(* signalled and the restarted ones, belong to sidecars that are up.       *)
THEOREM SweepsReachCrashed == Spec => SweepReachesCrashed
  <1>1. ASSUME OwnInv, NEW s \in Sidecar, Sweep(s), NEW p \in (alive' \ term) \ restarted
        PROVE  OwnerUp(p) \/ overtaken[owner[p][1]]
    <2>1. p \in alive /\ p \notin Swept(s) /\ phase[s] # "down"
      BY <1>1 DEF Sweep, Kill
    <2> DEFINE t == owner[p][1]
    <2>2. t \in Sidecar /\ OfSidecar(p, t) /\ p \in Proc
      BY <1>1, <2>1, OwnerOf
    <2>3. CASE ~overtaken[t]
      <3>1. Listed(t)
        BY <1>1, <2>2, <2>3 DEF OwnInv, OwnParts, Own
      <3>2. p \in ledger
        BY <1>1, <2>1, <2>2, <3>1 DEF Listed, Wanted
      <3>3. p \in Mine(s)
        BY <2>1, <3>2 DEF Swept
      <3> QED BY <2>1, <3>3 DEF Mine, OwnerUp
    <2> QED BY <2>3
  <1>2. OwnInv => \A s \in Sidecar : Sweep(s) =>
                     \A p \in (alive' \ term) \ restarted :
                        OwnerUp(p) \/ overtaken[owner[p][1]]
    BY <1>1
  <1> QED BY <1>2, OwnAlways, PTL DEF SweepReachesCrashed

(* The sweep spares a process launched since its own sidecar started.      *)
THEOREM SweepsSpareOwn == Spec => SweepSparesOwnSession
  <1>1. \A s \in Sidecar : Sweep(s) => Mine(s) \cap alive \subseteq alive'
    BY DEF Sweep, Kill, Swept
  <1> QED BY <1>1, PTL DEF SweepSparesOwnSession

=============================================================================
