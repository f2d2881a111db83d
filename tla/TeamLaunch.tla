----------------------------- MODULE TeamLaunch -----------------------------
(***************************************************************************)
(* The configuration of one team and the tools that act on it: team_create *)
(* and team_delete, team_launch, which starts the members one after the    *)
(* other with the configuration it read first, and agent_swap_provider,    *)
(* which rewrites the configuration, stops the member and launches the     *)
(* team again.  Each of them waits for other work (a stop, an              *)
(* authentication preflight, the first turn of the lead) and nothing keeps *)
(* two of them apart.                                                      *)
(*                                                                         *)
(* A launch of a per-turn agent also writes files into its working         *)
(* directory, one MCP configuration per CLI and the instructions, and      *)
(* every turn of the agent is a CLI process that reads them there.         *)
(***************************************************************************)
EXTENDS Integers, Sequences, FiniteSets

CONSTANTS
    Member,           \* of the team
    Roster,           \* the members in launch order, the lead first
    Dir,              \* working directories
    ToolCall,         \* calls of the tools, each made once
    MaxEdits,         \* team_create and team_delete (bound)
    MaxTeamRestarts,  \* of the sidecar (bound)
    Provider,         \* the providers members may have
    None

(* A team has a lead.                                                      *)
ASSUME TeamAssumption ==
    /\ Roster \in Seq(Member) /\ Roster # <<>>
    /\ MaxEdits \in Nat
    /\ MaxTeamRestarts \in Nat

VARIABLES
    config,        \* of the team_configs row: the provider of each member, or None
    cwd,           \* of each member, fixed
    up,            \* provider of the member's running runtime, or None
    mcp,           \* agent named by a directory's MCP configuration, per CLI
    instructions,  \* agent whose system prompt a directory's file holds
    teamCall,      \* the calls
    acted,         \* history: [member, as, told] of the turns
    excused,       \* history: members whose provider changed behind a launch's back
    edits, teamRestarts

teamVars == <<config, cwd, up, mcp, instructions, teamCall, acted, excused, edits, teamRestarts>>

PerTurn == {"openai", "gemini", "opencode"} \cap Provider

(* The instruction file of a CLI: Codex and OpenCode share AGENTS.md.      *)
FileOf(p) == IF p = "gemini" THEN "GEMINI.md" ELSE "AGENTS.md"

Unused == [step |-> "unused"]
Ended  == [step |-> "ended"]

Configs == [Member -> Provider]

TeamCalls == {Unused, Ended}
         \cup [step : {"next", "preflight", "prompt"}, of : Configs, todo : Seq(Member)]
         \cup [step : {"stopping"}, member : Member]

TeamTypeOK ==
    /\ config \in Configs \cup {None}
    /\ cwd \in [Member -> Dir]
    /\ up \in [Member -> Provider \cup {None}]
    /\ mcp \in [Dir \X PerTurn -> Member \cup {None}]
    /\ instructions \in [Dir \X {"AGENTS.md", "GEMINI.md"} -> Member \cup {None}]
    /\ teamCall \in [ToolCall -> TeamCalls]
    /\ acted \subseteq [member : Member, as : Member \cup {None}, told : Member \cup {None}]
    /\ excused \subseteq Member
    /\ edits \in 0..MaxEdits
    /\ teamRestarts \in 0..MaxTeamRestarts

TeamInit ==
    /\ config \in Configs
    /\ cwd \in [Member -> Dir]
    /\ up = [m \in Member |-> None]
    /\ mcp = [f \in Dir \X PerTurn |-> None]
    /\ instructions = [f \in Dir \X {"AGENTS.md", "GEMINI.md"} |-> None]
    /\ teamCall = [c \in ToolCall |-> Unused]
    /\ acted = {}
    /\ excused = {}
    /\ edits = 0
    /\ teamRestarts = 0

(* A call that still has m to launch, or is launching it, with another     *)
(* provider than p.                                                        *)
Stale(d, m, p) ==
    /\ teamCall[d].step \in {"next", "preflight", "prompt"}
    /\ teamCall[d].of[m] # p
    /\ \E i \in 1..Len(teamCall[d].todo) :
           teamCall[d].todo[i] = m /\ (i = 1 => teamCall[d].step # "prompt")

Reading(snapshot) == IF snapshot = None THEN Ended
                     ELSE [step |-> "next", of |-> snapshot, todo |-> Roster]

-----------------------------------------------------------------------------
(* team_launch up to its first wait: the configuration is read once.       *)
TeamLaunchCall(c) ==
    /\ teamCall[c] = Unused
    /\ teamCall' = [teamCall EXCEPT ![c] = Reading(config)]
    /\ UNCHANGED <<config, cwd, up, mcp, instructions, acted, excused, edits, teamRestarts>>

Rest(c) == IF Tail(teamCall[c].todo) = <<>> THEN Ended
           ELSE [teamCall[c] EXCEPT !.step = "next", !.todo = Tail(@)]

(* The next member: one that runs is left alone, another is launched,      *)
(* which waits for its preflight.                                          *)
NextMember(c) ==
    /\ teamCall[c].step = "next"
    /\ teamCall' = [teamCall EXCEPT ![c] = IF up[Head(teamCall[c].todo)] # None THEN Rest(c)
                                   ELSE [@ EXCEPT !.step = "preflight"]]
    /\ UNCHANGED <<config, cwd, up, mcp, instructions, acted, excused, edits, teamRestarts>>

(* The preflight passes.  The files of a per-turn agent are written before *)
(* the supervisor is asked, which refuses a runtime that another call has  *)
(* launched meanwhile.  The lead is sent its first turn and waited for.    *)
SpawnMember(c) ==
    LET m == Head(teamCall[c].todo)
        p == teamCall[c].of[m]
        d == cwd[m]
    IN /\ teamCall[c].step = "preflight"
       /\ mcp' = IF p \in PerTurn THEN [mcp EXCEPT ![<<d, p>>] = m] ELSE mcp
       /\ instructions' = IF p \in PerTurn THEN [instructions EXCEPT ![<<d, FileOf(p)>>] = m]
                          ELSE instructions
       /\ up' = [up EXCEPT ![m] = IF @ = None THEN p ELSE @]
       /\ teamCall' = [teamCall EXCEPT ![c] = IF up[m] = None /\ m = Head(Roster)
                                          THEN [@ EXCEPT !.step = "prompt"] ELSE Rest(c)]
       /\ UNCHANGED <<config, cwd, acted, excused, edits, teamRestarts>>

(* The preflight fails: so does this member, the rest is launched.         *)
PreflightFailed(c) ==
    /\ teamCall[c].step = "preflight"
    /\ teamCall' = [teamCall EXCEPT ![c] = Rest(c)]
    /\ UNCHANGED <<config, cwd, up, mcp, instructions, acted, excused, edits, teamRestarts>>

(* The first turn of the lead was taken, or it failed and the lead is      *)
(* stopped, whoever launched it by then.                                   *)
Prompted(c, taken) ==
    /\ teamCall[c].step = "prompt"
    /\ up' = IF taken THEN up ELSE [up EXCEPT ![Head(teamCall[c].todo)] = None]
    /\ teamCall' = [teamCall EXCEPT ![c] = Rest(c)]
    /\ UNCHANGED <<config, cwd, mcp, instructions, acted, excused, edits, teamRestarts>>

(* Mutant of Swap: the running member is not stopped.                      *)
SwapKeepsProcess(c, m, p) ==
    /\ teamCall[c] = Unused
    /\ config # None
    /\ config[m] # p
    /\ config' = [config EXCEPT ![m] = p]
    /\ teamCall' = [teamCall EXCEPT ![c] = Reading(config')]
    /\ excused' = excused \cup {n \in {m} : \E d \in ToolCall : Stale(d, n, p)}
    /\ UNCHANGED <<cwd, up, mcp, instructions, acted, edits, teamRestarts>>

(* agent_swap_provider: the new configuration is registered, the member is *)
(* stopped if it runs, then the team is launched.                          *)
Swap(c, m, p) ==
    /\ teamCall[c] = Unused
    /\ config # None
    /\ config[m] # p
    /\ config' = [config EXCEPT ![m] = p]
    /\ teamCall' = [teamCall EXCEPT ![c] = IF up[m] # None THEN [step |-> "stopping", member |-> m]
                                       ELSE Reading(config')]
    /\ excused' = excused \cup {n \in {m} : \E d \in ToolCall : Stale(d, n, p)}
    /\ UNCHANGED <<cwd, up, mcp, instructions, acted, edits, teamRestarts>>

(* The stop of a swap is over.  A failure is ignored: the member keeps its *)
(* row and its adapter, and the launch takes it for running.               *)
Stopped(c, stopped) ==
    /\ teamCall[c].step = "stopping"
    /\ up' = IF stopped THEN [up EXCEPT ![teamCall[c].member] = None] ELSE up
    /\ excused' = IF stopped THEN excused ELSE excused \cup {teamCall[c].member}
    /\ teamCall' = [teamCall EXCEPT ![c] = Reading(config)]
    /\ UNCHANGED <<config, cwd, mcp, instructions, acted, edits, teamRestarts>>

(* team_create saves over the configuration there is, whoever runs.        *)
TeamCreate(new) ==
    /\ edits < MaxEdits
    /\ edits' = edits + 1
    /\ config' = new
    /\ excused' = excused \cup {m \in Member : \/ up[m] \notin {None, new[m]}
                                               \/ \E d \in ToolCall : Stale(d, m, new[m])}
    /\ UNCHANGED <<cwd, up, mcp, instructions, teamCall, acted, teamRestarts>>

TeamDelete ==
    /\ config # None
    /\ edits < MaxEdits
    /\ edits' = edits + 1
    /\ config' = None
    /\ UNCHANGED <<cwd, up, mcp, instructions, teamCall, acted, excused, teamRestarts>>

(* A turn of a per-turn agent: its CLI, started in the agent's directory,  *)
(* reads the MCP configuration and the instructions it finds there.        *)
TakeTurn(m) ==
    /\ up[m] \in PerTurn
    /\ acted' = acted \cup {[member |-> m, as |-> mcp[<<cwd[m], up[m]>>],
                             told |-> instructions[<<cwd[m], FileOf(up[m])>>]]}
    /\ UNCHANGED <<config, cwd, up, mcp, instructions, teamCall, excused, edits, teamRestarts>>

(* The operator stops an agent, or a Claude process exits.                 *)
Down(m) ==
    /\ up[m] # None
    /\ up' = [up EXCEPT ![m] = None]
    /\ UNCHANGED <<config, cwd, mcp, instructions, teamCall, acted, excused, edits, teamRestarts>>

(* The sidecar stops: its calls and runtimes are gone, the configuration   *)
(* and the files stay.                                                     *)
TeamRestart ==
    /\ teamRestarts < MaxTeamRestarts
    /\ teamRestarts' = teamRestarts + 1
    /\ up' = [m \in Member |-> None]
    /\ teamCall' = [c \in ToolCall |-> IF teamCall[c] = Unused THEN Unused ELSE Ended]
    /\ UNCHANGED <<config, cwd, mcp, instructions, acted, excused, edits>>

TeamNext ==
    \/ \E c \in ToolCall :
          \/ TeamLaunchCall(c) \/ NextMember(c) \/ SpawnMember(c) \/ PreflightFailed(c)
          \/ \E taken \in BOOLEAN : Prompted(c, taken)
          \/ \E stopped \in BOOLEAN : Stopped(c, stopped)
          \/ \E m \in Member, p \in Provider : Swap(c, m, p)
    \/ \E new \in Configs : TeamCreate(new)
    \/ TeamDelete
    \/ \E m \in Member : TakeTurn(m) \/ Down(m)
    \/ TeamRestart

TeamSpec == TeamInit /\ [][TeamNext]_teamVars

-----------------------------------------------------------------------------
(* A running member runs the provider its team is configured with, swaps,  *)
(* launches, failures and restarts in any order, unless its swap is still  *)
(* stopping it, that stop failed, the team was saved over while it ran, or *)
(* its provider was changed behind a launch that had it still to start.    *)
RunsItsProvider ==
    config # None =>
        \A m \in Member :
            \/ up[m] \in {None, config[m]}
            \/ m \in excused
            \/ \E c \in ToolCall : teamCall[c].step = "stopping" /\ teamCall[c].member = m

(* The design promises an MCP configuration and instructions of its own to *)
(* every per-turn agent: its turns act in its name and are told its role.  *)
ActsAsItself ==
    \A t \in acted : t.as = t.member /\ t.told = t.member
=============================================================================
