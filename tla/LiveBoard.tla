----------------------------- MODULE LiveBoard ------------------------------
(***************************************************************************)
(* The board of the UI (useToadData) and what keeps it up to date: a load  *)
(* reads the team, its tasks and its messages one call after the other;    *)
(* every tool_use event of the stream of runtime events (useToadEvents)    *)
(* starts a new load and cancels the one under way.  An event is sent when *)
(* an agent announces a call, which takes effect later; a stream that      *)
(* breaks loses what is sent until it is open again.                       *)
(***************************************************************************)
EXTENDS Integers, Sequences

CONSTANTS
    Team,
    MaxVersion,  \* changes of the data of a team (bound)
    MaxLoads,    \* loads ever started (bound)
    MaxWire,     \* events on their way (bound)
    NoTeam       \* the team of a load whose team_list failed

ASSUME BoardAssumption == MaxVersion \in Nat /\ MaxLoads \in Nat \ {0} /\ MaxWire \in Nat

VARIABLES
    data,        \* how often the data of each team has changed
    wire,        \* events on their way, each with the board it was sent at
    connected,   \* the stream is open
    chosen,      \* preferredTeamId
    nonce,       \* loads started: all but the last one are cancelled
    load,        \* the loads
    displayed,   \* what the components are given
    liveSource,  \* "live" or "empty"
    heard        \* history: the board when the last event heard was sent

boardVars == <<data, wire, connected, chosen, nonce, load, displayed, liveSource, heard>>

Version == 0..MaxVersion
Loads   == 1..MaxLoads
Boards  == [Team -> Version]
Missing == -1           \* a list that failed to load is shown empty

Lists == [team : Team \cup {NoTeam}, tasks : Version, messages : Version \cup {Missing}]

NotStarted == [step |-> "unstarted"]
Over       == [step |-> "over"]

(* The lists a load has read so far; it began for the team chosen then.    *)
LoadStates == {NotStarted, Over}
              \cup [step : {"team", "tasks", "messages", "apply"}, lists : Lists]

LiveTypeOK ==
    /\ data \in Boards
    /\ wire \in Seq(Boards) /\ Len(wire) <= MaxWire
    /\ connected \in BOOLEAN
    /\ chosen \in Team
    /\ nonce \in Loads
    /\ load \in [Loads -> LoadStates]
    /\ displayed \in Lists
    /\ liveSource \in {"live", "empty"}
    /\ heard \in Boards

BegunLoad(t) == [step |-> "team", lists |-> [team |-> t, tasks |-> 0, messages |-> Missing]]

LiveInit ==
    /\ data = [t \in Team |-> 0]
    /\ wire = <<>>
    /\ connected = FALSE
    /\ chosen \in Team
    /\ nonce = 1
    /\ load = [l \in Loads |-> IF l = 1 THEN BegunLoad(chosen) ELSE NotStarted]
    /\ displayed = [team |-> NoTeam, tasks |-> 0, messages |-> Missing]
    /\ liveSource = "empty"
    /\ heard = [t \in Team |-> 0]

(* The effect runs again: the load under way is cancelled, a new one       *)
(* begins.                                                                 *)
Reload(t) ==
    /\ nonce < MaxLoads
    /\ nonce' = nonce + 1
    /\ load' = [load EXCEPT ![nonce'] = BegunLoad(t)]

-----------------------------------------------------------------------------
(* The data of a team changes: a call takes effect, or the retry sweep, a  *)
(* review, an integration writes.                                          *)
DataChanges(t) ==
    /\ data[t] < MaxVersion
    /\ data' = [data EXCEPT ![t] = @ + 1]
    /\ UNCHANGED <<wire, connected, chosen, nonce, load, displayed, liveSource, heard>>

(* An agent announces a call.  Nobody keeps an event for a closed stream.  *)
Announce ==
    /\ connected /\ Len(wire) < MaxWire
    /\ wire' = Append(wire, data)
    /\ UNCHANGED <<data, connected, chosen, nonce, load, displayed, liveSource, heard>>

(* Mutant of Hear: an event that finds a load under way starts none.       *)
HearWhenIdle ==
    /\ wire # <<>>
    /\ wire' = Tail(wire)
    /\ heard' = Head(wire)
    /\ IF load[nonce] = Over THEN Reload(chosen) ELSE UNCHANGED <<nonce, load>>
    /\ UNCHANGED <<data, connected, chosen, displayed, liveSource>>

(* handleEvent of a tool_use: refresh.                                     *)
Hear ==
    /\ wire # <<>>
    /\ wire' = Tail(wire)
    /\ heard' = Head(wire)
    /\ Reload(chosen)
    /\ UNCHANGED <<data, connected, chosen, displayed, liveSource>>

(* The stream breaks and opens again; nothing is loaded on account of it.  *)
Connect ==
    /\ ~connected
    /\ connected' = TRUE
    /\ UNCHANGED <<data, wire, chosen, nonce, load, displayed, liveSource, heard>>

Disconnect ==
    /\ connected
    /\ connected' = FALSE
    /\ wire' = <<>>
    /\ UNCHANGED <<data, chosen, nonce, load, displayed, liveSource, heard>>

(* The operator chooses another team.                                      *)
Choose(t) ==
    /\ t # chosen
    /\ chosen' = t
    /\ Reload(t)
    /\ UNCHANGED <<data, wire, connected, displayed, liveSource, heard>>

-----------------------------------------------------------------------------
LoadStep(l, next, lists) ==
    load' = [load EXCEPT ![l] = [step |-> next, lists |-> lists]]

(* The calls of a cancelled load are aborted.                              *)
LoadCalls(l, step) == l = nonce /\ load[l].step = step

(* team_list answers, or fails: the load goes on with the default team.    *)
ListTeams(l, ok) ==
    /\ LoadCalls(l, "team")
    /\ LoadStep(l, "tasks", [load[l].lists EXCEPT !.team = IF ok THEN @ ELSE NoTeam])
    /\ UNCHANGED <<data, wire, connected, chosen, nonce, displayed, liveSource, heard>>

ListTasks(l) ==
    /\ LoadCalls(l, "tasks")
    /\ LoadStep(l, "messages", [load[l].lists EXCEPT
                !.tasks = IF load[l].lists.team = NoTeam THEN 0 ELSE data[load[l].lists.team]])
    /\ UNCHANGED <<data, wire, connected, chosen, nonce, displayed, liveSource, heard>>

(* message_list answers, or fails, which leaves the messages empty.        *)
ListMessages(l, ok) ==
    /\ LoadCalls(l, "messages")
    /\ LoadStep(l, "apply", [load[l].lists EXCEPT
                !.messages = IF ok /\ load[l].lists.team # NoTeam
                             THEN data[load[l].lists.team] ELSE Missing])
    /\ UNCHANGED <<data, wire, connected, chosen, nonce, displayed, liveSource, heard>>

(* Mutant of Apply: also a cancelled load sets what is shown.              *)
ApplyAlways(l) ==
    /\ load[l].step = "apply"
    /\ load' = [load EXCEPT ![l] = Over]
    /\ displayed' = load[l].lists
    /\ liveSource' = "live"
    /\ UNCHANGED <<data, wire, connected, chosen, nonce, heard>>

(* The load is done: what it read is shown, unless it was cancelled.       *)
Apply(l) ==
    /\ load[l].step = "apply"
    /\ load' = [load EXCEPT ![l] = Over]
    /\ displayed' = IF l = nonce THEN load[l].lists ELSE displayed
    /\ liveSource' = IF l = nonce THEN "live" ELSE liveSource
    /\ UNCHANGED <<data, wire, connected, chosen, nonce, heard>>

(* task_list fails, or the call that was aborted.                          *)
Fail(l) ==
    /\ load[l].step \in IF l = nonce THEN {"tasks"} ELSE {"team", "tasks", "messages"}
    /\ load' = [load EXCEPT ![l] = Over]
    /\ liveSource' = IF l = nonce THEN "empty" ELSE liveSource
    /\ UNCHANGED <<data, wire, connected, chosen, nonce, displayed, heard>>

LiveNext ==
    \/ \E t \in Team : DataChanges(t) \/ Choose(t)
    \/ Announce \/ Hear \/ Connect \/ Disconnect
    \/ \E l \in Loads : \/ ListTasks(l) \/ Apply(l) \/ Fail(l)
                        \/ \E ok \in BOOLEAN : ListTeams(l, ok) \/ ListMessages(l, ok)

LiveSpec == LiveInit /\ [][LiveNext]_boardVars

-----------------------------------------------------------------------------
(* A board at rest (its last load is over and went well) shows the team    *)
(* that is chosen, and of that team everything that had happened when the  *)
(* last event it heard was sent, tasks and messages alike, however loads   *)
(* overlapped, failed or were cancelled.  A failed team_list is not seen   *)
(* as one: the default team is shown instead.                              *)
RestingBoardIsCurrent ==
    load[nonce] = Over /\ liveSource = "live" /\ displayed.team # NoTeam =>
        /\ displayed.team = chosen
        /\ displayed.tasks >= heard[chosen]
        /\ displayed.messages \in Nat => displayed.messages >= heard[chosen]
=============================================================================
