---------------------------- MODULE MCServices -----------------------------
(***************************************************************************)
(* Instances of the services of a sidecar for TLC: the output of an agent  *)
(* and its summaries, approvals, the authentication preflight, the monitor *)
(* of silent agents, the Foundry chat and the launches of a team.  They    *)
(* share no state here, so a behaviour follows one of them, chosen at the  *)
(* start (part).                                                           *)
(***************************************************************************)
EXTENDS SpanSummaries, EventStream, Approvals, AuthPreflight, Foundry, StuckMonitor, TeamLaunch,
        TLC

CONSTANTS Lead, Mate, Parts

VARIABLE part

MCMember == {Lead, Mate}

MCRoster == <<Lead, Mate>>

-----------------------------------------------------------------------------
(* The parts that start in more than one state do so only when they run.   *)
MCInit ==
    /\ Init /\ StreamInit /\ ApprovalsInit /\ AuthInit /\ FoundryInit /\ StuckInit /\ TeamInit
    /\ part \in Parts
    /\ part = "spans" \/ sick = {}
    /\ part = "foundry" \/ provider = "openai"
    /\ part = "team" \/ (config = [m \in Member |-> CHOOSE p \in Provider : TRUE] /\
                         cwd = [m \in Member |-> CHOOSE d \in Dir : TRUE])

(* The sources of rows are alike: the first row that has one is of a fixed *)
(* one.                                                                    *)
FirstSource ==
    \A i \in DOMAIN rows :
        rows[i].activity /\ (\A j \in 1..i - 1 : ~rows[j].activity)
        => rows[i].source = CHOOSE s \in Source : TRUE

(* The calls of a team's tools are numbered as they are made.              *)
InOrder ==
    \A c \in ToolCall :
        teamCall[c].step # "unused" => \A d \in 1..c - 1 : teamCall[d].step # "unused"

MCNext ==
    /\ UNCHANGED part
    /\ \/ part = "spans" /\ Next /\ FirstSource'
       \/ part # "spans" /\ UNCHANGED vars
    /\ \/ part = "stream" /\ StreamNext
       \/ part # "stream" /\ UNCHANGED streamVars
    /\ \/ part = "approvals" /\ ApprovalsNext
       \/ part # "approvals" /\ UNCHANGED approvalVars
    /\ \/ part = "auth" /\ AuthNext
       \/ part # "auth" /\ UNCHANGED authVars
    /\ \/ part = "foundry" /\ FoundryNext
       \/ part # "foundry" /\ UNCHANGED foundryVars
    /\ \/ part = "stuck" /\ StuckNext
       \/ part # "stuck" /\ UNCHANGED stuckVars
    /\ \/ part = "team" /\ TeamNext /\ InOrder'
       \/ part # "team" /\ UNCHANGED teamVars

(* The fairness of those that have some; a part that does not run is never *)
(* enabled.                                                                *)
MCSpec ==
    /\ MCInit
    /\ [][MCNext]_<<vars, streamVars, approvalVars, authVars, foundryVars, stuckVars,
                    teamVars, part>>
    /\ WF_vars(part = "spans" /\ Pass)
    /\ WF_vars(part = "spans" /\ TickOnce)
    /\ WF_vars(part = "spans" /\ (AskNext \/ Answered \/ RunEnds))
    /\ \A p \in Proc : WF_streamVars(part = "stream" /\ Ingest(p))

(* The type invariants together.                                           *)
ServicesTypeOK ==
    /\ part = "spans" => TypeOK
    /\ part = "stream" => StreamTypeOK
    /\ part = "approvals" => ApprovalsTypeOK
    /\ part = "auth" => AuthTypeOK
    /\ part = "foundry" => FoundryTypeOK
    /\ part = "stuck" => StuckTypeOK
    /\ part = "team" => TeamTypeOK
=============================================================================
