--------------------------- MODULE AuthPreflight ---------------------------
(***************************************************************************)
(* The check of the Claude credentials before a Claude agent is launched   *)
(* (claudeAuthPreflight), serialized for all launches of a sidecar by a    *)
(* chain of promises in LocalToadRuntime.launchAgent, and the one CLI turn *)
(* (refreshOnce) that is to renew a stale token.                           *)
(*                                                                         *)
(* The credentials file belongs to the CLI: a token may expire, be renewed *)
(* by a running agent, or be lost at any time, also during the CLI turn.   *)
(***************************************************************************)
EXTENDS Integers, Sequences, FiniteSets, SequencesExt

CONSTANTS
    Launch,         \* calls of launchAgent for Claude agents
    Guard,          \* RELAUNCH_GUARD_MS
    MaxClock        \* clock (bound)

ASSUME GuardAssumption == Guard \in Nat /\ MaxClock \in Nat

VARIABLES
    clock,
    creds,          \* tokenStatus of the credentials file
    chain,          \* #authPreflightMutex: preflights waiting their turn
    refreshing,     \* the preflight waiting for refreshOnce
    warnedAt,       \* #authRelaunchState: when a launch last went on warned
    verdict,        \* launch -> what its preflight decided
    doomed          \* history: launches that went on warned, since a renewal,
                    \* and when

authVars == <<clock, creds, chain, refreshing, warnedAt, verdict, doomed>>

TokenStatus == {"fresh", "stale_refreshable", "unrecoverable"}
Never       == -1

AuthTypeOK ==
    /\ clock \in 0..MaxClock
    /\ creds \in TokenStatus
    /\ chain \in Seq(Launch)
    /\ refreshing \subseteq Launch
    /\ warnedAt \in {Never} \cup 0..clock
    /\ verdict \in [Launch -> {"none", "proceed", "warn", "block"}]
    /\ doomed \subseteq Launch \X (0..clock)

AuthInit ==
    /\ clock = 0
    /\ creds = "fresh"
    /\ chain = <<>>
    /\ refreshing = {}
    /\ warnedAt = Never
    /\ verdict = [l \in Launch |-> "none"]
    /\ doomed = {}

-----------------------------------------------------------------------------
(* launchAgent: the preflight is chained to those before it.               *)
ChainPreflight(l) ==
    /\ verdict[l] = "none"
    /\ l \notin refreshing
    /\ \A i \in 1..Len(chain) : chain[i] # l
    /\ chain' = Append(chain, l)
    /\ UNCHANGED <<clock, creds, refreshing, warnedAt, verdict, doomed>>

(* Mutant of MayRun: preflights do not wait for each other.                *)
MayRunAtOnce(l) == \E i \in 1..Len(chain) : chain[i] = l

(* The chain runs them one at a time, in order.                            *)
MayRun(l) == chain # <<>> /\ Head(chain) = l /\ refreshing = {}

WarnedLately == warnedAt # Never /\ clock - warnedAt < Guard

(* The preflight up to its wait for the CLI turn.                          *)
Preflight(l) ==
    /\ MayRun(l)
    /\ \E i \in 1..Len(chain) : chain[i] = l /\ chain' = RemoveAt(chain, i)
    /\ IF creds = "stale_refreshable" /\ ~WarnedLately
       THEN refreshing' = refreshing \cup {l} /\ UNCHANGED verdict
       ELSE /\ verdict' = [verdict EXCEPT ![l] = IF creds = "fresh" THEN "proceed" ELSE "block"]
            /\ UNCHANGED refreshing
    /\ UNCHANGED <<clock, creds, warnedAt, doomed>>

(* The CLI turn completed (ok), was refused by the service (rejected), or  *)
(* never completed (lost: a failed spawn, a timeout, another error); the   *)
(* credentials are read again.  Only the turn that never completed leaves  *)
(* it open whether the agent can run.                                      *)
RefreshEnds(l, turn) ==
    /\ l \in refreshing
    /\ refreshing' = refreshing \ {l}
    /\ LET warned == creds = "stale_refreshable" /\ turn = "lost"
       IN /\ verdict' = [verdict EXCEPT ![l] = IF creds = "fresh" THEN "proceed"
                                               ELSE IF warned THEN "warn" ELSE "block"]
          /\ warnedAt' = IF creds = "fresh" THEN Never
                         ELSE IF warned THEN clock ELSE warnedAt
          /\ doomed' = IF creds = "fresh" THEN {}
                       ELSE IF warned THEN doomed \cup {<<l, clock>>} ELSE doomed
    /\ UNCHANGED <<clock, creds, chain>>

(* The operator launches the agent again.                                  *)
Again(l) ==
    /\ verdict[l] # "none"
    /\ verdict' = [verdict EXCEPT ![l] = "none"]
    /\ UNCHANGED <<clock, creds, chain, refreshing, warnedAt, doomed>>

(* The token expires, is renewed or is lost.                               *)
CredentialsChange(status) ==
    /\ creds # status
    /\ creds' = status
    /\ UNCHANGED <<clock, chain, refreshing, warnedAt, verdict, doomed>>

AuthClock ==
    /\ clock < MaxClock
    /\ clock' = clock + 1
    /\ UNCHANGED <<creds, chain, refreshing, warnedAt, verdict, doomed>>

AuthNext ==
    \/ \E l \in Launch : \/ ChainPreflight(l)
                         \/ Preflight(l)
                         \/ \E turn \in {"ok", "rejected", "lost"} : RefreshEnds(l, turn)
                         \/ Again(l)
    \/ \E status \in TokenStatus : CredentialsChange(status)
    \/ AuthClock

AuthSpec == AuthInit /\ [][AuthNext]_authVars

-----------------------------------------------------------------------------
(* However many launches are started together or repeated, one of them at  *)
(* most goes ahead on a stale token within the guard, until a preflight    *)
(* sees the token renewed.                                                 *)
OneWarnedPerGuard ==
    \A d, e \in doomed :
        d # e => d[2] - e[2] >= Guard \/ e[2] - d[2] >= Guard
=============================================================================
