--------------------------- MODULE ServicesProofs ---------------------------
(***************************************************************************)
(* Theorems about the services beside the task board, for every value of   *)
(* their constants: approvals, the authentication preflight, the monitor of *)
(* silent agents, Foundry conversations, the launch of a team and the       *)
(* summaries of what its agents did.                                       *)
(***************************************************************************)
EXTENDS MCServices, EventStreamProofs,
        WellFoundedInduction, TLAPS

-----------------------------------------------------------------------------
(***************************************************************************)
(* Approvals: types, and how often an agent is answered.                   *)
(***************************************************************************)

(* Type correctness.                                                       *)

LEMMA CallFields ==
  ASSUME NEW q \in Calls
  PROVE  /\ q.step \in {"idle", "update", "send", "mark"}
         /\ q.step # "idle" => /\ q.approval \in Approval
                               /\ q.decision \in Decision
                               /\ q.key \in Key
                               /\ \A s \in {"update", "send", "mark"} :
                                     [q EXCEPT !.step = s] \in Calls
  BY DEF Calls, Idle

LEMMA ApprovalsStep ==
  ASSUME ApprovalsTypeOK, [ApprovalsNext]_approvalVars
  PROVE  ApprovalsTypeOK'
<1> USE DEF ApprovalsTypeOK
<1>1. ASSUME AgentChanges PROVE ApprovalsTypeOK'
  BY <1>1 DEF AgentChanges
<1>2. ASSUME NEW a \in Approval, RequestApproval(a) PROVE ApprovalsTypeOK'
  <2>1. row' \in [Approval -> [status : Status, key : Key \cup {NoKey}]]
    BY <1>2 DEF RequestApproval, Status, NoRow
  <2> QED BY <1>2, <2>1 DEF RequestApproval
<1>3. ASSUME NEW p \in Process, NEW a \in Approval, NEW d \in Decision, NEW k \in Key,
             Respond(p, a, d, k)
      PROVE  ApprovalsTypeOK'
  <2>1. call' \in [Process -> Calls]
    BY <1>3 DEF Respond, Calls
  <2> QED BY <1>3, <2>1 DEF Respond
<1>4. ASSUME NEW p \in Process, RecordDecision(p) PROVE ApprovalsTypeOK'
  <2>1. /\ call[p].approval \in Approval /\ call[p].decision \in Decision
        /\ call[p].key \in Key /\ [call[p] EXCEPT !.step = "send"] \in Calls
    BY <1>4, CallFields DEF RecordDecision
  <2>2. row' \in [Approval -> [status : Status, key : Key \cup {NoKey}]]
    BY <1>4, <2>1 DEF RecordDecision, Status
  <2>3. call' \in [Process -> Calls]
    BY <1>4, <2>1 DEF RecordDecision
  <2> QED BY <1>4, <2>2, <2>3 DEF RecordDecision
<1>5. ASSUME NEW p \in Process, AnswerAgent(p) PROVE ApprovalsTypeOK'
  <2>0. Idle \in Calls
    BY DEF Calls
  <2>1. /\ call[p].approval \in Approval /\ call[p].decision \in Decision
        /\ [call[p] EXCEPT !.step = "mark"] \in Calls
    BY <1>5, CallFields DEF AnswerAgent
  <2>2. answers' \in [Approval -> Seq(Decision)]
    BY <1>5, <2>1 DEF AnswerAgent
  <2>3. call' \in [Process -> Calls]
    BY <1>5, <2>0, <2>1 DEF AnswerAgent
  <2> QED BY <1>5, <2>2, <2>3 DEF AnswerAgent
<1>6. ASSUME NEW p \in Process, MarkApprovalDelivered(p) PROVE ApprovalsTypeOK'
  BY <1>6 DEF MarkApprovalDelivered, Calls
<1>7. ASSUME NEW p \in Process, Crash(p) PROVE ApprovalsTypeOK'
  <2>1. torn' \in [Approval -> Nat]
    <3>1. CASE call[p].step = "mark"
      <4>1. call[p].approval \in Approval
        BY <3>1, CallFields
      <4> QED BY <1>7, <3>1, <4>1 DEF Crash
    <3>2. CASE call[p].step # "mark"
      BY <1>7, <3>2 DEF Crash
    <3> QED BY <3>1, <3>2
  <2> QED BY <1>7, <2>1 DEF Crash, Calls
<1>8. CASE UNCHANGED approvalVars
  BY <1>8 DEF approvalVars
<1> QED BY <1>1, <1>2, <1>3, <1>4, <1>5, <1>6, <1>7, <1>8 DEF ApprovalsNext

(* The tables, the calls in progress and what the agents were told always  *)
(* have their types.                                                       *)
THEOREM ApprovalsTypeCorrect == ApprovalsSpec => []ApprovalsTypeOK
<1>1. ApprovalsInit => ApprovalsTypeOK
  BY DEF ApprovalsInit, ApprovalsTypeOK, NoRow, Status, Calls
<1> QED BY <1>1, ApprovalsStep, PTL DEF ApprovalsSpec

-----------------------------------------------------------------------------
(* How often an agent is answered.  The calls of a process do not overlap  *)
(* and only the sidecar answers, so the answers to an approval that no     *)
(* stop has torn from their receipt are one at most: the one the receipt   *)
(* stands for, or the one the sidecar's call has yet to write it for.      *)

Owed(a) == call["main"].step = "mark" /\ call["main"].approval = a

Accounted(a) ==
    /\ Len(answers[a]) <= torn[a] + (IF receipt[a] \/ Owed(a) THEN 1 ELSE 0)
    /\ receipt[a] \/ Owed(a) => answers[a] # <<>>

AnswersInv ==
    /\ ApprovalsTypeOK
    /\ call["child"].step # "mark"
    /\ \A a \in Approval : Owed(a) => ~receipt[a]
    /\ \A a \in Approval : Accounted(a)

LEMMA AnswersStep ==
  ASSUME AnswersInv, [ApprovalsNext]_approvalVars
  PROVE  AnswersInv'
<1>0. ApprovalsTypeOK'
  BY ApprovalsStep DEF AnswersInv
<1>a. /\ "main" \in Process /\ "child" \in Process /\ \A p \in Process : p \in {"main", "child"}
  BY DEF Process
<1>b. \A a \in Approval : /\ answers[a] \in Seq(Decision) /\ Len(answers[a]) \in Nat
                          /\ torn[a] \in Nat /\ receipt[a] \in BOOLEAN
  BY DEF AnswersInv, ApprovalsTypeOK
(* Whatever leaves the answers, the receipts and the calls that owe one.   *)
<1>c. ASSUME UNCHANGED <<answers, receipt, torn>>, call'["child"].step # "mark",
             \A a \in Approval : Owed(a)' <=> Owed(a)
      PROVE  AnswersInv'
  BY <1>0, <1>c DEF AnswersInv, Accounted
<1>1. CASE AgentChanges
  BY <1>1, <1>c DEF AgentChanges, Owed, AnswersInv
<1>2. ASSUME NEW a \in Approval, RequestApproval(a) PROVE AnswersInv'
  BY <1>2, <1>c DEF RequestApproval, Owed, AnswersInv
<1>3. ASSUME NEW p \in Process, NEW a \in Approval, NEW d \in Decision, NEW k \in Key,
             Respond(p, a, d, k)
      PROVE  AnswersInv'
  <2>1. call'["child"].step # "mark"
    BY <1>3, <1>a DEF Respond, AnswersInv, ApprovalsTypeOK
  <2>2. \A b \in Approval : Owed(b)' <=> Owed(b)
    BY <1>3, <1>a DEF Respond, Owed, AnswersInv, ApprovalsTypeOK, Idle
  <2> QED BY <1>3, <1>c, <2>1, <2>2 DEF Respond
<1>4. ASSUME NEW p \in Process, RecordDecision(p) PROVE AnswersInv'
  <2>0. call[p].step = "update" /\ call' = [call EXCEPT ![p].step = "send"]
    BY <1>4 DEF RecordDecision
  <2>1. call'["child"].step # "mark"
    BY <2>0, <1>a DEF AnswersInv, ApprovalsTypeOK
  <2>2. \A b \in Approval : Owed(b)' <=> Owed(b)
    BY <2>0, <1>a DEF Owed, AnswersInv, ApprovalsTypeOK
  <2> QED BY <1>4, <1>c, <2>1, <2>2 DEF RecordDecision
<1>5. ASSUME NEW p \in Process, AnswerAgent(p) PROVE AnswersInv'
  <2> DEFINE b == call[p].approval
             written == MayAnswer(p, b) /\ stdin = "writable"
  <2>0. /\ call[p] \in Calls /\ call[p].step = "send"
        /\ b \in Approval /\ call[p].decision \in Decision
    BY <1>5, CallFields DEF AnswerAgent, AnswersInv, ApprovalsTypeOK
  <2>1. CASE ~written
    <3>1. UNCHANGED <<answers, receipt, torn>> /\ call' = [call EXCEPT ![p] = Idle]
      BY <1>5, <2>1 DEF AnswerAgent
    <3>2. call'["child"].step # "mark"
      BY <3>1, <1>a DEF AnswersInv, ApprovalsTypeOK, Idle
    <3>3. \A a \in Approval : Owed(a)' <=> Owed(a)
      BY <3>1, <2>0, <1>a DEF Owed, AnswersInv, ApprovalsTypeOK, Idle
    <3> QED BY <1>c, <3>1, <3>2, <3>3
  <2>2. CASE written
    <3>1. p = "main" /\ ~receipt[b]
      BY <2>2 DEF MayAnswer
    <3>2. /\ answers' = [answers EXCEPT ![b] = Append(@, call["main"].decision)]
          /\ call' = [call EXCEPT !["main"] = [call["main"] EXCEPT !.step = "mark"]]
          /\ UNCHANGED <<receipt, torn>>
      BY <1>5, <2>2, <3>1 DEF AnswerAgent
    <3>3. /\ \A a \in Approval : ~Owed(a)
          /\ \A a \in Approval : Owed(a)' <=> a = b
      BY <3>1, <3>2, <2>0, <1>a DEF Owed, AnswersInv, ApprovalsTypeOK, Calls, Idle
    <3>4. /\ answers'[b] # <<>>
          /\ Len(answers'[b]) = Len(answers[b]) + 1
          /\ \A a \in Approval \ {b} : answers'[a] = answers[a]
      <4>1. answers'[b] = Append(answers[b], call["main"].decision)
        BY <3>2, <2>0 DEF AnswersInv, ApprovalsTypeOK
      <4>2. \A a \in Approval \ {b} : answers'[a] = answers[a]
        BY <3>2, <2>0 DEF AnswersInv, ApprovalsTypeOK
      <4>3. answers[b] \in Seq(Decision) /\ call["main"].decision \in Decision
        BY <2>0, <1>b, <3>1
      <4> QED BY <4>1, <4>2, <4>3
    <3>5. Len(answers[b]) <= torn[b]
      BY <3>1, <3>3, <2>0, <1>b DEF AnswersInv, Accounted
    <3>6. \A a \in Approval : Accounted(a)'
      BY <3>1, <3>2, <3>3, <3>4, <3>5, <1>b, <2>0 DEF AnswersInv, Accounted
    <3>7. call'["child"].step # "mark"
      BY <3>2, <1>a DEF AnswersInv, ApprovalsTypeOK
    <3>8. \A a \in Approval : Owed(a)' => ~receipt'[a]
      BY <3>1, <3>2, <3>3
    <3> QED BY <1>0, <3>6, <3>7, <3>8 DEF AnswersInv
  <2> QED BY <2>1, <2>2
<1>6. ASSUME NEW p \in Process, MarkApprovalDelivered(p) PROVE AnswersInv'
  <2> DEFINE b == call[p].approval
  <2>0. p = "main" /\ b \in Approval /\ Owed(b) /\ call["main"].step = "mark"
    BY <1>6, <1>a, CallFields DEF MarkApprovalDelivered, AnswersInv, ApprovalsTypeOK, Owed
  <2>1. /\ call' = [call EXCEPT !["main"] = Idle]
        /\ receipt' = [receipt EXCEPT ![b] = TRUE]
        /\ UNCHANGED <<answers, torn>>
    BY <1>6, <2>0 DEF MarkApprovalDelivered
  <2>2. \A a \in Approval : ~Owed(a)' /\ (Owed(a) => a = b)
    BY <2>0, <2>1, <1>a DEF Owed, AnswersInv, ApprovalsTypeOK, Idle
  <2>3. receipt'[b] /\ \A a \in Approval \ {b} : receipt'[a] = receipt[a]
    BY <2>0, <2>1 DEF AnswersInv, ApprovalsTypeOK
  <2>4. \A a \in Approval : Accounted(a)'
    BY <2>0, <2>1, <2>2, <2>3, <1>b DEF AnswersInv, Accounted
  <2>5. call'["child"].step # "mark"
    BY <2>1, <1>a DEF AnswersInv, ApprovalsTypeOK
  <2> QED BY <1>0, <2>2, <2>4, <2>5 DEF AnswersInv
<1>7. ASSUME NEW p \in Process, Crash(p) PROVE AnswersInv'
  <2>0. call' = [call EXCEPT ![p] = Idle] /\ UNCHANGED <<answers, receipt>>
    BY <1>7 DEF Crash
  <2>1. call'["child"].step # "mark"
    BY <2>0, <1>a DEF AnswersInv, ApprovalsTypeOK, Idle
  <2>2. CASE call[p].step = "mark"
    <3> DEFINE b == call[p].approval
    <3>1. p = "main" /\ b \in Approval /\ Owed(b)
      BY <2>2, <1>a, CallFields DEF AnswersInv, ApprovalsTypeOK, Owed
    <3>2. \A a \in Approval : ~Owed(a)' /\ (Owed(a) => a = b)
      BY <2>0, <3>1, <1>a DEF Owed, AnswersInv, ApprovalsTypeOK, Idle
    <3>3. ~receipt[b]
      BY <3>1 DEF AnswersInv
    <3>4. torn'[b] = torn[b] + 1 /\ \A a \in Approval \ {b} : torn'[a] = torn[a]
      BY <1>7, <2>2, <3>1 DEF Crash, AnswersInv, ApprovalsTypeOK
    <3>5. \A a \in Approval : Accounted(a)'
      BY <2>0, <3>1, <3>2, <3>3, <3>4, <1>b DEF AnswersInv, Accounted
    <3> QED BY <1>0, <2>1, <3>2, <3>5 DEF AnswersInv
  <2>3. CASE call[p].step # "mark"
    <3>1. torn' = torn
      BY <1>7, <2>3 DEF Crash
    <3>2. \A a \in Approval : Owed(a)' <=> Owed(a)
      BY <2>0, <2>3, <1>a DEF Owed, AnswersInv, ApprovalsTypeOK, Idle
    <3> QED BY <1>c, <2>0, <2>1, <3>1, <3>2
  <2> QED BY <2>2, <2>3
<1>8. CASE UNCHANGED approvalVars
  BY <1>8, <1>c DEF approvalVars, Owed, AnswersInv
<1> QED BY <1>1, <1>2, <1>3, <1>4, <1>5, <1>6, <1>7, <1>8 DEF ApprovalsNext

LEMMA AnswersAlways == ApprovalsSpec => []AnswersInv
<1>1. ApprovalsInit => AnswersInv
  <2> SUFFICES ASSUME ApprovalsInit PROVE AnswersInv
    OBVIOUS
  <2>1. ApprovalsTypeOK
    BY DEF ApprovalsInit, ApprovalsTypeOK, NoRow, Status, Calls
  <2>2. /\ call["child"] = Idle /\ call["main"] = Idle
        /\ \A a \in Approval : answers[a] = <<>> /\ torn[a] = 0 /\ receipt[a] = FALSE
    BY DEF ApprovalsInit, Process
  <2>0. call["main"].step # "mark"
    BY <2>2 DEF Idle
  <2>3. \A a \in Approval : ~Owed(a)
    BY <2>0 DEF Owed
  <2>4. Len(<<>>) = 0
    OBVIOUS
  <2> QED BY <2>1, <2>2, <2>3, <2>4 DEF AnswersInv, Accounted, Idle
<1> QED BY <1>1, AnswersStep, PTL DEF ApprovalsSpec

(* However often a decision is retried, changed or raced by the other      *)
(* process, the agent is answered once, and once more for each stop        *)
(* between its answer and the receipt.                                     *)
THEOREM AnsweredOnce == ApprovalsSpec => []AnsweredUnlessTorn
<1>1. AnswersInv => AnsweredUnlessTorn
  <2> SUFFICES ASSUME AnswersInv, NEW a \in Approval
               PROVE  Len(answers[a]) <= 1 + torn[a]
    BY DEF AnsweredUnlessTorn
  <2>1. torn[a] \in Nat /\ Len(answers[a]) \in Nat
    BY DEF AnswersInv, ApprovalsTypeOK
  <2> QED BY <2>1 DEF AnswersInv, Accounted
<1> QED BY <1>1, AnswersAlways, PTL

(* No approval counts as delivered before a decision reached the agent.    *)
THEOREM ReceiptsAreHonest == ApprovalsSpec => []ReceiptMeansAnswered
<1>1. AnswersInv => ReceiptMeansAnswered
  BY DEF AnswersInv, Accounted, ReceiptMeansAnswered
<1> QED BY <1>1, AnswersAlways, PTL

-----------------------------------------------------------------------------
(***************************************************************************)
(* The authentication preflight.                                           *)
(***************************************************************************)

(* Why one warned launch at most: a preflight that waits for its CLI turn  *)
(* waits alone, and it only began to since the last warning was older than *)
(* the guard.  The clock moves on meanwhile, but not back.                 *)
WarnInv ==
    /\ clock \in Nat
    /\ warnedAt \in Nat \cup {Never}
    /\ \A l, q \in refreshing : l = q
    /\ refreshing # {} => ~WarnedLately
    /\ \A d \in doomed : d[2] \in Nat /\ warnedAt # Never /\ d[2] <= warnedAt
    /\ OneWarnedPerGuard

LEMMA WarnStep ==
    ASSUME WarnInv, [AuthNext]_authVars
    PROVE  WarnInv'
  <1> USE GuardAssumption DEF Never, WarnedLately
  <1>1. ASSUME NEW l \in Launch, Preflight(l)
        PROVE  WarnInv'
    <2>1. /\ clock' = clock /\ warnedAt' = warnedAt /\ doomed' = doomed
          /\ refreshing = {}
      BY <1>1 DEF Preflight, MayRun
    <2>2. refreshing' = {} \/ (refreshing' = {l} /\ ~WarnedLately)
      BY <1>1, <2>1 DEF Preflight
    <2> QED BY <2>1, <2>2 DEF WarnInv, OneWarnedPerGuard
  <1>2. ASSUME NEW l \in Launch, NEW reply \in {"ok", "rejected", "lost"}, RefreshEnds(l, reply)
        PROVE  WarnInv'
    <2>1. clock' = clock /\ l \in refreshing /\ refreshing' = {}
      BY <1>2 DEF RefreshEnds, WarnInv
    <2>2. CASE creds = "fresh"
      <3>1. warnedAt' = Never /\ doomed' = {}
        BY <1>2, <2>2 DEF RefreshEnds
      <3> QED BY <2>1, <3>1 DEF WarnInv, OneWarnedPerGuard
    <2>3. CASE creds = "stale_refreshable" /\ reply = "lost"
      <3>1. warnedAt' = clock /\ doomed' = doomed \cup {<<l, clock>>}
        BY <1>2, <2>3 DEF RefreshEnds
      <3>2. \A d \in doomed : d[2] \in Nat /\ d[2] <= clock /\ clock - d[2] >= Guard
        BY <2>1 DEF WarnInv
      <3>3. \A d \in doomed' : d[2] \in Nat /\ d[2] <= warnedAt'
        BY <3>1, <3>2 DEF WarnInv
      <3>4. OneWarnedPerGuard'
        BY <3>1, <3>2 DEF WarnInv, OneWarnedPerGuard
      <3> QED BY <2>1, <3>1, <3>3, <3>4 DEF WarnInv
    <2>4. CASE creds # "fresh" /\ ~(creds = "stale_refreshable" /\ reply = "lost")
      <3>1. warnedAt' = warnedAt /\ doomed' = doomed
        BY <1>2, <2>4 DEF RefreshEnds
      <3> QED BY <2>1, <3>1 DEF WarnInv, OneWarnedPerGuard
    <2> QED BY <2>2, <2>3, <2>4
  <1>3. CASE AuthClock
    <2>1. /\ clock' = clock + 1
          /\ UNCHANGED <<refreshing, warnedAt, doomed>>
      BY <1>3 DEF AuthClock
    <2> QED BY <2>1 DEF WarnInv, OneWarnedPerGuard
  <1>4. CASE UNCHANGED <<clock, refreshing, warnedAt, doomed>>
    BY <1>4 DEF WarnInv, OneWarnedPerGuard
  <1>5. \A l \in Launch : ChainPreflight(l) \/ Again(l)
            => UNCHANGED <<clock, refreshing, warnedAt, doomed>>
    BY DEF ChainPreflight, Again
  <1>6. \A token \in TokenStatus :
            CredentialsChange(token) => UNCHANGED <<clock, refreshing, warnedAt, doomed>>
    BY DEF CredentialsChange
  <1>7. CASE UNCHANGED authVars
    BY <1>4, <1>7 DEF authVars
  <1> QED BY <1>1, <1>2, <1>3, <1>4, <1>5, <1>6, <1>7 DEF AuthNext

(* The preflights and the verdicts have their types; no launch is recorded *)
(* as gone on warned later than now.                                       *)
THEOREM AuthTypeCorrect == AuthSpec => []AuthTypeOK
  <1> USE GuardAssumption DEF Never
  <1>1. AuthInit => AuthTypeOK
    BY DEF AuthInit, AuthTypeOK, TokenStatus
  <1>2. AuthTypeOK /\ [AuthNext]_authVars => AuthTypeOK'
    <2> SUFFICES ASSUME AuthTypeOK, [AuthNext]_authVars PROVE AuthTypeOK'
      OBVIOUS
    <2>1. ASSUME NEW l \in Launch, ChainPreflight(l) PROVE AuthTypeOK'
      BY <2>1 DEF ChainPreflight, AuthTypeOK
    <2>2. ASSUME NEW l \in Launch, Preflight(l) PROVE AuthTypeOK'
      <3>1. PICK i \in 1..Len(chain) : chain' = RemoveAt(chain, i)
        BY <2>2 DEF Preflight
      <3>2. chain' \in Seq(Launch)
        BY <3>1 DEF AuthTypeOK, RemoveAt
      <3>3. /\ refreshing' \in {refreshing, refreshing \cup {l}}
            /\ verdict' \in [Launch -> {"none", "proceed", "warn", "block"}]
            /\ UNCHANGED <<clock, creds, warnedAt, doomed>>
        BY <2>2 DEF Preflight, AuthTypeOK
      <3> QED BY <3>2, <3>3 DEF AuthTypeOK
    <2>3. ASSUME NEW l \in Launch, NEW reply \in {"ok", "rejected", "lost"}, RefreshEnds(l, reply)
          PROVE  AuthTypeOK'
      <3>1. /\ verdict' \in [Launch -> {"none", "proceed", "warn", "block"}]
            /\ warnedAt' \in {Never, clock, warnedAt}
            /\ doomed' \in {{}, doomed, doomed \cup {<<l, clock>>}}
            /\ refreshing' \subseteq refreshing
            /\ UNCHANGED <<clock, creds, chain>>
        BY <2>3 DEF RefreshEnds, AuthTypeOK
      <3> QED BY <3>1 DEF AuthTypeOK
    <2>4. ASSUME NEW l \in Launch, Again(l) PROVE AuthTypeOK'
      BY <2>4 DEF Again, AuthTypeOK
    <2>5. ASSUME NEW token \in TokenStatus, CredentialsChange(token) PROVE AuthTypeOK'
      BY <2>5 DEF CredentialsChange, AuthTypeOK
    <2>6. CASE AuthClock
      <3>1. clock' \in 0..MaxClock /\ 0..clock \subseteq 0..clock'
        BY <2>6 DEF AuthClock, AuthTypeOK
      <3> QED BY <2>6, <3>1 DEF AuthClock, AuthTypeOK
    <2>7. CASE UNCHANGED authVars
      BY <2>7 DEF authVars, AuthTypeOK
    <2> QED BY <2>1, <2>2, <2>3, <2>4, <2>5, <2>6, <2>7 DEF AuthNext
  <1> QED BY <1>1, <1>2, PTL DEF AuthSpec

(* However many preflights are chained and whenever the token changes, two *)
(* launches that went on with a stale token are a guard apart.             *)
THEOREM WarnedApart == AuthSpec => []OneWarnedPerGuard
  <1>1. AuthInit => WarnInv
    BY GuardAssumption DEF AuthInit, WarnInv, OneWarnedPerGuard, Never
  <1>2. WarnInv /\ [AuthNext]_authVars => WarnInv'
    BY WarnStep
  <1>3. WarnInv => OneWarnedPerGuard
    BY DEF WarnInv
  <1> QED BY <1>1, <1>2, <1>3, PTL DEF AuthSpec

-----------------------------------------------------------------------------
(***************************************************************************)
(* The monitor of silent agents.                                           *)
(***************************************************************************)

(* The monitor of silent agents keeps its types.                           *)
THEOREM StuckTypeCorrect == StuckSpec => []StuckTypeOK
  <1> USE StuckAssumption DEF Mode, NoTime, Times
  <1>1. StuckInit => StuckTypeOK
    BY DEF StuckInit, StuckTypeOK
  <1>2. ASSUME StuckTypeOK, [StuckNext]_stuckVars
        PROVE  StuckTypeOK'
    <2> USE DEF StuckTypeOK
    <2>1. ASSUME NEW r \in Runtime, NEW mode \in Mode, CreateRuntime(r, mode)
          PROVE  StuckTypeOK'
      BY <1>2, <2>1 DEF CreateRuntime
    <2>2. ASSUME NEW r \in Runtime, Exit(r)
          PROVE  StuckTypeOK'
      BY <1>2, <2>2 DEF Exit
    <2>3. ASSUME NEW r \in Runtime, StartTurn(r)
          PROVE  StuckTypeOK'
      BY <1>2, <2>3 DEF StartTurn, rowVars
    <2>4. ASSUME NEW r \in Runtime, Event(r)
          PROVE  StuckTypeOK'
      BY <1>2, <2>4 DEF Event, rowVars
    <2>5. CASE Tick
      BY <1>2, <2>5 DEF Tick, rowVars, Stuck
    <2>6. CASE MonitorRestart
      BY <1>2, <2>6 DEF MonitorRestart
    <2>7. CASE TimePasses
      BY <1>2, <2>7 DEF TimePasses, rowVars
    <2>8. CASE UNCHANGED stuckVars
      BY <1>2, <2>8 DEF stuckVars, rowVars
    <2> QED BY <1>2, <2>1, <2>2, <2>3, <2>4, <2>5, <2>6, <2>7, <2>8 DEF StuckNext
  <1> QED BY <1>1, <1>2, PTL DEF StuckSpec

(* The last tick, or the start of the monitor if that is later.            *)
LastTick == tickDue - Interval

(* r is silent in a way the monitor is accountable for, since before t.    *)
SilentSince(r, t) == Watched(r) /\ Reference(r) >= launchedAt[r] /\ Reference(r) < t

(* What was silent for longer than the threshold at the last tick has been *)
(* announced; so has all of alerted that made no progress since.           *)
AnnouncedInv ==
    /\ StuckTypeOK
    /\ \A r \in Runtime :
          /\ SilentSince(r, LastTick - Threshold) => r \in announced
          /\ r \in alerted /\ SilentSince(r, LastTick) => r \in announced

LEMMA ReferenceTyped ==
    ASSUME StuckTypeOK, NEW r \in Runtime
    PROVE  Reference(r) \in Int /\ launchedAt[r] \in Int
  BY DEF StuckTypeOK, Reference, Times, NoTime

(* A step about one runtime: the others keep their silence, and this one   *)
(* is silent from now on at the earliest.                                  *)
LEMMA OneRuntimeStep ==
    ASSUME AnnouncedInv, StuckTypeOK', NEW r \in Runtime,
           UNCHANGED <<time, tickDue, alerted>>,
           announced \ {r} \subseteq announced',
           \A q \in Runtime \ {r} :
              /\ runtimeStatus'[q] = runtimeStatus[q] /\ deliveryMode'[q] = deliveryMode[q]
              /\ startedAt'[q] = startedAt[q] /\ lastEvent'[q] = lastEvent[q]
              /\ turnStartedAt'[q] = turnStartedAt[q] /\ launchedAt'[q] = launchedAt[q],
           (Watched(r) /\ Reference(r) >= launchedAt[r] => Reference(r) >= time)'
    PROVE  AnnouncedInv'
  <1> USE StuckAssumption
  <1>1. time \in Int /\ tickDue \in Int /\ tickDue <= time + Interval
    BY DEF AnnouncedInv, StuckTypeOK
  <1>2. ASSUME NEW q \in Runtime, q # r
        PROVE  /\ Watched(q)' = Watched(q) /\ Reference(q)' = Reference(q)
               /\ launchedAt'[q] = launchedAt[q] /\ (q \in announced => q \in announced')
    BY <1>2 DEF Watched, Reference
  <1>3. ASSUME NEW q \in Runtime, q # r
        PROVE  /\ SilentSince(q, LastTick - Threshold)' => q \in announced'
               /\ q \in alerted' /\ SilentSince(q, LastTick)' => q \in announced'
    <2>1. LastTick' = LastTick
      BY DEF LastTick
    <2> QED BY <1>2, <1>3, <2>1 DEF AnnouncedInv, SilentSince
  <1>4. ~SilentSince(r, LastTick)' /\ ~SilentSince(r, LastTick - Threshold)'
    <2>1. (Reference(r) \in Int)'
      BY ReferenceTyped, PTL
    <2> QED BY <1>1, <2>1 DEF SilentSince, LastTick
  <1> QED BY <1>3, <1>4 DEF AnnouncedInv

LEMMA AnnouncedStep ==
    ASSUME AnnouncedInv, StuckTypeOK', [StuckNext]_stuckVars
    PROVE  AnnouncedInv'
  <1> USE StuckAssumption DEF Times, NoTime
  <1> StuckTypeOK
    BY DEF AnnouncedInv
  <1>1. ASSUME NEW r \in Runtime, NEW mode \in Mode, CreateRuntime(r, mode)
        PROVE  AnnouncedInv'
    <2>1. launchedAt'[r] = time
      BY <1>1 DEF CreateRuntime, StuckTypeOK
    <2> QED BY <1>1, <2>1, OneRuntimeStep DEF CreateRuntime, StuckTypeOK
  <1>2. ASSUME NEW r \in Runtime, Exit(r)
        PROVE  AnnouncedInv'
    <2>1. ~Watched(r)'
      BY <1>2 DEF Exit, Watched, StuckTypeOK
    <2> QED BY <1>2, <2>1, OneRuntimeStep DEF Exit, StuckTypeOK
  <1>3. ASSUME NEW r \in Runtime, StartTurn(r)
        PROVE  AnnouncedInv'
    <2>1. Reference(r)' >= time'
      BY <1>3 DEF StartTurn, Reference, StuckTypeOK, rowVars
    <2> QED BY <1>3, <2>1, OneRuntimeStep DEF StartTurn, StuckTypeOK, rowVars
  <1>4. ASSUME NEW r \in Runtime, Event(r)
        PROVE  AnnouncedInv'
    <2>1. Reference(r)' >= time'
      BY <1>4 DEF Event, Reference, StuckTypeOK, rowVars
    <2> QED BY <1>4, <2>1, OneRuntimeStep DEF Event, StuckTypeOK, rowVars
  <1>5. CASE Tick
    <2>1. /\ LastTick' = time /\ LastTick = time - Interval /\ time \in Int
          /\ alerted' = Stuck /\ announced' = announced \cup (Stuck \ alerted)
      BY <1>5 DEF Tick, LastTick, StuckTypeOK
    <2>2. ASSUME NEW r \in Runtime, NEW t, SilentSince(r, t)'
          PROVE  SilentSince(r, t') /\ Reference(r)' = Reference(r)
      BY <1>5, <2>2 DEF Tick, rowVars, SilentSince, Watched, Reference
    <2>3. ASSUME NEW r \in Stuck, SilentSince(r, time)
          PROVE  r \in announced'
      <3>1. CASE r \notin alerted
        BY <2>1, <2>3, <3>1
      <3>2. CASE r \in alerted
        <4>1. Reference(r) \in Int /\ Reference(r) < LastTick
          BY <2>1, ReferenceTyped DEF Stuck, Silence
        <4>2. SilentSince(r, LastTick)
          BY <2>3, <4>1 DEF SilentSince
        <4> QED BY <2>1, <3>2, <4>2 DEF AnnouncedInv, Stuck
      <3> QED BY <3>1, <3>2
    <2>4. ASSUME NEW r \in Runtime, SilentSince(r, time - Threshold)
          PROVE  r \in announced'
      <3>1. Reference(r) \in Int
        BY ReferenceTyped
      <3>2. r \in Stuck /\ SilentSince(r, time)
        BY <2>1, <2>4, <3>1 DEF SilentSince, Stuck, Silence
      <3> QED BY <2>3, <3>2
    <2>5. ASSUME NEW r \in Runtime
          PROVE  /\ SilentSince(r, LastTick - Threshold)' => r \in announced'
                 /\ r \in alerted' /\ SilentSince(r, LastTick)' => r \in announced'
      <3>1. /\ SilentSince(r, LastTick - Threshold)' => SilentSince(r, time - Threshold)
            /\ SilentSince(r, LastTick)' => SilentSince(r, time)
        BY <1>5, <2>1 DEF Tick, rowVars, SilentSince, Watched, Reference
      <3> QED BY <2>1, <2>3, <2>4, <3>1
    <2> QED BY <2>5 DEF AnnouncedInv
  <1>6. CASE MonitorRestart
    <2>1. \A r \in Runtime : ~Watched(r)'
      BY <1>6 DEF MonitorRestart, Watched, StuckTypeOK
    <2> QED BY <2>1 DEF AnnouncedInv, SilentSince
  <1>7. CASE TimePasses \/ UNCHANGED stuckVars
    <2>1. UNCHANGED <<tickDue, runtimeStatus, deliveryMode, startedAt, lastEvent, turnStartedAt,
                      alerted, launchedAt, announced>>
      BY <1>7 DEF TimePasses, rowVars, stuckVars
    <2> QED BY <2>1 DEF AnnouncedInv, SilentSince, Watched, Reference, LastTick
  <1> QED BY <1>1, <1>2, <1>3, <1>4, <1>5, <1>6, <1>7 DEF StuckNext

(* SilenceIsAnnounced: the tick after the threshold finds every silence,   *)
(* and a runtime whose silence was announced before has made progress or   *)
(* is still the one announced.                                             *)
THEOREM SilencesAreAnnounced == StuckSpec => []SilenceIsAnnounced
  <1> USE StuckAssumption
  <1>1. StuckInit /\ StuckTypeOK => AnnouncedInv
    BY DEF StuckInit, AnnouncedInv, SilentSince, Watched
  <1>2. AnnouncedInv /\ StuckTypeOK' /\ [StuckNext]_stuckVars => AnnouncedInv'
    BY AnnouncedStep
  <1>3. AnnouncedInv => SilenceIsAnnounced
    <2> SUFFICES ASSUME AnnouncedInv, NEW r \in Runtime, Watched(r),
                        Reference(r) >= launchedAt[r], Silence(r) > Threshold + Interval
                 PROVE  r \in announced
      BY DEF SilenceIsAnnounced
    <2>1. Reference(r) \in Int /\ time \in Int /\ tickDue \in Int /\ time <= tickDue
      BY ReferenceTyped DEF AnnouncedInv, StuckTypeOK
    <2>2. SilentSince(r, LastTick - Threshold)
      BY <2>1 DEF SilentSince, LastTick, Silence
    <2> QED BY <2>2 DEF AnnouncedInv
  <1> QED BY <1>1, <1>2, <1>3, StuckTypeCorrect, PTL DEF StuckSpec

-----------------------------------------------------------------------------
(***************************************************************************)
(* Foundry: the conversation of a session and its processes.               *)
(***************************************************************************)

Alive(p) == process[p].status \in {"up", "dying"}

IsWaiting(t) == turn[t].step = "waiting"

(* A turn waits for a process that can answer it.                          *)
WaitsForLiving == \A t \in Turn : IsWaiting(t) => Alive(turn[t].of)

FoundryTypeInv == FoundryTypeOK /\ WaitsForLiving

Born == [status : {"up", "dying", "closed"}, conversation : CliProcess, owes : Seq(Turn)]

LEMMA BornFields ==
    ASSUME FoundryTypeOK, NEW p \in CliProcess, process[p] # Unborn
    PROVE  /\ process[p] \in Born
           /\ process[p].conversation \in CliProcess /\ process[p].owes \in Seq(Turn)
  BY DEF FoundryTypeOK, ProcessStates, Born

LEMMA WaitingFields ==
    ASSUME FoundryTypeOK, NEW t \in Turn, IsWaiting(t)
    PROVE  turn[t].of \in CliProcess /\ turn[t].first \in BOOLEAN
  BY DEF FoundryTypeOK, IsWaiting, Turns, Unasked, TurnOver

LEMMA AliveIsBorn ==
    ASSUME FoundryTypeOK, NEW p \in CliProcess, Alive(p)
    PROVE  process[p] # Unborn
  BY DEF Alive, Unborn

(* What a step does to one process.                                        *)
LEMMA ProcessTyped ==
    ASSUME FoundryTypeOK, NEW p \in CliProcess, NEW new \in Born,
           process' = [process EXCEPT ![p] = new]
    PROVE  /\ process' \in [CliProcess -> ProcessStates]
           /\ process'[p] = new
           /\ \A q \in CliProcess : q # p => process'[q] = process[q]
  BY DEF FoundryTypeOK, ProcessStates, Born

Closed(state) == [state EXCEPT !.status = "closed", !.owes = <<>>]

(* A process that closes keeps its conversation.                           *)
LEMMA ClosedIsBorn ==
    ASSUME FoundryTypeOK, NEW p \in CliProcess, process[p] # Unborn
    PROVE  Closed(process[p]) \in Born /\ Closed(process[p]).status = "closed"
  <1>0. PICK none \in Seq(Turn) : none = <<>>
    <2>1. <<>> \in Seq(Turn)
      OBVIOUS
    <2> QED BY <2>1, Zenon
  <1> DEFINE half == [process[p] EXCEPT !.status = "closed"]
             whole == [half EXCEPT !.owes = none]
  <1>1. process[p] \in Born
    BY BornFields
  <1>2. half \in Born /\ half.status = "closed"
    BY <1>1 DEF Born
  <1>3. Closed(process[p]) = whole
    BY <1>0, Zenon DEF Closed
  <1> HIDE DEF half
  <1>4. whole \in Born /\ whole.status = "closed"
    <2>1. half \in Born
      BY <1>2
    <2>2. whole \in Born /\ whole.status = half.status
      BY <2>1 DEF Born
    <2> QED BY <1>2, <2>2, Zenon
  <1> QED BY <1>3, <1>4

(* Send gives the question to one process, which is alive then.            *)
LEMMA SendGives ==
    ASSUME FoundryTypeOK, NEW t \in Turn, NEW p \in CliProcess, Send(t, p)
    PROVE  /\ process' \in [CliProcess -> ProcessStates]
           /\ process'[p].status \in {"up", "dying"}
           /\ \A q \in CliProcess : q # p => process'[q] = process[q]
           /\ process'[p].conversation =
                  IF registry # 0 THEN process[p].conversation
                  ELSE IF cliSessionId = NoConversation THEN p ELSE cliSessionId
           /\ registry # 0 => p = registry /\ registry' = registry
           /\ registry = 0 => /\ process[p] = Unborn
                              /\ registry' = IF provider = "anthropic" THEN p ELSE 0
  <1>1. CASE registry # 0
    <2>1. p = registry /\ Alive(p) /\ process' = [process EXCEPT ![p].owes = Append(@, t)]
          /\ registry' = registry
      BY <1>1 DEF Send, Alive, FoundryTypeOK
    <2>2. process[p] \in Born /\ Append(process[p].owes, t) \in Seq(Turn)
      BY <2>1, BornFields, AliveIsBorn
    <2>3. PICK owes \in Seq(Turn) : owes = Append(process[p].owes, t)
      BY <2>2
    <2> DEFINE new == [process[p] EXCEPT !.owes = owes]
    <2>4. /\ new \in Born /\ new.conversation = process[p].conversation
          /\ new.status = process[p].status
      <3>1. process[p] \in Born
        BY <2>2
      <3> QED BY <3>1 DEF Born
    <2>5. process' = [process EXCEPT ![p] = new]
      BY <2>1, <2>3 DEF FoundryTypeOK, Born
    <2> HIDE DEF new
    <2> QED BY <1>1, <2>1, <2>4, <2>5, ProcessTyped DEF Alive
  <1>2. CASE registry = 0
    <2>1. /\ process[p] = Unborn
          /\ process' = [process EXCEPT ![p] = Spawned(p, t)]
          /\ registry' = IF provider = "anthropic" THEN p ELSE 0
      BY <1>2 DEF Send
    <2>2. /\ Spawned(p, t) \in Born /\ Spawned(p, t).status = "up"
          /\ Spawned(p, t).conversation = IF cliSessionId = NoConversation THEN p ELSE cliSessionId
      BY DEF Spawned, Born, FoundryTypeOK
    <2> QED BY <1>2, <2>1, <2>2, ProcessTyped
  <1> QED BY <1>1, <1>2

LEMMA AnswerTakes ==
    ASSUME FoundryTypeOK, NEW p \in CliProcess, NEW heard, NEW failed, Answer(p, heard, failed)
    PROVE  /\ process' \in [CliProcess -> ProcessStates]
           /\ \A q \in CliProcess : /\ process'[q].status = process[q].status
                                    /\ process[q] # Unborn => process'[q].conversation =
                                                              process[q].conversation
           /\ process[p].conversation \in CliProcess
           /\ Head(process[p].owes) \in Turn
           /\ Alive(p)
  <1>1. Alive(p) /\ process[p].owes # <<>> /\ process' = [process EXCEPT ![p].owes = Tail(@)]
    BY DEF Answer, Alive
  <1>2. /\ process[p] \in Born /\ Tail(process[p].owes) \in Seq(Turn)
        /\ Head(process[p].owes) \in Turn /\ process[p].conversation \in CliProcess
    BY <1>1, BornFields, AliveIsBorn
  <1>3. PICK owes \in Seq(Turn) : owes = Tail(process[p].owes)
    BY <1>2
  <1> DEFINE new == [process[p] EXCEPT !.owes = owes]
  <1>4. new \in Born /\ new.conversation = process[p].conversation /\ new.status = process[p].status
    <2>1. process[p] \in Born
      BY <1>2
    <2> QED BY <2>1 DEF Born
  <1>5. process' = [process EXCEPT ![p] = new]
    BY <1>1, <1>3 DEF FoundryTypeOK, Born
  <1> HIDE DEF new
  <1> QED BY <1>1, <1>2, <1>4, <1>5, ProcessTyped

LEMMA TimedOutKills ==
    ASSUME FoundryTypeInv, NEW t \in Turn, TimedOut(t)
    PROVE  /\ process' \in [CliProcess -> ProcessStates]
           /\ \A q \in CliProcess : /\ process'[q].status \in {"up", "dying"} <=> Alive(q)
                                    /\ process[q] # Unborn => process'[q].conversation =
                                                              process[q].conversation
  <1> DEFINE p == turn[t].of
             new == [process[p] EXCEPT !.status = "dying"]
  <1>1. p \in CliProcess /\ Alive(p) /\ process' = [process EXCEPT ![p].status = "dying"]
    BY WaitingFields DEF TimedOut, FoundryTypeInv, WaitsForLiving, IsWaiting
  <1> HIDE DEF p
  <1>2. process[p] \in Born /\ FoundryTypeOK
    BY <1>1, BornFields, AliveIsBorn DEF FoundryTypeInv
  <1>3. new \in Born /\ new.conversation = process[p].conversation /\ new.status = "dying"
    BY <1>2 DEF Born
  <1>4. process' = [process EXCEPT ![p] = new]
    BY <1>1, <1>2 DEF FoundryTypeOK, Born
  <1> HIDE DEF new
  <1> QED BY <1>1, <1>2, <1>3, <1>4, ProcessTyped DEF Alive

LEMMA CloseEnds ==
    ASSUME FoundryTypeOK, NEW p \in CliProcess, Close(p)
    PROVE  /\ process' \in [CliProcess -> ProcessStates]
           /\ process'[p].status = "closed"
           /\ \A q \in CliProcess : q # p => process'[q] = process[q]
  <1>1. process[p] # Unborn
    BY AliveIsBorn DEF Close, Alive
  <1>2. Closed(process[p]) \in Born /\ Closed(process[p]).status = "closed"
    BY <1>1, ClosedIsBorn
  <1>3. process' = [process EXCEPT ![p] = Closed(process[p])]
    <2>1. process' = [process EXCEPT ![p].status = "closed", ![p].owes = <<>>]
      BY DEF Close
    <2> QED BY <2>1 DEF Closed, FoundryTypeOK
  <1> QED BY <1>2, <1>3, ProcessTyped

(* The Foundry keeps its types, and a turn that waits does so for a        *)
(* process that may still answer it.                                       *)
THEOREM FoundryTypeCorrect == FoundrySpec => []FoundryTypeInv
  <1> USE FoundryAssumption
  <1>1. FoundryInit => FoundryTypeInv
    <2> SUFFICES ASSUME FoundryInit PROVE FoundryTypeInv
      OBVIOUS
    <2>1. process \in [CliProcess -> ProcessStates] /\ turn \in [Turn -> Turns] /\ WaitsForLiving
      BY DEF FoundryInit, ProcessStates, Turns, WaitsForLiving, IsWaiting, Unasked
    <2>2. forked \in BOOLEAN
      BY Zenon DEF FoundryInit
    <2> QED BY <2>1, <2>2 DEF FoundryInit, FoundryTypeInv, FoundryTypeOK
  <1>2. ASSUME FoundryTypeInv, [FoundryNext]_foundryVars
        PROVE  FoundryTypeInv'
    <2>0. FoundryTypeOK /\ turn \in [Turn -> Turns]
      BY <1>2 DEF FoundryTypeInv, FoundryTypeOK
    <2>1. ASSUME NEW t \in Turn, NEW p \in CliProcess, ChatTurn(t, p)
          PROVE  FoundryTypeInv'
      <3>1. forked' \in BOOLEAN
        BY <2>1, Zenon DEF ChatTurn
      <3>2. (cliSessionId = NoConversation) \in BOOLEAN
        OBVIOUS
      <3>3. /\ turn' \in [Turn -> Turns]
            /\ turn'[t].step = "waiting" /\ turn'[t].of = p
            /\ \A u \in Turn : u # t => turn'[u] = turn[u]
        BY <2>0, <2>1, <3>2 DEF ChatTurn, Turns
      <3>4. /\ process' \in [CliProcess -> ProcessStates]
            /\ process'[p].status \in {"up", "dying"}
            /\ \A q \in CliProcess : q # p => process'[q] = process[q]
        BY <2>0, <2>1, SendGives DEF ChatTurn
      <3>5. /\ registry' \in {0} \cup CliProcess
            /\ registry' # 0 => process'[registry'].status \in {"up", "dying"}
        BY <2>0, <2>1, <3>4, SendGives DEF ChatTurn, FoundryTypeOK
      <3>6. WaitsForLiving'
        <4> SUFFICES ASSUME NEW u \in Turn, IsWaiting(u)'
                     PROVE  process'[turn'[u].of].status \in {"up", "dying"}
          BY DEF WaitsForLiving, Alive
        <4>1. CASE u = t
          BY <3>3, <3>4, <4>1
        <4>2. CASE u # t
          <5>1. IsWaiting(u) /\ turn'[u] = turn[u]
            BY <3>3, <4>2 DEF IsWaiting
          <5>2. turn[u].of \in CliProcess /\ Alive(turn[u].of)
            BY <1>2, <2>0, <5>1, WaitingFields DEF FoundryTypeInv, WaitsForLiving
          <5> QED BY <3>4, <5>1, <5>2 DEF Alive
        <4> QED BY <4>1, <4>2
      <3> QED BY <2>0, <2>1, <3>1, <3>3, <3>4, <3>5, <3>6
              DEF ChatTurn, FoundryTypeInv, FoundryTypeOK
    <2>2. ASSUME NEW t \in Turn, TimedOut(t)
          PROVE  FoundryTypeInv'
      <3>1. turn' \in [Turn -> Turns] /\ (\A u \in Turn : turn'[u] \in {turn[u], TurnOver})
        BY <2>0, <2>2 DEF TimedOut, Turns
      <3>2. WaitsForLiving'
        BY <1>2, <2>0, <2>2, <3>1, TimedOutKills, WaitingFields
           DEF WaitsForLiving, IsWaiting, Alive, TurnOver, FoundryTypeInv
      <3>3. process' \in [CliProcess -> ProcessStates]
            /\ (registry' # 0 => process'[registry'].status \in {"up", "dying"})
        BY <1>2, <2>0, <2>2, TimedOutKills DEF TimedOut, FoundryTypeOK, Alive
      <3> QED BY <2>0, <2>2, <3>1, <3>2, <3>3 DEF TimedOut, FoundryTypeInv, FoundryTypeOK
    <2>3. ASSUME NEW p \in CliProcess, NEW heard \in SUBSET Waiting(p),
                 NEW failed \in SUBSET (Waiting(p) \ heard), Answer(p, heard, failed)
          PROVE  FoundryTypeInv'
      <3>1. turn' \in [Turn -> Turns] /\ (\A u \in Turn : turn'[u] \in {turn[u], TurnOver})
        BY <2>0, <2>3 DEF Answer, Turns
      <3>2. /\ process' \in [CliProcess -> ProcessStates]
            /\ \A q \in CliProcess : process'[q].status = process[q].status
            /\ process[p].conversation \in CliProcess
            /\ Head(process[p].owes) \in Turn
        BY <2>0, <2>3, AnswerTakes
      <3>3. WaitsForLiving'
        BY <1>2, <2>0, <3>1, <3>2, WaitingFields
           DEF WaitsForLiving, IsWaiting, Alive, TurnOver, FoundryTypeInv
      <3>4. answered' \subseteq [turn : Turn, conversation : CliProcess, question : Turn]
        BY <2>0, <2>3, <3>2 DEF Answer, Waiting, FoundryTypeOK
      <3>5. cliSessionId' \in {NoConversation} \cup CliProcess
        BY <2>0, <2>3, <3>2 DEF Answer, FoundryTypeOK
      <3>6. registry' = registry /\ provider' = provider /\ forked' = forked /\ stops' = stops
        BY <2>3 DEF Answer
      <3> QED BY <2>0, <3>1, <3>2, <3>3, <3>4, <3>5, <3>6 DEF FoundryTypeInv, FoundryTypeOK
    <2>4. ASSUME NEW p \in CliProcess, Close(p)
          PROVE  FoundryTypeInv'
      <3>1. /\ turn' \in [Turn -> Turns]
            /\ \A u \in Turn : turn'[u] = IF u \in Waiting(p) THEN TurnOver ELSE turn[u]
        BY <2>0, <2>4 DEF Close, Turns
      <3>2. WaitsForLiving'
        BY <1>2, <2>0, <2>4, <3>1, CloseEnds, WaitingFields
           DEF WaitsForLiving, IsWaiting, Waiting, Alive, TurnOver, FoundryTypeInv
      <3>3. /\ process' \in [CliProcess -> ProcessStates]
            /\ registry' \in {0} \cup CliProcess
            /\ registry' # 0 => process'[registry'].status \in {"up", "dying"}
        BY <2>0, <2>4, CloseEnds DEF Close, FoundryTypeOK
      <3> QED BY <2>0, <2>4, <3>1, <3>2, <3>3 DEF Close, FoundryTypeInv, FoundryTypeOK
    <2>5. CASE Stop
      <3>1. turn' \in [Turn -> Turns] /\ WaitsForLiving'
        BY <2>0, <2>5 DEF Stop, Turns, WaitsForLiving, IsWaiting, TurnOver
      <3>2. process' = [p \in CliProcess |-> IF process[p] = Unborn THEN Unborn
                                              ELSE Closed(process[p])]
        BY <2>5, Zenon DEF Stop, Closed
      <3>3. process' \in [CliProcess -> ProcessStates]
        BY <2>0, <3>2, ClosedIsBorn DEF ProcessStates, Born
      <3>4. /\ UNCHANGED <<provider, cliSessionId, answered, forked>>
            /\ registry' = 0 /\ stops' = stops + 1 /\ stops < MaxStops
        BY <2>5 DEF Stop
      <3> QED BY <2>0, <3>1, <3>3, <3>4 DEF FoundryTypeInv, FoundryTypeOK
    <2>6. CASE UNCHANGED foundryVars
      BY <1>2, <2>6
         DEF foundryVars, FoundryTypeInv, FoundryTypeOK, WaitsForLiving, IsWaiting, Alive
    <2> QED BY <1>2, <2>1, <2>2, <2>3, <2>4, <2>5, <2>6 DEF FoundryNext
  <1> QED BY <1>1, <1>2, PTL DEF FoundrySpec

(* Claude: one process at a time, the registered one.  Codex: none.        *)
OneProcess ==
    /\ provider = "anthropic" => \A p \in CliProcess : Alive(p) => p = registry
    /\ provider = "openai" => registry = 0

(* A turn that found a conversation: there is one.                         *)
LaterTurns == \A t \in Turn : IsWaiting(t) /\ ~turn[t].first => cliSessionId # NoConversation

(* What may still answer does so in the conversation of the row; and until *)
(* there is one, a single turn of Codex may begin it.                      *)
MayReply ==
    /\ \A m \in answered : m.conversation = cliSessionId
    /\ cliSessionId # NoConversation =>
          /\ \A t \in Turn : IsWaiting(t) => process[turn[t].of].conversation = cliSessionId
          /\ provider = "anthropic" =>
                \A p \in CliProcess : Alive(p) => process[p].conversation = cliSessionId
    /\ provider = "openai" /\ cliSessionId = NoConversation =>
          \A t, u \in Turn : IsWaiting(t) /\ IsWaiting(u) => t = u

ConversationInv ==
    /\ OneProcess
    /\ LaterTurns
    /\ provider = "anthropic" \/ ~forked => MayReply

(* Turns end and processes close or go on dying; nothing is answered.      *)
LEMMA OnlyEnds ==
    ASSUME ConversationInv, FoundryTypeInv,
           UNCHANGED <<provider, cliSessionId, answered, forked>>,
           \A t \in Turn : turn'[t] \in {turn[t], TurnOver},
           \A p \in CliProcess : Alive(p)' =>
              Alive(p) /\ process'[p].conversation = process[p].conversation,
           \A t \in Turn : IsWaiting(t)' => Alive(turn[t].of)',
           \A p \in CliProcess : Alive(p)' /\ p = registry => registry' = registry,
           registry = 0 => registry' = 0
    PROVE  ConversationInv'
  <1>1. \A t \in Turn : IsWaiting(t)' => IsWaiting(t) /\ turn'[t] = turn[t]
    BY DEF IsWaiting, TurnOver
  <1>2. \A t \in Turn : IsWaiting(t) => turn[t].of \in CliProcess
    BY WaitingFields DEF FoundryTypeInv
  <1>3. OneProcess'
    BY DEF ConversationInv, OneProcess
  <1>4. LaterTurns'
    BY <1>1 DEF ConversationInv, LaterTurns
  <1>5. MayReply => MayReply'
    BY <1>1, <1>2 DEF MayReply
  <1> QED BY <1>3, <1>4, <1>5 DEF ConversationInv

(* Every step of the Foundry keeps the invariant.                          *)
LEMMA ConversationStep ==
    ASSUME ConversationInv, FoundryTypeInv, FoundryTypeInv', [FoundryNext]_foundryVars
    PROVE  ConversationInv'
  <1> USE FoundryAssumption
  <1>0. /\ FoundryTypeOK /\ turn \in [Turn -> Turns] /\ provider \in {"anthropic", "openai"}
        /\ registry \in {0} \cup CliProcess
        /\ registry # 0 => Alive(registry)
        /\ NoConversation \notin CliProcess
        /\ \A t \in Turn : IsWaiting(t) => /\ turn[t].of \in CliProcess
                                          /\ turn[t].first \in BOOLEAN
                                          /\ Alive(turn[t].of)
    BY WaitingFields
       DEF FoundryTypeInv, FoundryTypeOK, WaitsForLiving, Alive, CliProcess, NoConversation
  <1>1. ASSUME NEW t \in Turn, NEW p \in CliProcess, ChatTurn(t, p)
        PROVE  ConversationInv'
    <2>1. /\ UNCHANGED <<provider, cliSessionId, answered>>
          /\ turn[t] = Unasked
          /\ forked' = (forked \/ (/\ cliSessionId = NoConversation
                                   /\ \E u \in Turn : turn[u].step = "waiting"))
      BY <1>1, Zenon DEF ChatTurn
    <2>2. /\ turn'[t].step = "waiting" /\ turn'[t].of = p
          /\ turn'[t].first <=> cliSessionId = NoConversation
          /\ \A u \in Turn : u # t => turn'[u] = turn[u]
      BY <1>0, <1>1 DEF ChatTurn
    <2>3. /\ process'[p].status \in {"up", "dying"}
          /\ \A q \in CliProcess : q # p => process'[q] = process[q]
          /\ process'[p].conversation =
                 IF registry # 0 THEN process[p].conversation
                 ELSE IF cliSessionId = NoConversation THEN p ELSE cliSessionId
          /\ registry # 0 => p = registry /\ registry' = registry
          /\ registry = 0 => /\ process[p] = Unborn
                             /\ registry' = IF provider = "anthropic" THEN p ELSE 0
      BY <1>0, <1>1, SendGives DEF ChatTurn
    <2>4. OneProcess'
      BY <1>0, <2>1, <2>3 DEF ConversationInv, OneProcess, Alive, NoConversation
    <2>5. LaterTurns'
      BY <2>1, <2>2 DEF ConversationInv, LaterTurns, IsWaiting
    <2>6. ASSUME provider = "anthropic" \/ ~forked'
          PROVE  MayReply'
      <3>1. MayReply
        BY <2>1, <2>6 DEF ConversationInv
      <3>2. cliSessionId # NoConversation => process'[p].conversation = cliSessionId
        BY <1>0, <2>3, <3>1 DEF MayReply, ConversationInv, OneProcess
      <3>3. \A u \in Turn : u # t /\ IsWaiting(u)' => IsWaiting(u) /\ turn'[u] = turn[u]
        BY <2>2 DEF IsWaiting
      <3>4. \A m \in answered' : m.conversation = cliSessionId'
        BY <2>1, <3>1 DEF MayReply
      <3>5. ASSUME cliSessionId' # NoConversation, NEW u \in Turn, IsWaiting(u)'
            PROVE  process'[turn'[u].of].conversation = cliSessionId'
        <4>1. CASE u = t
          BY <2>1, <2>2, <3>2, <3>5, <4>1
        <4>2. CASE u # t
          <5>1. process[turn[u].of].conversation = cliSessionId /\ turn[u].of \in CliProcess
            BY <1>0, <2>1, <3>1, <3>3, <3>5, <4>2 DEF MayReply
          <5> QED BY <2>1, <2>3, <3>2, <3>3, <3>5, <4>2, <5>1
        <4> QED BY <4>1, <4>2
      <3>6. ASSUME cliSessionId' # NoConversation, provider' = "anthropic", NEW q \in CliProcess,
                   Alive(q)'
            PROVE  process'[q].conversation = cliSessionId'
        BY <2>1, <2>3, <3>1, <3>2, <3>6 DEF MayReply, Alive
      <3>7. ASSUME provider' = "openai", cliSessionId' = NoConversation,
                   NEW u \in Turn, NEW v \in Turn, IsWaiting(u)', IsWaiting(v)'
            PROVE  u = v
        BY <2>1, <2>6, <3>3, <3>7 DEF IsWaiting
      <3> QED BY <3>4, <3>5, <3>6, <3>7 DEF MayReply
    <2> QED BY <2>1, <2>4, <2>5, <2>6 DEF ConversationInv
  <1>2. ASSUME NEW t \in Turn, TimedOut(t)
        PROVE  ConversationInv'
    <2>1. /\ UNCHANGED <<provider, cliSessionId, answered, forked, registry>>
          /\ \A u \in Turn : turn'[u] \in {turn[u], TurnOver}
      BY <1>0, <1>2 DEF TimedOut
    <2>2. \A q \in CliProcess : /\ Alive(q)' <=> Alive(q)
                                /\ Alive(q) => process'[q].conversation = process[q].conversation
      BY <1>2, TimedOutKills, AliveIsBorn, <1>0 DEF Alive
    <2>3. \A u \in Turn : IsWaiting(u)' => Alive(turn[u].of)'
      BY <1>0, <2>1, <2>2 DEF IsWaiting, TurnOver
    <2> QED BY <2>1, <2>2, <2>3, OnlyEnds
  <1>3. ASSUME NEW p \in CliProcess, NEW heard \in SUBSET Waiting(p),
               NEW failed \in SUBSET (Waiting(p) \ heard), Answer(p, heard, failed)
        PROVE  ConversationInv'
    <2> DEFINE here == process[p].conversation
    <2>1. /\ UNCHANGED <<provider, registry, forked>>
          /\ cliSessionId' = IF \E t \in heard : turn[t].first THEN here ELSE cliSessionId
          /\ \A m \in answered' : m \in answered \/ (m.conversation = here /\ heard # {})
          /\ \A u \in Turn : turn'[u] = IF u \in heard \cup failed THEN TurnOver ELSE turn[u]
      BY <1>3 DEF Answer
    <2>2. /\ \A q \in CliProcess : /\ Alive(q)' <=> Alive(q)
                                   /\ Alive(q) => process'[q].conversation = process[q].conversation
          /\ here \in CliProcess /\ Alive(p)
      BY <1>0, <1>3, AnswerTakes, AliveIsBorn DEF Alive
    <2>3. \A t \in heard : t \in Turn /\ IsWaiting(t) /\ turn[t].of = p
      BY DEF Waiting, IsWaiting
    <2>4. \A u \in Turn : IsWaiting(u)' => IsWaiting(u) /\ turn'[u] = turn[u] /\ u \notin heard
      BY <2>1 DEF IsWaiting, TurnOver
    <2> HIDE DEF here
    <2>5. OneProcess'
      BY <2>1, <2>2 DEF ConversationInv, OneProcess
    <2>6. LaterTurns'
      BY <1>0, <2>1, <2>2, <2>4 DEF ConversationInv, LaterTurns
    <2>7. ASSUME provider = "anthropic" \/ ~forked
          PROVE  MayReply'
      <3>1. MayReply
        BY <2>7 DEF ConversationInv
      <3>2. CASE cliSessionId # NoConversation
        <4>1. heard # {} => here = cliSessionId
          BY <2>3, <3>1, <3>2 DEF MayReply, here
        <4>2. cliSessionId' = cliSessionId
          BY <2>1, <4>1
        <4>3. \A m \in answered' : m.conversation = cliSessionId'
          BY <2>1, <3>1, <4>1, <4>2 DEF MayReply
        <4> QED BY <1>0, <2>1, <2>2, <2>4, <3>1, <3>2, <4>2, <4>3 DEF MayReply
      <3>3. CASE cliSessionId = NoConversation /\ heard = {}
        <4>1. cliSessionId' = cliSessionId
          BY <2>1, <3>3
        <4> QED BY <2>1, <2>4, <3>1, <3>3, <4>1 DEF MayReply
      <3>4. CASE cliSessionId = NoConversation /\ heard # {}
        <4>1. PICK t \in heard : turn[t].first
          BY <1>0, <2>3, <3>4 DEF ConversationInv, LaterTurns
        <4>2. cliSessionId' = here
          BY <2>1, <4>1
        <4>3. \A m \in answered : FALSE
          BY <1>0, <3>1, <3>4 DEF MayReply, FoundryTypeOK
        <4>4. \A m \in answered' : m.conversation = cliSessionId'
          BY <2>1, <4>2, <4>3
        <4>5. CASE provider = "anthropic"
          <5>1. \A q \in CliProcess : Alive(q)' => process'[q].conversation = here
            BY <2>2, <4>5 DEF ConversationInv, OneProcess, here
          <5>2. \A u \in Turn : IsWaiting(u)' => process'[turn'[u].of].conversation = here
            BY <1>0, <2>2, <2>4, <5>1
          <5> QED BY <2>1, <4>2, <4>4, <4>5, <5>1, <5>2 DEF MayReply
        <4>6. CASE provider = "openai"
          <5>1. \A u \in Turn : ~IsWaiting(u)'
            BY <2>3, <2>4, <3>1, <3>4, <4>1, <4>6 DEF MayReply
          <5> QED BY <2>1, <4>4, <4>6, <5>1 DEF MayReply
        <4> QED BY <1>0, <4>5, <4>6
      <3> QED BY <3>2, <3>3, <3>4
    <2> QED BY <2>1, <2>5, <2>6, <2>7 DEF ConversationInv
  <1>4. ASSUME NEW p \in CliProcess, Close(p)
        PROVE  ConversationInv'
    <2>1. /\ UNCHANGED <<provider, cliSessionId, answered, forked>>
          /\ registry' = IF registry = p THEN 0 ELSE registry
          /\ \A u \in Turn : turn'[u] = IF u \in Waiting(p) THEN TurnOver ELSE turn[u]
      BY <1>4 DEF Close
    <2>2. /\ \A q \in CliProcess : q # p => process'[q] = process[q]
          /\ process'[p].status = "closed"
      BY <1>0, <1>4, CloseEnds
    <2>3. \A u \in Turn : IsWaiting(u)' => Alive(turn[u].of)'
      BY <1>0, <2>1, <2>2 DEF IsWaiting, Waiting, TurnOver, Alive
    <2>4. \A u \in Turn : turn'[u] \in {turn[u], TurnOver}
      BY <2>1
    <2>5. \A q \in CliProcess : Alive(q)' =>
             Alive(q) /\ process'[q].conversation = process[q].conversation /\ q # p
      BY <2>2 DEF Alive
    <2> QED BY <2>1, <2>3, <2>4, <2>5, OnlyEnds
  <1>5. CASE Stop
    <2>1. /\ UNCHANGED <<provider, cliSessionId, answered, forked>>
          /\ registry' = 0
          /\ \A u \in Turn : turn'[u] = IF turn[u].step = "waiting" THEN TurnOver ELSE turn[u]
      BY <1>5 DEF Stop
    <2>2. \A q \in CliProcess : ~Alive(q)'
      <3>1. process' = [q \in CliProcess |-> IF process[q] = Unborn THEN Unborn
                                             ELSE Closed(process[q])]
        BY <1>5, Zenon DEF Stop, Closed
      <3> QED BY <1>0, <3>1, ClosedIsBorn DEF Alive, Unborn
    <2>3. \A u \in Turn : ~IsWaiting(u)'
      BY <2>1 DEF IsWaiting, TurnOver
    <2>4. \A u \in Turn : turn'[u] \in {turn[u], TurnOver}
      BY <2>1
    <2> QED BY <2>1, <2>2, <2>3, <2>4, OnlyEnds
  <1>6. CASE UNCHANGED foundryVars
    BY <1>6 DEF foundryVars, ConversationInv, OneProcess, LaterTurns, MayReply, IsWaiting, Alive
  <1> QED BY <1>1, <1>2, <1>3, <1>4, <1>5, <1>6 DEF FoundryNext

(* OneConversation: all answers of a session come from the conversation    *)
(* that its row names.                                                     *)
THEOREM OneConversationPerSession == FoundrySpec => []OneConversation
  <1>1. FoundryInit => ConversationInv
    BY DEF FoundryInit, ConversationInv, OneProcess, LaterTurns, MayReply, IsWaiting, Alive,
           Unborn, Unasked
  <1>2. ConversationInv /\ FoundryTypeInv /\ FoundryTypeInv' /\ [FoundryNext]_foundryVars
          => ConversationInv'
    BY ConversationStep
  <1>3. ConversationInv => OneConversation
    BY DEF ConversationInv, MayReply, OneConversation
  <1> QED BY <1>1, <1>2, <1>3, FoundryTypeCorrect, PTL DEF FoundrySpec

-----------------------------------------------------------------------------
(***************************************************************************)
(* The launch of a team: what the processes of its members run.            *)
(***************************************************************************)

(* A call that launches has a member left, the one it is at.               *)
Launching(toolCall) == toolCall.step \in {"next", "preflight", "prompt"}

HasMember == \A c \in ToolCall : Launching(teamCall[c]) => teamCall[c].todo # <<>>

TeamTypeInv == TeamTypeOK /\ HasMember

LaunchCalls == [step : {"next", "preflight", "prompt"}, of : Configs, todo : Seq(Member)]

LEMMA LaunchCallIs ==
    ASSUME NEW toolCall \in LaunchCalls, NEW step \in {"next", "preflight", "prompt"},
           NEW todo \in Seq(Member)
    PROVE  /\ [toolCall EXCEPT !.step = step] =
                  [step |-> step, of |-> toolCall.of, todo |-> toolCall.todo]
           /\ [toolCall EXCEPT !.step = step, !.todo = todo] =
                  [step |-> step, of |-> toolCall.of, todo |-> todo]
  <1> DEFINE here == [toolCall EXCEPT !.step = step]
             next == [toolCall EXCEPT !.step = step, !.todo = todo]
  <1>1. here \in LaunchCalls /\ next \in LaunchCalls
    BY DEF LaunchCalls
  <1>2. here.step = step /\ here.of = toolCall.of /\ here.todo = toolCall.todo
    BY DEF LaunchCalls
  <1>3. next.step = step /\ next.of = toolCall.of /\ next.todo = todo
    BY DEF LaunchCalls
  <1>4. ASSUME NEW other \in LaunchCalls
        PROVE  other = [step |-> other.step, of |-> other.of, todo |-> other.todo]
    BY DEF LaunchCalls
  <1> HIDE DEF here, next
  <1>5. /\ here = [step |-> step, of |-> toolCall.of, todo |-> toolCall.todo]
        /\ next = [step |-> step, of |-> toolCall.of, todo |-> todo]
    BY <1>1, <1>2, <1>3, <1>4
  <1> QED BY <1>5 DEF here, next

LEMMA LaunchingFields ==
    ASSUME TeamTypeInv, NEW c \in ToolCall, Launching(teamCall[c])
    PROVE  /\ teamCall[c] \in LaunchCalls
           /\ teamCall[c].of \in Configs
           /\ teamCall[c].todo \in Seq(Member) /\ teamCall[c].todo # <<>>
           /\ Head(teamCall[c].todo) \in Member
           /\ teamCall[c].of[Head(teamCall[c].todo)] \in Provider
  <1>1. teamCall[c] \in TeamCalls /\ teamCall[c].todo # <<>>
    BY DEF TeamTypeInv, TeamTypeOK, HasMember
  <1>2. teamCall[c] \in LaunchCalls
    BY <1>1 DEF TeamCalls, LaunchCalls, Launching, Unused, Ended
  <1>3. teamCall[c].of \in Configs /\ teamCall[c].todo \in Seq(Member)
    BY <1>2 DEF LaunchCalls
  <1>4. Head(teamCall[c].todo) \in Member
    BY <1>1, <1>3
  <1> QED BY <1>1, <1>2, <1>3, <1>4 DEF Configs

(* What a call is after a step that goes on with its launch.               *)
GoesOn(toolCall) ==
    /\ toolCall \in TeamCalls
    /\ Launching(toolCall) => toolCall.todo # <<>>

LEMMA ReadingGoesOn ==
    ASSUME TeamTypeInv, NEW snapshot \in Configs \cup {None}
    PROVE  GoesOn(Reading(snapshot))
  BY TeamAssumption DEF GoesOn, Reading, TeamCalls, Launching, Ended

LEMMA RestIs ==
    ASSUME TeamTypeInv, NEW c \in ToolCall, Launching(teamCall[c])
    PROVE  \/ Rest(c) = Ended
           \/ /\ Rest(c) = [step |-> "next", of |-> teamCall[c].of, todo |-> Tail(teamCall[c].todo)]
              /\ Tail(teamCall[c].todo) # <<>>
  <1> DEFINE rest == Tail(teamCall[c].todo)
  <1>1. rest \in Seq(Member) /\ teamCall[c] \in LaunchCalls
    BY LaunchingFields
  <1>2. [teamCall[c] EXCEPT !.step = "next", !.todo = rest] =
            [step |-> "next", of |-> teamCall[c].of, todo |-> rest]
    BY <1>1, LaunchCallIs
  <1>3. Rest(c) = IF rest = <<>> THEN Ended
                  ELSE [teamCall[c] EXCEPT !.step = "next", !.todo = rest]
    BY <1>1 DEF Rest, LaunchCalls
  <1> HIDE DEF rest
  <1>4. \/ Rest(c) = Ended
        \/ Rest(c) = [step |-> "next", of |-> teamCall[c].of, todo |-> rest] /\ rest # <<>>
    BY <1>2, <1>3
  <1> QED BY <1>4 DEF rest

LEMMA RestGoesOn ==
    ASSUME TeamTypeInv, NEW c \in ToolCall, Launching(teamCall[c])
    PROVE  GoesOn(Rest(c))
  <1>1. Tail(teamCall[c].todo) \in Seq(Member) /\ teamCall[c].of \in Configs
    BY LaunchingFields
  <1>2. CASE Rest(c) = Ended
    BY <1>2 DEF GoesOn, TeamCalls, Launching, Ended
  <1>3. CASE Rest(c) # Ended
    <2>1. PICK rest \in Seq(Member) :
             rest # <<>> /\ Rest(c) = [step |-> "next", of |-> teamCall[c].of, todo |-> rest]
      BY <1>1, <1>3, RestIs
    <2> QED BY <1>1, <2>1 DEF GoesOn, TeamCalls, Launching
  <1> QED BY <1>2, <1>3

LEMMA AtStepGoesOn ==
    ASSUME TeamTypeInv, NEW c \in ToolCall, Launching(teamCall[c]),
           NEW step \in {"preflight", "prompt"}
    PROVE  /\ [teamCall[c] EXCEPT !.step = step] =
                  [step |-> step, of |-> teamCall[c].of, todo |-> teamCall[c].todo]
           /\ GoesOn([teamCall[c] EXCEPT !.step = step])
  <1>1. [teamCall[c] EXCEPT !.step = step] =
            [step |-> step, of |-> teamCall[c].of, todo |-> teamCall[c].todo]
    BY LaunchingFields, LaunchCallIs
  <1> QED BY <1>1, LaunchingFields DEF GoesOn, TeamCalls, Launching

LEMMA CallsTyped ==
    ASSUME TeamTypeInv, NEW c \in ToolCall, NEW toolCall, GoesOn(toolCall),
           teamCall' = [teamCall EXCEPT ![c] = toolCall]
    PROVE  teamCall' \in [ToolCall -> TeamCalls] /\ HasMember'
  <1>1. teamCall \in [ToolCall -> TeamCalls] /\ HasMember
    BY DEF TeamTypeInv, TeamTypeOK
  <1>2. toolCall \in TeamCalls /\ (Launching(toolCall) => toolCall.todo # <<>>)
    BY DEF GoesOn
  <1>3. teamCall'[c] = toolCall /\ \A d \in ToolCall : d # c => teamCall'[d] = teamCall[d]
    BY <1>1
  <1>4. teamCall' \in [ToolCall -> TeamCalls]
    BY <1>1, <1>2
  <1>5. ASSUME NEW d \in ToolCall, Launching(teamCall'[d])
        PROVE  teamCall'[d].todo # <<>>
    BY <1>1, <1>2, <1>3, <1>5 DEF HasMember
  <1> QED BY <1>4, <1>5 DEF HasMember

(* The launch of a team keeps its types, and a call that launches has a    *)
(* member to launch.                                                       *)
THEOREM TeamTypeCorrect == TeamSpec => []TeamTypeInv
  <1> USE TeamAssumption
  <1>1. TeamInit => TeamTypeInv
    <2> SUFFICES ASSUME TeamInit PROVE TeamTypeInv
      OBVIOUS
    <2>1. up \in [Member -> Provider \cup {None}]
      BY DEF TeamInit
    <2>2. teamCall \in [ToolCall -> TeamCalls] /\ HasMember
      BY DEF TeamInit, TeamCalls, HasMember, Launching, Unused
    <2>3. /\ mcp \in [Dir \X PerTurn -> Member \cup {None}]
          /\ instructions \in [Dir \X {"AGENTS.md", "GEMINI.md"} -> Member \cup {None}]
      BY DEF TeamInit
    <2>4. config \in Configs /\ cwd \in [Member -> Dir] /\ acted = {} /\ excused = {}
          /\ edits \in 0..MaxEdits /\ teamRestarts \in 0..MaxTeamRestarts
      BY DEF TeamInit
    <2> QED BY <2>1, <2>2, <2>3, <2>4 DEF TeamTypeInv, TeamTypeOK
  <1>2. ASSUME TeamTypeInv, [TeamNext]_teamVars
        PROVE  TeamTypeInv'
    <2>1. ASSUME NEW c \in ToolCall, TeamLaunchCall(c)
          PROVE  TeamTypeInv'
      <3>1. GoesOn(Reading(config))
        BY <1>2, ReadingGoesOn DEF TeamTypeInv, TeamTypeOK
      <3> QED BY <1>2, <2>1, <3>1, CallsTyped DEF TeamLaunchCall, TeamTypeInv, TeamTypeOK
    <2>2. ASSUME NEW c \in ToolCall, NextMember(c)
          PROVE  TeamTypeInv'
      <3>1. Launching(teamCall[c])
        BY <2>2 DEF NextMember, Launching
      <3>2. PICK toolCall : GoesOn(toolCall) /\ teamCall' = [teamCall EXCEPT ![c] = toolCall]
        BY <1>2, <2>2, <3>1, RestGoesOn, AtStepGoesOn DEF NextMember
      <3> QED BY <1>2, <2>2, <3>2, CallsTyped DEF NextMember, TeamTypeInv, TeamTypeOK
    <2>3. ASSUME NEW c \in ToolCall, SpawnMember(c)
          PROVE  TeamTypeInv'
      <3> DEFINE m == Head(teamCall[c].todo)
                 p == teamCall[c].of[m]
                 d == cwd[m]
      <3>1. Launching(teamCall[c])
        BY <2>3 DEF SpawnMember, Launching
      <3>2. PICK toolCall : GoesOn(toolCall) /\ teamCall' = [teamCall EXCEPT ![c] = toolCall]
        BY <1>2, <2>3, <3>1, RestGoesOn, AtStepGoesOn DEF SpawnMember
      <3>3. m \in Member /\ p \in Provider
        BY <1>2, <3>1, LaunchingFields
      <3>4. d \in Dir /\ FileOf(p) \in {"AGENTS.md", "GEMINI.md"}
        BY <1>2, <3>3 DEF TeamTypeInv, TeamTypeOK, FileOf
      <3>5. /\ mcp' = IF p \in PerTurn THEN [mcp EXCEPT ![<<d, p>>] = m] ELSE mcp
            /\ instructions' = IF p \in PerTurn THEN [instructions EXCEPT ![<<d, FileOf(p)>>] = m]
                               ELSE instructions
            /\ up' = [up EXCEPT ![m] = IF @ = None THEN p ELSE @]
            /\ UNCHANGED <<config, cwd, acted, excused, edits, teamRestarts>>
        BY <2>3 DEF SpawnMember
      <3> HIDE DEF m, p, d
      <3>6. mcp' \in [Dir \X PerTurn -> Member \cup {None}]
        BY <1>2, <3>3, <3>4, <3>5 DEF TeamTypeInv, TeamTypeOK
      <3>7. instructions' \in [Dir \X {"AGENTS.md", "GEMINI.md"} -> Member \cup {None}]
        BY <1>2, <3>3, <3>4, <3>5 DEF TeamTypeInv, TeamTypeOK
      <3>8. up' \in [Member -> Provider \cup {None}]
        BY <1>2, <3>3, <3>5 DEF TeamTypeInv, TeamTypeOK
      <3> QED BY <1>2, <3>2, <3>5, <3>6, <3>7, <3>8, CallsTyped DEF TeamTypeInv, TeamTypeOK
    <2>4. ASSUME NEW c \in ToolCall, PreflightFailed(c)
          PROVE  TeamTypeInv'
      <3>1. Launching(teamCall[c])
        BY <2>4 DEF PreflightFailed, Launching
      <3>2. GoesOn(Rest(c))
        BY <1>2, <3>1, RestGoesOn
      <3> QED BY <1>2, <2>4, <3>2, CallsTyped DEF PreflightFailed, TeamTypeInv, TeamTypeOK
    <2>5. ASSUME NEW c \in ToolCall, NEW accepted \in BOOLEAN, Prompted(c, accepted)
          PROVE  TeamTypeInv'
      <3>1. Launching(teamCall[c])
        BY <2>5 DEF Prompted, Launching
      <3>2. GoesOn(Rest(c))
        BY <1>2, <3>1, RestGoesOn
      <3>3. up' \in [Member -> Provider \cup {None}]
        BY <1>2, <2>5 DEF Prompted, TeamTypeInv, TeamTypeOK
      <3> QED BY <1>2, <2>5, <3>2, <3>3, CallsTyped DEF Prompted, TeamTypeInv, TeamTypeOK
    <2>6. ASSUME NEW c \in ToolCall, NEW stopped \in BOOLEAN, Stopped(c, stopped)
          PROVE  TeamTypeInv'
      <3>1. GoesOn(Reading(config))
        BY <1>2, ReadingGoesOn DEF TeamTypeInv, TeamTypeOK
      <3>2. teamCall[c].member \in Member
        BY <1>2, <2>6 DEF Stopped, TeamTypeInv, TeamTypeOK, TeamCalls, Unused, Ended
      <3>3. up' \in [Member -> Provider \cup {None}] /\ excused' \subseteq Member
        BY <1>2, <2>6, <3>2 DEF Stopped, TeamTypeInv, TeamTypeOK
      <3> QED BY <1>2, <2>6, <3>1, <3>3, CallsTyped DEF Stopped, TeamTypeInv, TeamTypeOK
    <2>7. ASSUME NEW c \in ToolCall, NEW m \in Member, NEW p \in Provider, Swap(c, m, p)
          PROVE  TeamTypeInv'
      <3>1. config' \in Configs /\ excused' \subseteq Member
        BY <1>2, <2>7 DEF Swap, TeamTypeInv, TeamTypeOK, Configs
      <3>2. GoesOn(Reading(config'))
        BY <1>2, <3>1, ReadingGoesOn
      <3>3. GoesOn([step |-> "stopping", member |-> m])
        BY DEF GoesOn, TeamCalls, Launching
      <3>4. PICK toolCall : GoesOn(toolCall) /\ teamCall' = [teamCall EXCEPT ![c] = toolCall]
        BY <2>7, <3>2, <3>3 DEF Swap
      <3> QED BY <1>2, <2>7, <3>1, <3>4, CallsTyped DEF Swap, TeamTypeInv, TeamTypeOK
    <2>8. ASSUME NEW new \in Configs, TeamCreate(new)
          PROVE  TeamTypeInv'
      BY <1>2, <2>8 DEF TeamCreate, TeamTypeInv, TeamTypeOK, HasMember
    <2>9. CASE TeamDelete
      BY <1>2, <2>9 DEF TeamDelete, TeamTypeInv, TeamTypeOK, HasMember
    <2>10. ASSUME NEW m \in Member, TakeTurn(m)
           PROVE  TeamTypeInv'
      <3>1. /\ mcp[<<cwd[m], up[m]>>] \in Member \cup {None}
            /\ instructions[<<cwd[m], FileOf(up[m])>>] \in Member \cup {None}
        BY <1>2, <2>10 DEF TakeTurn, TeamTypeInv, TeamTypeOK, FileOf
      <3>2. acted' \subseteq [member : Member, as : Member \cup {None}, told : Member \cup {None}]
        BY <1>2, <2>10, <3>1 DEF TakeTurn, TeamTypeInv, TeamTypeOK
      <3> QED BY <1>2, <2>10, <3>2 DEF TakeTurn, TeamTypeInv, TeamTypeOK, HasMember
    <2>11. ASSUME NEW m \in Member, Down(m)
           PROVE  TeamTypeInv'
      BY <1>2, <2>11 DEF Down, TeamTypeInv, TeamTypeOK, HasMember
    <2>12. CASE TeamRestart
      <3>1. /\ teamCall' \in [ToolCall -> TeamCalls] /\ HasMember'
            /\ up' \in [Member -> Provider \cup {None}]
        BY <1>2, <2>12 DEF TeamRestart, TeamCalls, HasMember, Launching, Unused, Ended
      <3> QED BY <1>2, <2>12, <3>1 DEF TeamRestart, TeamTypeInv, TeamTypeOK
    <2>13. CASE UNCHANGED teamVars
      BY <1>2, <2>13 DEF teamVars, TeamTypeInv, TeamTypeOK, HasMember
    <2> QED BY <1>2, <2>1, <2>2, <2>3, <2>4, <2>5, <2>6, <2>7, <2>8, <2>9, <2>10, <2>11, <2>12,
               <2>13 DEF TeamNext
  <1> QED BY <1>1, <1>2, PTL DEF TeamSpec

(* A call that goes on keeps its snapshot and has less to launch.          *)
LEMMA RestNotStale ==
    ASSUME TeamTypeInv, NEW c \in ToolCall, Launching(teamCall[c]),
           teamCall' = [teamCall EXCEPT ![c] = Rest(c)],
           NEW d \in ToolCall, NEW m \in Member, NEW p, Stale(d, m, p)'
    PROVE  Stale(d, m, p)
  <1>1. teamCall \in [ToolCall -> TeamCalls]
    BY DEF TeamTypeInv, TeamTypeOK
  <1>2. CASE d # c
    BY <1>1, <1>2 DEF Stale
  <1>3. CASE d = c
    <2> DEFINE todo == teamCall[c].todo
    <2>1. teamCall'[c] = Rest(c) /\ Rest(c) # Ended
      BY <1>1, <1>3 DEF Stale, Ended
    <2>2. Rest(c) = [step |-> "next", of |-> teamCall[c].of, todo |-> Tail(todo)]
      BY <2>1, RestIs
    <2>3. todo \in Seq(Member) /\ todo # <<>>
      BY LaunchingFields
    <2>4. PICK i \in 1..Len(Tail(todo)) : Tail(todo)[i] = m
      BY <1>3, <2>1, <2>2 DEF Stale
    <2>5. i + 1 \in 1..Len(todo) /\ todo[i + 1] = m /\ i + 1 # 1
      BY <2>3, <2>4
    <2>6. teamCall[c].of[m] # p
      BY <1>3, <2>1, <2>2 DEF Stale
    <2> QED BY <1>3, <2>5, <2>6 DEF Stale, Launching
  <1> QED BY <1>2, <1>3

LEMMA AtStepNotStale ==
    ASSUME TeamTypeInv, NEW c \in ToolCall, NEW step \in {"preflight", "prompt"},
           teamCall[c].step \in {"next", "preflight"},
           teamCall' = [teamCall EXCEPT ![c] = [@ EXCEPT !.step = step]],
           NEW d \in ToolCall, NEW m \in Member, NEW p, Stale(d, m, p)'
    PROVE  Stale(d, m, p)
  <1>1. teamCall \in [ToolCall -> TeamCalls]
    BY DEF TeamTypeInv, TeamTypeOK
  <1>2. CASE d # c
    BY <1>1, <1>2 DEF Stale
  <1>3. CASE d = c
    <2>1. teamCall'[c] = [step |-> step, of |-> teamCall[c].of, todo |-> teamCall[c].todo]
      BY <1>1, AtStepGoesOn DEF Launching
    <2>2. PICK i \in 1..Len(teamCall[c].todo) : teamCall[c].todo[i] = m
      BY <1>3, <2>1 DEF Stale
    <2>3. teamCall[c].of[m] # p
      BY <1>3, <2>1 DEF Stale
    <2> QED BY <1>3, <2>2, <2>3 DEF Stale
  <1> QED BY <1>2, <1>3

(* A call that reads the configuration now launches what is configured.    *)
LEMMA ReadingNotStale ==
    ASSUME TeamTypeInv, NEW c \in ToolCall, NEW new \in Configs,
           teamCall' = [teamCall EXCEPT ![c] = Reading(new)],
           NEW d \in ToolCall, NEW m \in Member, Stale(d, m, new[m])'
    PROVE  Stale(d, m, new[m])
  <1>1. teamCall \in [ToolCall -> TeamCalls]
    BY DEF TeamTypeInv, TeamTypeOK
  <1>2. d # c
    BY <1>1 DEF Stale, Reading, Ended
  <1> QED BY <1>1, <1>2 DEF Stale

Stopping(m) == \E c \in ToolCall : teamCall[c].step = "stopping" /\ teamCall[c].member = m

(* What runs is what is configured, and what a launch has still to start   *)
(* will be.                                                                *)
FitsConfig(m) ==
    /\ up[m] \in {None, config[m]} \/ m \in excused \/ Stopping(m)
    /\ \A d \in ToolCall : Stale(d, m, config[m]) => m \in excused

ProviderInv == config # None => \A m \in Member : FitsConfig(m)

LEMMA StoppingStays ==
    ASSUME TeamTypeInv, NEW c \in ToolCall, teamCall[c].step # "stopping",
           NEW toolCall, teamCall' = [teamCall EXCEPT ![c] = toolCall],
           NEW m \in Member, Stopping(m)
    PROVE  Stopping(m)'
  BY DEF Stopping, TeamTypeInv, TeamTypeOK

(* A call goes on with its launch, and starts nothing.                     *)
LEMMA OnlyCallMoves ==
    ASSUME TeamTypeInv, ProviderInv, NEW c \in ToolCall, teamCall[c].step # "stopping",
           NEW toolCall, teamCall' = [teamCall EXCEPT ![c] = toolCall],
           config' = config, excused' = excused,
           \A m \in Member : up'[m] \in {up[m], None, config[m]} \/ m \in excused,
           config # None => \A d \in ToolCall, m \in Member :
                               Stale(d, m, config[m])' => Stale(d, m, config[m])
    PROVE  ProviderInv'
  <1> SUFFICES ASSUME config # None, NEW m \in Member PROVE FitsConfig(m)'
    BY DEF ProviderInv
  <1>1. FitsConfig(m)
    BY DEF ProviderInv
  <1>2. \A d \in ToolCall : Stale(d, m, config[m])' => m \in excused'
    BY <1>1 DEF FitsConfig
  <1>3. Stopping(m) => Stopping(m)'
    BY StoppingStays
  <1>4. up'[m] \in {None, config'[m]} \/ m \in excused' \/ Stopping(m)'
    BY <1>1, <1>3 DEF FitsConfig
  <1> QED BY <1>2, <1>4 DEF FitsConfig, Stale

(* Every step of a launch, swap or restart keeps the invariant.            *)
LEMMA ProviderStep ==
    ASSUME ProviderInv, TeamTypeInv, TeamTypeInv', [TeamNext]_teamVars
    PROVE  ProviderInv'
  <1>0. /\ teamCall \in [ToolCall -> TeamCalls]
        /\ up \in [Member -> Provider \cup {None}]
        /\ config # None => config \in Configs
    BY DEF TeamTypeInv, TeamTypeOK
  <1>1. ASSUME NEW c \in ToolCall, TeamLaunchCall(c)
        PROVE  ProviderInv'
    <2>1. /\ teamCall[c].step # "stopping" /\ teamCall' = [teamCall EXCEPT ![c] = Reading(config)]
          /\ config' = config /\ excused' = excused /\ up' = up
      BY <1>1 DEF TeamLaunchCall, Unused
    <2>2. config # None => \A d \in ToolCall, m \in Member :
                             Stale(d, m, config[m])' => Stale(d, m, config[m])
      <3>1. SUFFICES ASSUME config # None, NEW d \in ToolCall, NEW m \in Member,
                            Stale(d, m, config[m])'
                     PROVE  Stale(d, m, config[m])
        OBVIOUS
      <3>2. PICK new \in Configs : new = config
        BY <1>0, <3>1
      <3>3. Stale(d, m, new[m])'
        BY <2>1, <3>1, <3>2 DEF Stale
      <3> QED BY <2>1, <3>2, <3>3, ReadingNotStale
    <2>3. PICK toolCall : teamCall' = [teamCall EXCEPT ![c] = toolCall]
      BY <2>1
    <2> QED BY <2>1, <2>2, <2>3, OnlyCallMoves
  <1>2. ASSUME NEW c \in ToolCall, NextMember(c)
        PROVE  ProviderInv'
    <2>1. Launching(teamCall[c]) /\ teamCall[c].step = "next"
      BY <1>2 DEF NextMember, Launching
    <2>2. CASE teamCall' = [teamCall EXCEPT ![c] = Rest(c)]
      <3>1. \A d \in ToolCall, m \in Member, p \in Provider : Stale(d, m, p)' => Stale(d, m, p)
        BY <2>1, <2>2, RestNotStale
      <3> QED BY <1>0, <1>2, <2>1, <2>2, <3>1, OnlyCallMoves DEF NextMember, Configs
    <2>3. CASE teamCall' = [teamCall EXCEPT ![c] = [@ EXCEPT !.step = "preflight"]]
      <3>1. \A d \in ToolCall, m \in Member, p \in Provider : Stale(d, m, p)' => Stale(d, m, p)
        BY <2>1, <2>3, AtStepNotStale
      <3>2. PICK toolCall : teamCall' = [teamCall EXCEPT ![c] = toolCall]
        BY <2>3
      <3> QED BY <1>0, <1>2, <2>1, <3>1, <3>2, OnlyCallMoves DEF NextMember, Configs
    <2> QED BY <1>2, <2>2, <2>3 DEF NextMember
  <1>3. ASSUME NEW c \in ToolCall, SpawnMember(c)
        PROVE  ProviderInv'
    <2> DEFINE m == Head(teamCall[c].todo)
               p == teamCall[c].of[m]
    <2>1. Launching(teamCall[c]) /\ teamCall[c].step = "preflight"
      BY <1>3 DEF SpawnMember, Launching
    <2>2. m \in Member /\ p \in Provider
      BY <2>1, LaunchingFields
    <2>3. config # None /\ p # config[m] => Stale(c, m, config[m])
      <3>1. Len(teamCall[c].todo) >= 1 /\ teamCall[c].todo[1] = m
        BY <2>1, LaunchingFields
      <3> QED BY <2>1, <3>1 DEF Stale
    <2>4. up' = [up EXCEPT ![m] = IF @ = None THEN p ELSE @]
      BY <1>3 DEF SpawnMember
    <2>5. ASSUME config # None, NEW n \in Member
          PROVE  up'[n] \in {up[n], None, config[n]} \/ n \in excused
      <3>1. Stale(c, m, config[m]) => m \in excused
        BY <2>2, <2>5 DEF ProviderInv, FitsConfig
      <3> HIDE DEF m, p
      <3> QED BY <1>0, <2>2, <2>3, <2>4, <2>5, <3>1
    <2>6. PICK toolCall : teamCall' = [teamCall EXCEPT ![c] = toolCall]
      BY <1>3 DEF SpawnMember
    <2>7. \A d \in ToolCall, n \in Member, q \in Provider : Stale(d, n, q)' => Stale(d, n, q)
      <3>1. CASE teamCall' = [teamCall EXCEPT ![c] = Rest(c)]
        BY <2>1, <3>1, RestNotStale
      <3>2. CASE teamCall' = [teamCall EXCEPT ![c] = [@ EXCEPT !.step = "prompt"]]
        BY <2>1, <3>2, AtStepNotStale
      <3> QED BY <1>3, <3>1, <3>2 DEF SpawnMember
    <2>8. config' = config /\ excused' = excused
      BY <1>3 DEF SpawnMember
    <2>9. CASE config = None
      BY <2>8, <2>9 DEF ProviderInv
    <2>10. CASE config # None
      <3>1. \A d \in ToolCall, n \in Member :
              Stale(d, n, config[n])' => Stale(d, n, config[n])
        BY <1>0, <2>7, <2>8, <2>10 DEF Configs, Stale
      <3> QED BY <2>1, <2>5, <2>6, <2>8, <2>10, <3>1, OnlyCallMoves
    <2> QED BY <2>9, <2>10
  <1>4. ASSUME NEW c \in ToolCall, PreflightFailed(c)
        PROVE  ProviderInv'
    <2>1. Launching(teamCall[c]) /\ teamCall[c].step = "preflight"
      BY <1>4 DEF PreflightFailed, Launching
    <2>2. \A d \in ToolCall, m \in Member, p \in Provider : Stale(d, m, p)' => Stale(d, m, p)
      BY <1>4, <2>1, RestNotStale DEF PreflightFailed
    <2> QED BY <1>0, <1>4, <2>1, <2>2, OnlyCallMoves DEF PreflightFailed, Configs
  <1>5. ASSUME NEW c \in ToolCall, NEW accepted \in BOOLEAN, Prompted(c, accepted)
        PROVE  ProviderInv'
    <2>1. Launching(teamCall[c]) /\ teamCall[c].step = "prompt"
      BY <1>5 DEF Prompted, Launching
    <2>2. \A d \in ToolCall, m \in Member, p \in Provider : Stale(d, m, p)' => Stale(d, m, p)
      BY <1>5, <2>1, RestNotStale DEF Prompted
    <2>3. \A m \in Member : up'[m] \in {up[m], None}
      BY <1>0, <1>5 DEF Prompted
    <2> QED BY <1>0, <1>5, <2>1, <2>2, <2>3, OnlyCallMoves DEF Prompted, Configs
  <1>6. ASSUME NEW c \in ToolCall, NEW stopped \in BOOLEAN, Stopped(c, stopped)
        PROVE  ProviderInv'
    <2> SUFFICES ASSUME config # None, NEW m \in Member PROVE FitsConfig(m)'
      BY <1>6 DEF Stopped, ProviderInv
    <2>1. FitsConfig(m)
      BY DEF ProviderInv
    <2>2. \A d \in ToolCall : Stale(d, m, config[m])' => m \in excused'
      <3>1. \A d \in ToolCall : Stale(d, m, config[m])' => Stale(d, m, config[m])
        BY <1>0, <1>6, ReadingNotStale DEF Stopped
      <3> QED BY <1>6, <2>1, <3>1 DEF Stopped, FitsConfig
    <2>3. CASE m = teamCall[c].member
      <3>1. up'[m] = None \/ m \in excused'
        BY <1>0, <1>6, <2>3 DEF Stopped
      <3> QED BY <1>6, <2>2, <3>1 DEF Stopped, FitsConfig, Stale
    <2>4. CASE m # teamCall[c].member
      <3>1. Stopping(m) => Stopping(m)'
        BY <1>0, <1>6, <2>4 DEF Stopped, Stopping
      <3>2. up'[m] = up[m] /\ config' = config /\ excused \subseteq excused'
        BY <1>0, <1>6, <2>4 DEF Stopped
      <3> QED BY <2>1, <2>2, <3>1, <3>2 DEF FitsConfig, Stale
    <2> QED BY <2>3, <2>4
  <1>7. ASSUME NEW c \in ToolCall, NEW m \in Member, NEW p \in Provider, Swap(c, m, p)
        PROVE  ProviderInv'
    <2> SUFFICES ASSUME NEW n \in Member PROVE FitsConfig(n)'
      BY DEF ProviderInv
    <2>1. /\ config # None /\ config' = [config EXCEPT ![m] = p] /\ config' \in Configs
          /\ config'[n] = IF n = m THEN p ELSE config[n]
          /\ up' = up /\ teamCall[c] = Unused
      BY <1>0, <1>7 DEF Swap, Configs
    <2>2. FitsConfig(n)
      BY <2>1 DEF ProviderInv
    <2>3. PICK new \in Configs : new = config'
      BY <2>1
    <2>4. ASSUME NEW d \in ToolCall, Stale(d, n, new[n])'
          PROVE  Stale(d, n, new[n])
      <3>1. CASE teamCall' = [teamCall EXCEPT ![c] = [step |-> "stopping", member |-> m]]
        BY <1>0, <2>4, <3>1 DEF Stale
      <3>2. CASE teamCall' = [teamCall EXCEPT ![c] = Reading(new)]
        BY <2>4, <3>2, ReadingNotStale
      <3> QED BY <1>7, <2>3, <3>1, <3>2 DEF Swap
    <2>5. ASSUME NEW d \in ToolCall, Stale(d, n, new[n])
          PROVE  n \in excused'
      <3>1. CASE n = m
        BY <1>7, <2>1, <2>3, <2>5, <3>1 DEF Swap
      <3>2. CASE n # m
        BY <1>7, <2>1, <2>2, <2>3, <2>5, <3>2 DEF Swap, FitsConfig
      <3> QED BY <3>1, <3>2
    <2>6. up'[n] \in {None, new[n]} \/ n \in excused' \/ Stopping(n)'
      <3>1. Stopping(n) => Stopping(n)'
        BY <1>0, <1>7, <2>1 DEF Swap, Stopping, Unused
      <3>2. n = m /\ up[n] # None => Stopping(n)'
        BY <1>0, <1>7 DEF Swap, Stopping
      <3>3. excused \subseteq excused'
        BY <1>7 DEF Swap
      <3> QED BY <2>1, <2>2, <2>3, <3>1, <3>2, <3>3 DEF FitsConfig
    <2> QED BY <2>3, <2>4, <2>5, <2>6 DEF FitsConfig, Stale
  <1>8. ASSUME NEW new \in Configs, TeamCreate(new)
        PROVE  ProviderInv'
    BY <1>0, <1>8 DEF TeamCreate, ProviderInv, FitsConfig, Stale
  <1>9. CASE TeamDelete
    BY <1>9 DEF TeamDelete, ProviderInv
  <1>10. ASSUME NEW m \in Member, TakeTurn(m)
         PROVE  ProviderInv'
    BY <1>10 DEF TakeTurn, ProviderInv, FitsConfig, Stale, Stopping
  <1>11. ASSUME NEW m \in Member, Down(m)
         PROVE  ProviderInv'
    BY <1>0, <1>11 DEF Down, ProviderInv, FitsConfig, Stale, Stopping
  <1>12. CASE TeamRestart
    BY <1>0, <1>12 DEF TeamRestart, ProviderInv, FitsConfig, Stale, Unused, Ended
  <1>13. CASE UNCHANGED teamVars
    BY <1>13 DEF teamVars, ProviderInv, FitsConfig, Stale, Stopping
  <1> QED BY <1>1, <1>2, <1>3, <1>4, <1>5, <1>6, <1>7, <1>8, <1>9, <1>10, <1>11, <1>12, <1>13
          DEF TeamNext

(* RunsItsProvider: a running member runs what its team is configured      *)
(* with, however swaps, launches and restarts meet.                        *)
THEOREM ProviderOfTheConfig == TeamSpec => []RunsItsProvider
  <1>1. TeamInit /\ TeamTypeInv => ProviderInv
    BY DEF TeamInit, TeamTypeInv, TeamTypeOK, ProviderInv, FitsConfig, Stale, Unused
  <1>2. ProviderInv /\ TeamTypeInv /\ TeamTypeInv' /\ [TeamNext]_teamVars => ProviderInv'
    BY ProviderStep
  <1>3. ProviderInv => RunsItsProvider
    BY DEF ProviderInv, FitsConfig, Stopping, RunsItsProvider
  <1> QED BY <1>1, <1>2, <1>3, TeamTypeCorrect, PTL DEF TeamSpec

-----------------------------------------------------------------------------
(***************************************************************************)
(* Span summaries, for a stream of any length.  What the fold over the     *)
(* rows returns is shown by least counterexample: of the prefixes for      *)
(* which it would not hold there is a shortest one, which is not empty,    *)
(* and the fold of the prefix before it contradicts it.                    *)
(***************************************************************************)

LEMMA LeastNatural ==
    ASSUME NEW T \in SUBSET Nat, T # {}
    PROVE  \E n \in T : \A m \in T : n <= m
  <1> DEFINE R == OpToRel(<, Nat)
  <1>1. IsWellFoundedOn(R, Nat)
    BY NatLessThanWellFounded, Zenon
  <1>2. \A x, y \in Nat : <<y, x>> \in R <=> y < x
    BY DEF OpToRel
  <1> HIDE DEF R
  <1>3. PICK x \in T : \A y \in T : ~(<<y, x>> \in R)
    BY <1>1, WFMin
  <1>4. \A y \in T : ~(y < x)
    BY <1>2, <1>3
  <1> QED BY <1>4

(* The fold of detectSpans over the first n rows of rs.                    *)
Folds(rs, f, n) == f = [i \in 0..n |-> IF i = 0 THEN NoSpans ELSE TakeRow(rs, f[i - 1], i)]

LEMMA FoldExists ==
    ASSUME NEW rs, NEW n \in Nat
    PROVE  \E f : Folds(rs, f, n)
  <1> DEFINE T == {m \in Nat : ~\E f : Folds(rs, f, m)}
  <1> SUFFICES ASSUME T # {} PROVE FALSE
    OBVIOUS
  <1>1. PICK m \in T : \A k \in T : m <= k
    BY LeastNatural
  <1>2. CASE m = 0
    <2>1. Folds(rs, [i \in 0..0 |-> NoSpans], 0)
      BY DEF Folds
    <2> QED BY <1>2, <2>1
  <1>3. CASE m # 0
    <2>1. m - 1 \in Nat /\ m - 1 \notin T
      BY <1>1, <1>3
    <2>2. PICK f : Folds(rs, f, m - 1)
      BY <2>1
    <2> DEFINE g == [i \in 0..m |-> IF i = m THEN TakeRow(rs, f[m - 1], m) ELSE f[i]]
    <2>3. ASSUME NEW i \in 0..m
          PROVE  g[i] = IF i = 0 THEN NoSpans ELSE TakeRow(rs, g[i - 1], i)
      <3>1. CASE i = 0
        BY <1>3, <2>2, <3>1 DEF Folds
      <3>2. CASE i # 0
        <4>1. i - 1 \in 0..m - 1 /\ g[i - 1] = f[i - 1]
          BY <3>2
        <4>2. CASE i = m
          BY <3>2, <4>1, <4>2
        <4>3. CASE i # m
          <5>1. i \in 0..m - 1
            BY <4>3
          <5>2. f[i] = TakeRow(rs, f[i - 1], i)
            BY <2>2, <3>2, <5>1 DEF Folds
          <5> QED BY <3>2, <4>1, <4>3, <5>2
        <4> QED BY <4>2, <4>3
      <3> QED BY <3>1, <3>2
    <2>4. g = [i \in 0..m |-> IF i = 0 THEN NoSpans ELSE TakeRow(rs, g[i - 1], i)]
      BY <2>3
    <2> HIDE DEF g
    <2>5. Folds(rs, g, m)
      BY <2>4, Zenon DEF Folds
    <2> QED BY <2>5
  <1> QED BY <1>2, <1>3

LEMMA DetectFolds ==
    ASSUME NEW rs, Len(rs) \in Nat
    PROVE  \E f : Folds(rs, f, Len(rs)) /\ DetectSpans(rs) = f[Len(rs)]
  <1>1. \E f : f = [i \in 0..Len(rs) |-> IF i = 0 THEN NoSpans ELSE TakeRow(rs, f[i - 1], i)]
    BY FoldExists DEF Folds
  <1> DEFINE folds == CHOOSE f : f = [n \in 0..Len(rs) |->
                          IF n = 0 THEN NoSpans ELSE TakeRow(rs, f[n - 1], n)]
  <1>2. Folds(rs, folds, Len(rs))
    BY <1>1, Zenon DEF Folds
  <1>3. DetectSpans(rs) = folds[Len(rs)]
    BY Zenon DEF DetectSpans
  <1> QED BY <1>2, <1>3

-----------------------------------------------------------------------------
Spans(n) == Seq(1..n) \ {<<>>}

Acc(n) == [closed : Seq(Spans(n)), open : Seq(1..n), tokens : Nat]

LEMMA SubsetSeq ==
    ASSUME NEW S, NEW T, S \subseteq T
    PROVE  Seq(S) \subseteq Seq(T)
  OBVIOUS

LEMMA AppendedHolds ==
    ASSUME NEW S, NEW s \in Seq(S), NEW x \in S
    PROVE  ToSet(s) \subseteq ToSet(Append(s, x))
  <1>1. \A i \in 1..Len(s) : i \in DOMAIN Append(s, x) /\ Append(s, x)[i] = s[i]
    OBVIOUS
  <1> QED BY <1>1 DEF ToSet

LEMMA AccGrows ==
    ASSUME NEW n \in Nat, NEW acc \in Acc(n)
    PROVE  acc \in Acc(n + 1)
  <1>1. 1..n \subseteq 1..n + 1
    OBVIOUS
  <1>2. Seq(1..n) \subseteq Seq(1..n + 1)
    BY <1>1, SubsetSeq
  <1>3. Spans(n) \subseteq Spans(n + 1)
    BY <1>2 DEF Spans
  <1>4. Seq(Spans(n)) \subseteq Seq(Spans(n + 1))
    BY <1>3, SubsetSeq
  <1> QED BY <1>2, <1>4 DEF Acc

LEMMA FinalizeTyped ==
    ASSUME NEW n \in Nat, NEW acc \in Acc(n)
    PROVE  Finalize(acc) \in Acc(n) /\ ToSet(acc.closed) \subseteq ToSet(Finalize(acc).closed)
  <1>1. CASE acc.open = <<>>
    BY <1>1 DEF Finalize
  <1>2. CASE acc.open # <<>>
    <2>1. acc.closed \in Seq(Spans(n)) /\ acc.open \in Spans(n)
      BY <1>2 DEF Acc, Spans
    <2>2. PICK closed \in Seq(Spans(n)) : closed = Append(acc.closed, acc.open)
      <3>1. Append(acc.closed, acc.open) \in Seq(Spans(n))
        BY <2>1
      <3> QED BY <3>1, Zenon
    <2>3. Finalize(acc) = [closed |-> closed, open |-> <<>>, tokens |-> 0]
      BY <1>2, <2>2 DEF Finalize, NoSpans
    <2>4. <<>> \in Seq(1..n)
      OBVIOUS
    <2>5. Finalize(acc) \in Acc(n)
      BY <2>3, <2>4 DEF Acc
    <2>6. ToSet(acc.closed) \subseteq ToSet(closed)
      BY <2>1, <2>2, AppendedHolds
    <2> QED BY <2>3, <2>5, <2>6
  <1> QED BY <1>1, <1>2

LEMMA ExtendedTyped ==
    ASSUME NEW rs, NEW n \in Nat \ {0}, rs[n].tokens \in Nat, NEW acc \in Acc(n)
    PROVE  /\ Extended(rs, acc, n) \in Acc(n)
           /\ ToSet(acc.closed) \subseteq ToSet(Extended(rs, acc, n).closed)
  <1>1. /\ acc.open \in Seq(1..n) /\ acc.tokens \in Nat
        /\ Append(acc.open, n) \in Seq(1..n) /\ acc.tokens + rs[n].tokens \in Nat
    BY DEF Acc
  <1>2. PICK open \in Seq(1..n) : open = Append(acc.open, n)
    BY <1>1, Zenon
  <1>3. PICK tokens \in Nat : tokens = acc.tokens + rs[n].tokens
    BY <1>1
  <1> DEFINE grown == [acc EXCEPT !.open = open, !.tokens = tokens]
  <1>4. grown \in Acc(n) /\ grown.closed = acc.closed
    BY DEF Acc
  <1>5. [acc EXCEPT !.open = Append(@, n), !.tokens = @ + rs[n].tokens] = grown
    BY <1>2, <1>3 DEF Acc
  <1>6. Extended(rs, acc, n) \in {grown, Finalize(grown)}
    <2> HIDE DEF grown
    <2> QED BY <1>5, Zenon DEF Extended
  <1> HIDE DEF grown
  <1>7. Finalize(grown) \in Acc(n) /\ ToSet(grown.closed) \subseteq ToSet(Finalize(grown).closed)
    BY <1>4, FinalizeTyped
  <1>8. CASE Extended(rs, acc, n) = grown
    BY <1>4, <1>8
  <1>9. CASE Extended(rs, acc, n) = Finalize(grown)
    BY <1>4, <1>7, <1>9
  <1> QED BY <1>6, <1>8, <1>9

LEMMA RowFields ==
    ASSUME NEW rs \in Seq(Row), NEW i \in 1..Len(rs), rs[i].activity
    PROVE  rs[i].tokens \in Nat
  <1>1. PICK r \in Row : r = rs[i]
    OBVIOUS
  <1>2. CASE r \in [activity : {FALSE}]
    BY <1>1, <1>2
  <1>3. CASE r \in [source : Source, activity : {TRUE}, gap : BOOLEAN, tokens : Tokens]
    BY <1>1, <1>3, SpanAssumption
  <1> QED BY <1>2, <1>3 DEF Row

LEMMA TakeRowTyped ==
    ASSUME NEW rs \in Seq(Row), NEW i \in 1..Len(rs), NEW acc \in Acc(i - 1)
    PROVE  /\ TakeRow(rs, acc, i) \in Acc(i)
           /\ ToSet(acc.closed) \subseteq ToSet(TakeRow(rs, acc, i).closed)
  <1>1. i \in Nat \ {0} /\ acc \in Acc(i)
    <2>1. i - 1 \in Nat /\ (i - 1) + 1 = i
      OBVIOUS
    <2> QED BY <2>1, AccGrows
  <1>2. Finalize(acc) \in Acc(i) /\ ToSet(acc.closed) \subseteq ToSet(Finalize(acc).closed)
    BY <1>1, FinalizeTyped
  <1>3. CASE ~rs[i].activity
    BY <1>2, <1>3 DEF TakeRow
  <1>4. CASE rs[i].activity
    <2>1. rs[i].tokens \in Nat
      BY <1>4, RowFields
    <2>2. PICK from \in Acc(i) :
             /\ from = IF BreaksOff(rs, acc, i) THEN Finalize(acc) ELSE acc
             /\ ToSet(acc.closed) \subseteq ToSet(from.closed)
      BY <1>1, <1>2
    <2>3. TakeRow(rs, acc, i) = Extended(rs, from, i)
      BY <1>4, <2>2 DEF TakeRow
    <2>4. /\ Extended(rs, from, i) \in Acc(i)
          /\ ToSet(from.closed) \subseteq ToSet(Extended(rs, from, i).closed)
      BY <1>1, <2>1, ExtendedTyped
    <2> QED BY <2>2, <2>3, <2>4
  <1> QED BY <1>3, <1>4

(* What a row makes of the spans depends on it and the rows before it.     *)
LEMMA TakeRowLooksBack ==
    ASSUME NEW rs, NEW more, NEW i \in Nat \ {0}, NEW acc \in Acc(i - 1),
           \A j \in 1..i : rs[j] = more[j]
    PROVE  TakeRow(rs, acc, i) = TakeRow(more, acc, i)
  <1>1. rs[i] = more[i]
    OBVIOUS
  <1>2. acc.open # <<>> => rs[Last(acc.open)] = more[Last(acc.open)]
    <2> SUFFICES ASSUME acc.open # <<>> PROVE Last(acc.open) \in 1..i
      OBVIOUS
    <2>1. acc.open \in Seq(1..i - 1) /\ Len(acc.open) \in 1..Len(acc.open)
      BY DEF Acc
    <2> QED BY <2>1 DEF Last
  <1>3. BreaksOff(rs, acc, i) = BreaksOff(more, acc, i)
    BY <1>1, <1>2 DEF BreaksOff
  <1>4. \A a : Extended(rs, a, i) = Extended(more, a, i)
    BY <1>1, Zenon DEF Extended
  <1> QED BY <1>1, <1>3, <1>4 DEF TakeRow

LEMMA FoldTyped ==
    ASSUME NEW rs \in Seq(Row), NEW f, Folds(rs, f, Len(rs)), NEW n \in 0..Len(rs)
    PROVE  f[n] \in Acc(n)
  <1> DEFINE T == {m \in 0..Len(rs) : f[m] \notin Acc(m)}
  <1> SUFFICES ASSUME T # {} PROVE FALSE
    OBVIOUS
  <1>0. T \in SUBSET Nat
    OBVIOUS
  <1>1. PICK m \in T : \A k \in T : m <= k
    <2> HIDE DEF T
    <2> QED BY <1>0, LeastNatural
  <1>2. CASE m = 0
    <2>1. NoSpans \in Acc(0)
      BY DEF NoSpans, Acc
    <2> QED BY <1>2, <2>1 DEF Folds
  <1>3. CASE m # 0
    <2>1. m \in 1..Len(rs) /\ f[m - 1] \in Acc(m - 1)
      BY <1>1, <1>3
    <2>2. f[m] = TakeRow(rs, f[m - 1], m)
      BY <2>1 DEF Folds
    <2> QED BY <2>1, <2>2, TakeRowTyped
  <1> QED BY <1>2, <1>3

LEMMA FoldsAgree ==
    ASSUME NEW rs \in Seq(Row), NEW r \in Row, NEW f, NEW g,
           Folds(rs, f, Len(rs)), Folds(Append(rs, r), g, Len(rs) + 1)
    PROVE  g[Len(rs)] = f[Len(rs)]
  <1> DEFINE T == {m \in 0..Len(rs) : g[m] # f[m]}
  <1> SUFFICES ASSUME T # {} PROVE FALSE
    OBVIOUS
  <1>0. T \in SUBSET Nat
    OBVIOUS
  <1>1. PICK m \in T : \A k \in T : m <= k
    <2> HIDE DEF T
    <2> QED BY <1>0, LeastNatural
  <1>2. CASE m = 0
    BY <1>2 DEF Folds
  <1>3. CASE m # 0
    <2>1. m \in 1..Len(rs) /\ f[m - 1] \in Acc(m - 1) /\ g[m - 1] = f[m - 1]
      BY <1>1, <1>3, FoldTyped
    <2>2. f[m] = TakeRow(rs, f[m - 1], m) /\ g[m] = TakeRow(Append(rs, r), g[m - 1], m)
      BY <2>1 DEF Folds
    <2>3. PICK more : more = Append(rs, r)
      OBVIOUS
    <2>4. \A j \in 1..m : rs[j] = more[j]
      BY <2>1, <2>3
    <2>5. m \in Nat \ {0}
      BY <2>1
    <2>6. TakeRow(rs, f[m - 1], m) = TakeRow(more, f[m - 1], m)
      BY <2>1, <2>4, <2>5, TakeRowLooksBack
    <2> QED BY <2>1, <2>2, <2>3, <2>6
  <1> QED BY <1>2, <1>3

LEMMA ClosedTyped ==
    ASSUME NEW rs \in Seq(Row)
    PROVE  ClosedSpans(rs) \in Seq(Spans(Len(rs)))
  <1>1. PICK f : Folds(rs, f, Len(rs)) /\ DetectSpans(rs) = f[Len(rs)]
    BY DetectFolds
  <1> QED BY <1>1, FoldTyped DEF ClosedSpans, Acc

(* A closed span does not change: more rows only add to the closed spans.  *)
LEMMA ClosedGrows ==
    ASSUME NEW rs \in Seq(Row), NEW r \in Row
    PROVE  ToSet(ClosedSpans(rs)) \subseteq ToSet(ClosedSpans(Append(rs, r)))
  <1> DEFINE more == Append(rs, r)
             n    == Len(rs)
  <1>1. more \in Seq(Row) /\ Len(more) = n + 1 /\ n \in Nat /\ n + 1 \in 1..Len(more)
    OBVIOUS
  <1>2. PICK f : Folds(rs, f, n) /\ DetectSpans(rs) = f[n]
    BY DetectFolds
  <1>3. PICK g : Folds(more, g, n + 1) /\ DetectSpans(more) = g[n + 1]
    <2> HIDE DEF more, n
    <2>1. \E g : Folds(more, g, Len(more)) /\ DetectSpans(more) = g[Len(more)]
      BY <1>1, DetectFolds
    <2> QED BY <1>1, <2>1
  <1>4. g[n] = f[n] /\ f[n] \in Acc(n)
    BY <1>1, <1>2, <1>3, FoldsAgree, FoldTyped
  <1>5. g[n + 1] = TakeRow(more, g[n], n + 1)
    BY <1>1, <1>3 DEF Folds
  <1>6. ToSet(f[n].closed) \subseteq ToSet(TakeRow(more, f[n], n + 1).closed)
    <2>1. f[n] \in Acc((n + 1) - 1)
      BY <1>1, <1>4
    <2> HIDE DEF more, n
    <2> QED BY <1>1, <2>1, TakeRowTyped
  <1> QED BY <1>2, <1>3, <1>4, <1>5, <1>6 DEF ClosedSpans

-----------------------------------------------------------------------------
(* Awaiting's walk over the first n of the closed spans.                   *)
KeepSpan(closed, before, i) ==
    IF summary[Head(closed[i])] = NoSummary /\ Len(before) < MaxPerRun
    THEN Append(before, closed[i]) ELSE before

Keeps(closed, f, n) ==
    f = [i \in 0..n |-> IF i = 0 THEN <<>> ELSE KeepSpan(closed, f[i - 1], i)]

LEMMA KeepsExists ==
    ASSUME NEW closed, NEW n \in Nat
    PROVE  \E f : Keeps(closed, f, n)
  <1> DEFINE T == {m \in Nat : ~\E f : Keeps(closed, f, m)}
  <1> SUFFICES ASSUME T # {} PROVE FALSE
    OBVIOUS
  <1>1. PICK m \in T : \A k \in T : m <= k
    BY LeastNatural
  <1>2. CASE m = 0
    <2>1. Keeps(closed, [i \in 0..0 |-> <<>>], 0)
      BY DEF Keeps
    <2> QED BY <1>2, <2>1
  <1>3. CASE m # 0
    <2>1. m - 1 \in Nat /\ m - 1 \notin T
      BY <1>1, <1>3
    <2>2. PICK f : Keeps(closed, f, m - 1)
      BY <2>1
    <2> DEFINE g == [i \in 0..m |-> IF i = m THEN KeepSpan(closed, f[m - 1], m) ELSE f[i]]
    <2>3. ASSUME NEW i \in 0..m
          PROVE  g[i] = IF i = 0 THEN <<>> ELSE KeepSpan(closed, g[i - 1], i)
      <3>1. CASE i = 0
        BY <1>3, <2>2, <3>1 DEF Keeps
      <3>2. CASE i # 0
        <4>1. i - 1 \in 0..m - 1 /\ g[i - 1] = f[i - 1]
          BY <3>2
        <4>2. CASE i = m
          BY <3>2, <4>1, <4>2
        <4>3. CASE i # m
          <5>1. i \in 0..m - 1
            BY <4>3
          <5>2. f[i] = KeepSpan(closed, f[i - 1], i)
            BY <2>2, <3>2, <5>1 DEF Keeps
          <5> QED BY <3>2, <4>1, <4>3, <5>2
        <4> QED BY <4>2, <4>3
      <3> QED BY <3>1, <3>2
    <2>4. g = [i \in 0..m |-> IF i = 0 THEN <<>> ELSE KeepSpan(closed, g[i - 1], i)]
      BY <2>3
    <2> HIDE DEF g
    <2>5. Keeps(closed, g, m)
      BY <2>4, Zenon DEF Keeps
    <2> QED BY <2>5
  <1> QED BY <1>2, <1>3

LEMMA KeepsClosed ==
    ASSUME NEW C, NEW closed \in Seq(C), NEW f, Keeps(closed, f, Len(closed)),
           NEW n \in 0..Len(closed)
    PROVE  f[n] \in Seq(C)
  <1> DEFINE T == {m \in 0..Len(closed) : f[m] \notin Seq(C)}
  <1> SUFFICES ASSUME T # {} PROVE FALSE
    OBVIOUS
  <1>0. T \in SUBSET Nat
    OBVIOUS
  <1>1. PICK m \in T : \A k \in T : m <= k
    <2> HIDE DEF T
    <2> QED BY <1>0, LeastNatural
  <1>2. CASE m = 0
    BY <1>2 DEF Keeps
  <1>3. CASE m # 0
    <2>1. m \in 1..Len(closed) /\ f[m - 1] \in Seq(C)
      BY <1>1, <1>3
    <2>2. f[m] = KeepSpan(closed, f[m - 1], m)
      BY <2>1 DEF Keeps
    <2>3. Append(f[m - 1], closed[m]) \in Seq(C)
      BY <2>1
    <2> QED BY <2>1, <2>2, <2>3 DEF KeepSpan
  <1> QED BY <1>2, <1>3

(* What a run takes on are closed spans.                                   *)
LEMMA AwaitingAreClosed ==
    ASSUME rows \in Seq(Row), Len(rows) <= Length
    PROVE  Awaiting[ClosedSpans(rows)] \in Seq(ToSet(ClosedSpans(rows)))
  <1> DEFINE closed == ClosedSpans(rows)
             C == ToSet(closed)
  <1>1. closed \in Seq(C) /\ Len(closed) \in Nat
    BY ClosedTyped DEF ToSet
  <1>2. closed \in Seq(Seq(1..Length))
    <2>1. 1..Len(rows) \subseteq 1..Length
      BY SpanAssumption
    <2>2. Spans(Len(rows)) \subseteq Seq(1..Length)
      BY <2>1, SubsetSeq DEF Spans
    <2>3. Seq(Spans(Len(rows))) \subseteq Seq(Seq(1..Length))
      BY <2>2, SubsetSeq
    <2> QED BY <2>3, ClosedTyped
  <1> HIDE DEF closed, C
  <1> DEFINE kept == CHOOSE f : f = [n \in 0..Len(closed) |->
                 IF n = 0 THEN <<>>
                 ELSE IF summary[Head(closed[n])] = NoSummary /\ Len(f[n - 1]) < MaxPerRun
                      THEN Append(f[n - 1], closed[n])
                 ELSE f[n - 1]]
  <1>3. Awaiting[closed] = kept[Len(closed)]
    BY <1>2, Zenon DEF Awaiting
  <1>4. \E f : f = [n \in 0..Len(closed) |->
                 IF n = 0 THEN <<>>
                 ELSE IF summary[Head(closed[n])] = NoSummary /\ Len(f[n - 1]) < MaxPerRun
                      THEN Append(f[n - 1], closed[n])
                 ELSE f[n - 1]]
    <2>1. \E f : Keeps(closed, f, Len(closed))
      BY <1>1, KeepsExists
    <2> QED BY <2>1, Zenon DEF Keeps, KeepSpan
  <1>5. Keeps(closed, kept, Len(closed))
    BY <1>4, Zenon DEF Keeps, KeepSpan
  <1>6. kept[Len(closed)] \in Seq(C)
    <2> HIDE DEF kept
    <2> QED BY <1>1, <1>5, KeepsClosed
  <1> QED BY <1>3, <1>6 DEF C, closed

-----------------------------------------------------------------------------
(* What is summarized or taken on is a closed span, whole.                 *)
SpanInv ==
    /\ rows \in Seq(Row) /\ Len(rows) <= Length
    /\ DOMAIN summary = 1..Length
    /\ summary = [i \in 1..Length |-> summary[i]]
    /\ \A i \in 1..Length : summary[i] \in {NoSummary} \cup ToSet(ClosedSpans(rows))
    /\ queue \in Seq(ToSet(ClosedSpans(rows)))
    /\ asking => inFlight /\ queue # <<>>

LEMMA SpanInitInv == Init => SpanInv
  <1> SUFFICES ASSUME Init PROVE SpanInv
    OBVIOUS
  <1>1. rows = <<>> /\ queue = <<>> /\ ~asking /\ summary = [i \in 1..Length |-> NoSummary]
    BY DEF Init
  <1>2. rows \in Seq(Row) /\ Len(rows) <= Length /\ queue \in Seq(ToSet(ClosedSpans(rows)))
    BY <1>1, SpanAssumption
  <1> QED BY <1>1, <1>2 DEF SpanInv

LEMMA SpanNextInv == SpanInv /\ [Next]_vars => SpanInv'
  <1> SUFFICES ASSUME SpanInv, [Next]_vars PROVE SpanInv'
    OBVIOUS
  <1> DEFINE C == ToSet(ClosedSpans(rows))
  <1>0. /\ rows \in Seq(Row) /\ Len(rows) <= Length
        /\ DOMAIN summary = 1..Length /\ summary = [i \in 1..Length |-> summary[i]]
        /\ \A i \in 1..Length : summary[i] \in {NoSummary} \cup C
        /\ queue \in Seq(C)
        /\ asking => inFlight /\ queue # <<>>
    BY DEF SpanInv
  <1>1. ASSUME NEW r \in Row, AppendNarration(r) PROVE SpanInv'
    <2>1. rows' = Append(rows, r) /\ Len(rows) < Length
      BY <1>1 DEF AppendNarration
    <2>2. rows' \in Seq(Row) /\ Len(rows') <= Length
      BY <1>0, <2>1, SpanAssumption
    <2>3. C \subseteq ToSet(ClosedSpans(rows'))
      BY <1>0, <2>1, ClosedGrows
    <2> HIDE DEF C
    <2>4. Seq(C) \subseteq Seq(ToSet(ClosedSpans(rows')))
      BY <2>3, SubsetSeq
    <2>5. summary' = summary /\ queue' = queue /\ asking' = asking /\ inFlight' = inFlight
      BY <1>1 DEF AppendNarration
    <2>6. \A i \in 1..Length : summary'[i] \in {NoSummary} \cup ToSet(ClosedSpans(rows'))
      BY <1>0, <2>3, <2>5
    <2>7. queue' \in Seq(ToSet(ClosedSpans(rows')))
      BY <1>0, <2>4, <2>5
    <2> QED BY <1>0, <2>2, <2>5, <2>6, <2>7 DEF SpanInv
  <1>2. CASE Pass
    <2>1. UNCHANGED <<rows, summary, queue, asking, inFlight>>
      BY <1>2 DEF Pass
    <2> QED BY <1>0, <2>1 DEF SpanInv
  <1>3. CASE TickOnce
    <2>1. UNCHANGED <<rows, summary, asking>> /\ (inFlight => UNCHANGED <<queue, inFlight>>)
      BY <1>3 DEF TickOnce
    <2>2. CASE inFlight
      BY <1>0, <2>1, <2>2 DEF SpanInv
    <2>3. CASE ~inFlight
      <3>1. Awaiting[ClosedSpans(rows)] \in Seq(C)
        BY <1>0, AwaitingAreClosed
      <3> HIDE DEF C
      <3>4. queue' \in Seq(C)
        BY <1>3, <2>3, <3>1 DEF TickOnce
      <3>5. queue' \in Seq(ToSet(ClosedSpans(rows')))
        BY <2>1, <3>4 DEF C
      <3>6. ~asking'
        BY <1>0, <2>1, <2>3
      <3> QED BY <1>0, <2>1, <3>5, <3>6 DEF SpanInv, C
    <2> QED BY <2>2, <2>3
  <1>4. CASE AskNext
    <2>1. UNCHANGED <<rows, summary, inFlight>> /\ inFlight /\ ~asking /\ queue # <<>>
      BY <1>4 DEF AskNext
    <2>2. \/ asking' = TRUE /\ queue' = queue
          \/ queue' = <<>> /\ asking' = asking
      BY <1>4 DEF AskNext
    <2>3. queue' \in Seq(C)
      <3> HIDE DEF C
      <3>1. queue \in Seq(C) /\ <<>> \in Seq(C)
        BY <1>0
      <3> QED BY <2>2, <3>1
    <2> QED BY <1>0, <2>1, <2>2, <2>3 DEF SpanInv
  <1>5. CASE Answered
    <2>1. PICK span : span = Head(queue)
      OBVIOUS
    <2>2. UNCHANGED <<rows, inFlight>> /\ asking /\ asking' = FALSE /\ queue' = Tail(queue)
      BY <1>5 DEF Answered
    <2>3. span \in C /\ queue' \in Seq(C)
      <3> HIDE DEF C
      <3> QED BY <1>0, <2>1, <2>2
    <2>4. \/ summary' = summary
          \/ summary' = [summary EXCEPT ![Head(span)] = IF @ = NoSummary THEN span ELSE @]
      BY <1>5, <2>1 DEF Answered, AppendSummary
    <2>5. /\ DOMAIN summary' = 1..Length
          /\ summary' = [i \in 1..Length |-> summary'[i]]
          /\ \A i \in 1..Length : summary'[i] \in {NoSummary} \cup C
      <3> HIDE DEF C
      <3>1. CASE summary' = summary
        BY <1>0, <3>1
      <3>2. CASE summary' = [summary EXCEPT ![Head(span)] = IF @ = NoSummary THEN span ELSE @]
        <4>1. summary' = [i \in 1..Length |-> IF i = Head(span)
                            THEN IF summary[i] = NoSummary THEN span ELSE summary[i]
                            ELSE summary[i]]
          BY <1>0, <3>2, Zenon
        <4> QED BY <1>0, <2>3, <4>1
      <3> QED BY <2>4, <3>1, <3>2
    <2> QED BY <2>2, <2>3, <2>5 DEF SpanInv
  <1>6. CASE RunEnds
    <2>1. UNCHANGED <<rows, summary, queue, asking>> /\ ~asking
      BY <1>6 DEF RunEnds
    <2> QED BY <1>0, <2>1 DEF SpanInv
  <1>7. CASE UNCHANGED vars
    <2>1. UNCHANGED <<rows, summary, queue, asking, inFlight>>
      BY <1>7 DEF vars
    <2> QED BY <1>0, <2>1 DEF SpanInv
  <1> QED BY <1>1, <1>2, <1>3, <1>4, <1>5, <1>6, <1>7 DEF Next

-----------------------------------------------------------------------------
(* The walk of Aged over the first n of the acquisitions.                  *)
AgedStep(ages, before, i) ==
    IF Recent(ages[i]) THEN Append(before, ages[i] + 1) ELSE before

Walks(ages, f, n) ==
    f = [i \in 0..n |-> IF i = 0 THEN <<>> ELSE AgedStep(ages, f[i - 1], i)]

LEMMA WalksExist ==
    ASSUME NEW ages, NEW n \in Nat
    PROVE  \E f : Walks(ages, f, n)
  <1> DEFINE T == {m \in Nat : ~\E f : Walks(ages, f, m)}
  <1> SUFFICES ASSUME T # {} PROVE FALSE
    OBVIOUS
  <1>1. PICK m \in T : \A k \in T : m <= k
    BY LeastNatural
  <1>2. CASE m = 0
    <2>1. Walks(ages, [i \in 0..0 |-> <<>>], 0)
      BY DEF Walks
    <2> QED BY <1>2, <2>1
  <1>3. CASE m # 0
    <2>1. m - 1 \in Nat /\ m - 1 \notin T
      BY <1>1, <1>3
    <2>2. PICK f : Walks(ages, f, m - 1)
      BY <2>1
    <2> DEFINE g == [i \in 0..m |-> IF i = m THEN AgedStep(ages, f[m - 1], m) ELSE f[i]]
    <2>3. ASSUME NEW i \in 0..m
          PROVE  g[i] = IF i = 0 THEN <<>> ELSE AgedStep(ages, g[i - 1], i)
      <3>1. CASE i = 0
        BY <1>3, <2>2, <3>1 DEF Walks
      <3>2. CASE i # 0
        <4>1. i - 1 \in 0..m - 1 /\ g[i - 1] = f[i - 1]
          BY <3>2
        <4>2. CASE i = m
          BY <3>2, <4>1, <4>2
        <4>3. CASE i # m
          <5>1. i \in 0..m - 1
            BY <4>3
          <5>2. f[i] = AgedStep(ages, f[i - 1], i)
            BY <2>2, <3>2, <5>1 DEF Walks
          <5> QED BY <3>2, <4>1, <4>3, <5>2
        <4> QED BY <4>2, <4>3
      <3> QED BY <3>1, <3>2
    <2>4. g = [i \in 0..m |-> IF i = 0 THEN <<>> ELSE AgedStep(ages, g[i - 1], i)]
      BY <2>3
    <2> HIDE DEF g
    <2>5. Walks(ages, g, m)
      BY <2>4, Zenon DEF Walks
    <2> QED BY <2>5
  <1> QED BY <1>2, <1>3

(* Of the window's acquisitions, an interval later as many are in it at    *)
(* most, and each for less than an hour.                                   *)
LEMMA WalksTyped ==
    ASSUME NEW ages \in Seq(0..Hour - 1), NEW f, Walks(ages, f, Len(ages)),
           NEW n \in 0..Len(ages)
    PROVE  f[n] \in Seq(0..Hour - 1) /\ Len(f[n]) <= n
  <1> USE SpanAssumption
  <1> DEFINE Good(m) == f[m] \in Seq(0..Hour - 1) /\ Len(f[m]) <= m
             T == {m \in 0..Len(ages) : ~Good(m)}
  <1> SUFFICES ASSUME T # {} PROVE FALSE
    OBVIOUS
  <1>0. T \in SUBSET Nat
    OBVIOUS
  <1>1. PICK m \in T : \A k \in T : m <= k
    <2> HIDE DEF T
    <2> QED BY <1>0, LeastNatural
  <1>2. CASE m = 0
    BY <1>2 DEF Walks
  <1>3. CASE m # 0
    <2>1. m \in 1..Len(ages) /\ Good(m - 1)
      BY <1>1, <1>3
    <2>2. f[m] = AgedStep(ages, f[m - 1], m)
      BY <1>3, <2>1 DEF Walks
    <2>3. CASE ~Recent(ages[m])
      BY <2>1, <2>2, <2>3 DEF AgedStep
    <2>4. CASE Recent(ages[m])
      <3>1. ages[m] \in 0..Hour - 1 /\ ages[m] + 1 \in 0..Hour - 1
        BY <2>1, <2>4 DEF Recent
      <3>2. f[m] = Append(f[m - 1], ages[m] + 1)
        BY <2>2, <2>4 DEF AgedStep
      <3>3. PICK before \in Seq(0..Hour - 1) : before = f[m - 1] /\ Len(before) <= m - 1
        BY <2>1
      <3>4. /\ Append(before, ages[m] + 1) \in Seq(0..Hour - 1)
            /\ Len(Append(before, ages[m] + 1)) = Len(before) + 1
        BY <3>1
      <3>5. Len(before) \in Nat /\ m \in Nat
        BY <2>1
      <3>6. f[m] = Append(before, ages[m] + 1)
        BY <3>2, <3>3
      <3>7. Len(before) + 1 <= m
        BY <3>3, <3>5
      <3> QED BY <3>4, <3>6, <3>7
    <2>5. Good(m)
      BY <2>3, <2>4
    <2> QED BY <1>1, <2>5
  <1> QED BY <1>2, <1>3

LEMMA AgedTyped ==
    ASSUME NEW ages \in Seq(0..Hour - 1)
    PROVE  Aged(ages) \in Seq(0..Hour - 1) /\ Len(Aged(ages)) <= Len(ages)
  <1>0. Len(ages) \in Nat
    OBVIOUS
  <1> DEFINE kept == CHOOSE f : f = [n \in 0..Len(ages) |->
                 IF n = 0 THEN <<>>
                 ELSE IF Recent(ages[n]) THEN Append(f[n - 1], ages[n] + 1) ELSE f[n - 1]]
  <1>1. Aged(ages) = kept[Len(ages)]
    BY Zenon DEF Aged
  <1>2. \E f : f = [n \in 0..Len(ages) |->
                 IF n = 0 THEN <<>>
                 ELSE IF Recent(ages[n]) THEN Append(f[n - 1], ages[n] + 1) ELSE f[n - 1]]
    <2>1. \E f : Walks(ages, f, Len(ages))
      BY <1>0, WalksExist
    <2> QED BY <2>1, Zenon DEF Walks, AgedStep
  <1>3. Walks(ages, kept, Len(ages))
    BY <1>2, Zenon DEF Walks, AgedStep
  <1> HIDE DEF kept
  <1> QED BY <1>0, <1>1, <1>3, WalksTyped

-----------------------------------------------------------------------------
(* The rest of the types of the summaries.                                 *)
TimerTypes ==
    /\ asking \in BOOLEAN /\ inFlight \in BOOLEAN /\ due \in BOOLEAN
    /\ window \in Seq(0..Hour - 1) /\ Len(window) <= MaxPerHour
    /\ sick \subseteq 1..Length

LEMMA TimerInit == Init => TimerTypes
  <1> SUFFICES ASSUME Init PROVE TimerTypes
    OBVIOUS
  <1>1. asking = FALSE /\ inFlight = FALSE /\ due = FALSE /\ window = <<>>
    BY DEF Init
  <1>2. sick \subseteq 1..Length
    <2>1. sick \in {s \in SUBSET (1..Length) : Cardinality(s) <= MaxSick}
      BY Zenon DEF Init
    <2> QED BY <2>1, Zenon
  <1>3. window \in Seq(0..Hour - 1) /\ Len(window) <= MaxPerHour
    BY <1>1, SpanAssumption
  <1> QED BY <1>1, <1>2, <1>3 DEF TimerTypes

LEMMA TimerNext == TimerTypes /\ [Next]_vars => TimerTypes'
  <1> USE SpanAssumption
  <1> SUFFICES ASSUME TimerTypes, [Next]_vars PROVE TimerTypes'
    OBVIOUS
  <1>1. ASSUME NEW r \in Row, AppendNarration(r) PROVE TimerTypes'
    BY <1>1 DEF AppendNarration, TimerTypes
  <1>2. CASE Pass
    <2>1. Aged(window) \in Seq(0..Hour - 1) /\ Len(Aged(window)) <= Len(window)
      BY AgedTyped DEF TimerTypes
    <2>2. window' = Aged(window) /\ due' = TRUE /\ UNCHANGED <<asking, inFlight, sick>>
      BY <1>2 DEF Pass
    <2> QED BY <2>1, <2>2 DEF TimerTypes
  <1>3. CASE TickOnce
    BY <1>3 DEF TickOnce, TimerTypes
  <1>4. CASE AskNext
    <2>1. window' = IF Len(window) < MaxPerHour THEN Append(window, 0) ELSE window
      BY <1>4 DEF AskNext, TryAcquire
    <2>2. 0 \in 0..Hour - 1 /\ window \in Seq(0..Hour - 1) /\ Len(window) <= MaxPerHour
      BY DEF TimerTypes
    <2>3. window' \in Seq(0..Hour - 1)
      <3>1. Append(window, 0) \in Seq(0..Hour - 1)
        BY <2>2
      <3> QED BY <2>1, <2>2, <3>1
    <2>4. Len(window') <= MaxPerHour
      <3>1. Len(Append(window, 0)) = Len(window) + 1 /\ Len(window) \in Nat
        BY <2>2
      <3> QED BY <2>1, <2>2, <3>1
    <2> QED BY <1>4, <2>3, <2>4 DEF AskNext, TimerTypes
  <1>5. CASE Answered
    BY <1>5 DEF Answered, TimerTypes
  <1>6. CASE RunEnds
    BY <1>6 DEF RunEnds, TimerTypes
  <1>7. CASE UNCHANGED vars
    BY <1>7 DEF vars, TimerTypes
  <1> QED BY <1>1, <1>2, <1>3, <1>4, <1>5, <1>6, <1>7 DEF Next

LEMMA SpanTyped == SpanInv /\ TimerTypes => TypeOK
  <1> SUFFICES ASSUME SpanInv, TimerTypes PROVE TypeOK
    OBVIOUS
  <1> DEFINE C == ToSet(ClosedSpans(rows))
  <1>1. C \subseteq Seq(1..Length)
    <2>1. Len(rows) \in Nat /\ Len(rows) <= Length
      BY DEF SpanInv
    <2>2. Spans(Len(rows)) \subseteq Seq(1..Length)
      <3>1. 1..Len(rows) \subseteq 1..Length
        BY <2>1, SpanAssumption
      <3> QED BY <3>1, SubsetSeq DEF Spans
    <2>3. ClosedSpans(rows) \in Seq(Spans(Len(rows)))
      BY ClosedTyped DEF SpanInv
    <2>4. C \subseteq Spans(Len(rows))
      BY <2>3 DEF ToSet
    <2> QED BY <2>2, <2>4
  <1>2. queue \in Seq(Seq(1..Length))
    <2> HIDE DEF C
    <2>1. Seq(C) \subseteq Seq(Seq(1..Length))
      BY <1>1, SubsetSeq
    <2>2. queue \in Seq(C)
      BY DEF SpanInv, C
    <2> QED BY <2>1, <2>2
  <1>3. summary \in [1..Length -> Seq(1..Length)]
    <2> HIDE DEF C
    <2>1. \A i \in 1..Length : summary[i] \in {NoSummary} \cup C
      BY DEF SpanInv, C
    <2>2. summary = [i \in 1..Length |-> summary[i]]
      BY DEF SpanInv
    <2>3. \A i \in 1..Length : summary[i] \in Seq(1..Length)
      <3>1. NoSummary \in Seq(1..Length)
        BY DEF NoSummary
      <3> QED BY <1>1, <2>1, <3>1, Zenon
    <2> QED BY <2>2, <2>3
  <1> QED BY <1>2, <1>3 DEF SpanInv, TimerTypes, TypeOK

(* The rows, the runs and the summaries have their types, and never more   *)
(* acquisitions than the limit are in the rolling hour of the limiter.     *)
THEOREM SummariesTypeCorrect == Spec => []TypeOK
  BY SpanInitInv, SpanNextInv, TimerInit, TimerNext, SpanTyped, PTL DEF Spec

(* SummaryMonitor and the store of summaries: a summary tells a closed span, *)
(* all of it and nothing else, for any stream, though rows kept coming      *)
(* between its listing and the answer of the CLI.                           *)
THEOREM SummariesTellTheirSpans == Spec => []SummaryTellsItsSpan
  <1>1. SpanInv => SummaryTellsItsSpan
    BY DEF SpanInv, SummaryTellsItsSpan
  <1> QED BY SpanInitInv, SpanNextInv, SpanAssumption, <1>1, PTL DEF Spec

-----------------------------------------------------------------------------
(***************************************************************************)
(* The services together.  The instance's fairness is weaker than that of  *)
(* the components it is made of, since a part that does not run need not   *)
(* move; their initial states and steps are the components' own.           *)
(***************************************************************************)

StepsOfServices ==
    /\ Init /\ [][Next]_vars
    /\ StreamInit /\ [][StreamNext]_streamVars
    /\ ApprovalsSpec /\ AuthSpec /\ FoundrySpec /\ StuckSpec /\ TeamSpec

(* Seen by any of its components, each step of the instance is one which   *)
(* the component's own specification allows.                               *)
THEOREM ServicesAreTheirComponents == MCSpec => StepsOfServices
  <1> DEFINE all == <<vars, streamVars, approvalVars, authVars, foundryVars, stuckVars,
                      teamVars, part>>
  <1>0. MCSpec => MCInit /\ [][MCNext]_all
    BY PTL DEF MCSpec
  <1>1. MCInit => /\ Init /\ StreamInit /\ ApprovalsInit /\ AuthInit /\ FoundryInit
                  /\ StuckInit /\ TeamInit
    BY DEF MCInit
  <1>2. [MCNext]_all => [Next]_vars
    BY DEF MCNext
  <1>3. [MCNext]_all => [StreamNext]_streamVars
    BY DEF MCNext
  <1>4. [MCNext]_all => [ApprovalsNext]_approvalVars
    BY DEF MCNext
  <1>5. [MCNext]_all => [AuthNext]_authVars
    BY DEF MCNext
  <1>6. [MCNext]_all => [FoundryNext]_foundryVars
    BY DEF MCNext
  <1>7. [MCNext]_all => [StuckNext]_stuckVars
    BY DEF MCNext
  <1>8. [MCNext]_all => [TeamNext]_teamVars
    BY DEF MCNext
  <1> QED BY <1>0, <1>1, <1>2, <1>3, <1>4, <1>5, <1>6, <1>7, <1>8, PTL
          DEF StepsOfServices, ApprovalsSpec, AuthSpec, FoundrySpec, StuckSpec, TeamSpec

(* ServicesTypeOK: what each service keeps has its type, in every order of *)
(* their steps.                                                            *)
THEOREM ServicesTypeCorrect == MCSpec => []ServicesTypeOK
  <1>1. Init /\ [][Next]_vars => []TypeOK
    BY SpanInitInv, SpanNextInv, TimerInit, TimerNext, SpanTyped, PTL
  <1>2. StreamInit /\ [][StreamNext]_streamVars => []Answering
    BY AnsweringInit, AnsweringNext, PTL
  <1>3. (/\ TypeOK /\ Answering /\ ApprovalsTypeOK /\ AuthTypeOK
         /\ FoundryTypeInv /\ StuckTypeOK /\ TeamTypeInv)
        => ServicesTypeOK
    BY DEF Answering, FoundryTypeInv, TeamTypeInv, ServicesTypeOK
  <1> QED BY <1>1, <1>2, <1>3, ServicesAreTheirComponents, ApprovalsTypeCorrect,
             AuthTypeCorrect, FoundryTypeCorrect, StuckTypeCorrect, TeamTypeCorrect, PTL
          DEF StepsOfServices
=============================================================================
