----------------------------- MODULE Approvals ------------------------------
(***************************************************************************)
(* Permission requests of a Claude runtime: the approval_requests and      *)
(* approval_deliveries tables (SqliteApprovalBroker), and approval_respond *)
(* of the tool facade, which records a decision and then answers the       *)
(* agent's control request on its stdin.                                   *)
(*                                                                         *)
(* Two processes serve approval_respond on the same database: the sidecar  *)
(* ("main"), which owns the adapters of the agents, and an MCP child       *)
(* ("child"), which has none.  A handler is synchronous, so within one     *)
(* process handlers do not overlap; between two of its statements the      *)
(* other process may run, and either process may stop.                     *)
(***************************************************************************)
EXTENDS Integers, Sequences

CONSTANTS
    Approval,       \* approval ids (the CLI's control request ids)
    Key,            \* what tells the idempotency keys of one approval apart
    MaxCrashes      \* stops of the sidecar (bound)

VARIABLES
    row,            \* approval -> its row of approval_requests
    receipt,        \* approval -> whether it has a row in approval_deliveries
    stdin,          \* of the runtime's adapter in the sidecar, if there is one
    call,           \* process -> the approval_respond it is in
    answers,        \* approval -> decisions written to the agent's stdin, in order
    torn,           \* approval -> stops between an answer and its receipt
    crashes

approvalVars == <<row, receipt, stdin, call, answers, torn, crashes>>

Process  == {"main", "child"}
Decision == {"approved", "denied"}
Status   == {"none", "pending"} \cup Decision

NoKey == "no key"
NoRow == [status |-> "none", key |-> NoKey]
Idle  == [step |-> "idle"]

Calls == {Idle} \cup [step : {"update", "send", "mark"}, approval : Approval,
                      decision : Decision, key : Key]

ApprovalsTypeOK ==
    /\ row \in [Approval -> [status : Status, key : Key \cup {NoKey}]]
    /\ receipt \in [Approval -> BOOLEAN]
    /\ stdin \in {"none", "writable", "dead"}
    /\ call \in [Process -> Calls]
    /\ answers \in [Approval -> Seq(Decision)]
    /\ torn \in [Approval -> Nat]
    /\ crashes \in Nat

ApprovalsInit ==
    /\ row = [a \in Approval |-> NoRow]
    /\ receipt = [a \in Approval |-> FALSE]
    /\ stdin = "none"
    /\ call = [p \in Process |-> Idle]
    /\ answers = [a \in Approval |-> <<>>]
    /\ torn = [a \in Approval |-> 0]
    /\ crashes = 0

-----------------------------------------------------------------------------
(* The runtime: launched (a new process under the same runtime id), exited *)
(* (the adapter stays registered, its stdin is no longer writable), or     *)
(* stopped (the adapter is removed).                                       *)
AgentChanges ==
    /\ call["main"] = Idle
    /\ \/ stdin # "writable" /\ stdin' = "writable"
       \/ stdin = "writable" /\ stdin' = "dead"
       \/ stdin # "none" /\ stdin' = "none"
    /\ UNCHANGED <<row, receipt, call, answers, torn, crashes>>

(* RuntimeEventIngestor: an approval_request of a running runtime.  A      *)
(* repeated id leaves the row alone (ON CONFLICT DO NOTHING).              *)
RequestApproval(a) ==
    /\ call["main"] = Idle
    /\ stdin = "writable"
    /\ row' = [row EXCEPT ![a] = IF @.status = "none"
                                 THEN [NoRow EXCEPT !.status = "pending"] ELSE @]
    /\ UNCHANGED <<receipt, stdin, call, answers, torn, crashes>>

(* approval_respond, up to the lookup by idempotency key: a known key      *)
(* skips the update, an unknown approval is an error.                      *)
Respond(p, a, d, k) ==
    /\ call[p] = Idle
    /\ row[a].status # "none"
    /\ call' = [call EXCEPT ![p] = [step |-> IF row[a].key = k THEN "send" ELSE "update",
                                    approval |-> a, decision |-> d, key |-> k]]
    /\ UNCHANGED <<row, receipt, stdin, answers, torn, crashes>>

(* The UPDATE of respondApproval, whatever the status of the row.          *)
RecordDecision(p) ==
    /\ call[p].step = "update"
    /\ row' = [row EXCEPT ![call[p].approval] =
                   [status |-> call[p].decision, key |-> call[p].key]]
    /\ call' = [call EXCEPT ![p].step = "send"]
    /\ UNCHANGED <<receipt, stdin, answers, torn, crashes>>

(* Mutant of MayAnswer: the receipt is not looked at.                      *)
MayAnswerAgain(p, a) == p = "main" /\ stdin # "none"

(* What approve() may be asked to do: nothing once there is a receipt, and *)
(* nothing in a process without the adapter.                               *)
MayAnswer(p, a) == ~receipt[a] /\ p = "main" /\ stdin # "none"

(* The answer carries the decision of this call; a dead stdin throws and   *)
(* no receipt is written.                                                  *)
AnswerAgent(p) ==
    /\ call[p].step = "send"
    /\ LET a == call[p].approval
           written == MayAnswer(p, a) /\ stdin = "writable"
       IN /\ answers' = IF written THEN [answers EXCEPT ![a] = Append(@, call[p].decision)]
                                   ELSE answers
          /\ call' = [call EXCEPT ![p] = IF written THEN [@ EXCEPT !.step = "mark"] ELSE Idle]
    /\ UNCHANGED <<row, receipt, stdin, torn, crashes>>

MarkApprovalDelivered(p) ==
    /\ call[p].step = "mark"
    /\ receipt' = [receipt EXCEPT ![call[p].approval] = TRUE]
    /\ call' = [call EXCEPT ![p] = Idle]
    /\ UNCHANGED <<row, stdin, answers, torn, crashes>>

(* A process stops wherever it is; the adapters die with the sidecar.      *)
Crash(p) ==
    /\ crashes < MaxCrashes
    /\ crashes' = crashes + 1
    /\ torn' = IF call[p].step = "mark" THEN [torn EXCEPT ![call[p].approval] = @ + 1]
                                        ELSE torn
    /\ call' = [call EXCEPT ![p] = Idle]
    /\ stdin' = IF p = "main" THEN "none" ELSE stdin
    /\ UNCHANGED <<row, receipt, answers>>

ApprovalsNext ==
    \/ AgentChanges
    \/ \E a \in Approval : RequestApproval(a)
    \/ \E p \in Process, a \in Approval, d \in Decision, k \in Key : Respond(p, a, d, k)
    \/ \E p \in Process : \/ RecordDecision(p)
                          \/ AnswerAgent(p)
                          \/ MarkApprovalDelivered(p)
                          \/ Crash(p)

ApprovalsSpec == ApprovalsInit /\ [][ApprovalsNext]_approvalVars

-----------------------------------------------------------------------------
(* However often a decision is retried, changed or raced by the other      *)
(* process, the agent is answered once, and once more for each stop        *)
(* between its answer and the receipt.                                     *)
AnsweredUnlessTorn == \A a \in Approval : Len(answers[a]) <= 1 + torn[a]

(* A receipt is never ahead of the answer: no approval counts as delivered *)
(* when no decision has reached the agent, whatever stops in between.      *)
ReceiptMeansAnswered == \A a \in Approval : receipt[a] => answers[a] # <<>>

=============================================================================
