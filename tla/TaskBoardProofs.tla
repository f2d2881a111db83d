-------------------------- MODULE TaskBoardProofs --------------------------
(***************************************************************************)
(* Theorems about TaskBoard for every set of agents, every assignment of   *)
(* roles and every way tasks are created.                                  *)
(***************************************************************************)
EXTENDS TaskBoard, TLAPS

USE TaskAssumption

-----------------------------------------------------------------------------
(* Type correctness.  The statuses and outcomes a call carries from step   *)
(* to step are such that the event it appends in the end is well formed.   *)

StepOK(q) ==
    /\ q.pc \in {"policy", "merge", "updateRef", "record", "status"} => q.arg \in Status
    /\ q.pc = "record" => q.out \in {"merged", "skipped"}
    /\ q.pc = "recordWorktree" => q.out \in {"created", "skipped", "removed"}
    /\ q.pc = "updateRef" => q.seenTip < MaxTips

TypeInv == TypeOK /\ \A a \in Agent : StepOK(proc[a])

LEMMA StatusSet ==
  Status = {"backlog", "ready", "planned", "in_progress", "review", "testing", "merge_ready",
            "blocked", "done", "rejected", "pending", "completed", "deleted"}
  BY DEF Status, AllowedTransitions

(* A step of one process, and what it leaves of the others.                *)
At(pc, arg, out) == [Idle EXCEPT !.pc = pc, !.arg = arg, !.out = out]

LEMMA IdleType == Idle \in Proc /\ StepOK(Idle) /\ Idle.pc = "idle"
  BY DEF Idle, Proc, StepOK

LEMMA AtFields ==
  ASSUME NEW pc, NEW arg, NEW out
  PROVE  At(pc, arg, out) = [pc |-> pc, arg |-> arg, out |-> out, seenTip |-> 0, seen |-> {}]
  <1>1. At(pc, arg, out) \in [pc : {pc}, arg : {arg}, out : {out}, seenTip : {0}, seen : {{}}]
    BY DEF At, Idle
  <1> QED BY <1>1

LEMMA MovesType ==
  ASSUME proc \in [Agent -> Proc], \A b \in Agent : StepOK(proc[b]),
         NEW a \in Agent, NEW q \in Proc, StepOK(q), proc' = [proc EXCEPT ![a] = q]
  PROVE  proc' \in [Agent -> Proc] /\ \A b \in Agent : StepOK(proc'[b])
  OBVIOUS

LEMMA ReturnType ==
  ASSUME TypeInv, NEW a \in Agent, Return(a)
  PROVE  proc' \in [Agent -> Proc] /\ \A b \in Agent : StepOK(proc'[b])
  BY IdleType, MovesType DEF TypeInv, TypeOK, Return

LEMMA GotoType ==
  ASSUME TypeInv, NEW a \in Agent, NEW pc, NEW arg, NEW out,
         At(pc, arg, out) \in Proc, StepOK(At(pc, arg, out)), Goto(a, pc, arg, out)
  PROVE  proc' \in [Agent -> Proc] /\ \A b \in Agent : StepOK(proc'[b])
  BY MovesType DEF TypeInv, TypeOK, Goto, At

(* Events make well-formed tasks of well-formed tasks.                     *)
LEMMA BegunType ==
  ASSUME NEW t \in TaskRecord
  PROVE  Begun(t) \in TaskRecord
  BY StatusSet DEF Begun, TaskRecord

LEMMA EventTypes ==
  ASSUME NEW t \in TaskRecord
  PROVE  /\ \A s \in Status : [t EXCEPT !.status = s] \in TaskRecord
         /\ \A s \in Status, b, n \in BOOLEAN :
                [t EXCEPT !.status = s, !.based = b, !.needsHuman = n] \in TaskRecord
         /\ \A p \in Plan : [t EXCEPT !.plan = p] \in TaskRecord
         /\ \A r \in Review : [t EXCEPT !.review = r] \in TaskRecord
         /\ \A v \in {"passed", "failed"} : [t EXCEPT !.test = v] \in TaskRecord
         /\ [t EXCEPT !.approved = TRUE] \in TaskRecord
         /\ [t EXCEPT !.needsHuman = TRUE] \in TaskRecord
         /\ \A i \in {"merged", "skipped"} : [t EXCEPT !.integration = i] \in TaskRecord
         /\ \A w \in {"created", "skipped", "removed"} : [t EXCEPT !.worktree = w] \in TaskRecord
  BY DEF TaskRecord

LEMMA DecisionTypes ==
  ASSUME NEW t \in TaskRecord, NEW a \in Agent
  PROVE  /\ \A s \in {"approved", "rejected"} :
                [t EXCEPT !.plan.state = s, !.plan.decidedBy = a] \in TaskRecord
         /\ \A s \in Status \cup {"absent"} :
                [t EXCEPT !.status = s, !.review.state = "decided", !.review.decidedBy = a]
                    \in TaskRecord
  BY DEF TaskRecord, Plan, Review, Someone

LEMMA TypeInit == Init => TypeInv
  <1> SUFFICES ASSUME Init PROVE TypeInv
    OBVIOUS
  <1>1. NoPlan \in Plan /\ NoReview \in Review
    BY DEF NoPlan, Plan, NoReview, Review, Someone
  <1>2. NoTask \in TaskRecord
    BY <1>1 DEF NoTask, TaskRecord
  <1>3. proc \in [Agent -> Proc] /\ \A a \in Agent : StepOK(proc[a])
    BY IdleType DEF Init
  <1>4. tip \in 0..MaxTips /\ landed \subseteq Change
    BY DEF Init
  <1> QED BY <1>2, <1>3, <1>4 DEF Init, TypeInv, TypeOK

LEMMA CheckedUpdateType ==
  ASSUME TypeInv, NEW a \in Agent, NEW s \in Status, CheckedUpdate(a, s)
  PROVE  /\ proc' \in [Agent -> Proc] /\ \A b \in Agent : StepOK(proc'[b])
         /\ orphan' \in BOOLEAN
  <1>1. orphan' \in BOOLEAN
    BY DEF CheckedUpdate, TypeInv, TypeOK
  <1>2. \A pc \in {"merge", "status"} : At(pc, s, "none") \in Proc /\ StepOK(At(pc, s, "none"))
    BY AtFields DEF Proc, StepOK
  <1>3. At("record", s, "skipped") \in Proc /\ StepOK(At("record", s, "skipped"))
    BY AtFields DEF Proc, StepOK
  <1> QED BY <1>1, <1>2, <1>3, GotoType DEF CheckedUpdate

(* The steps of one agent's process, and what else may happen.             *)
StepOf(a) ==
    \/ \E s \in Initial, c \in Creation : TaskCreate(a, s, c)
    \/ PlanPropose(a) \/ HumanApprove(a)
    \/ \E v \in {"passed", "failed"} : ValidationRun(a, v)
    \/ \E d \in {"approved", "rejected"} : PlanDecide(a, d)
    \/ AppendPlanDecision(a)
    \/ ReviewRequest(a) \/ AppendRiskClassified(a) \/ AppendReviewRequested(a)
    \/ \E d \in {"approved", "changes_requested"} : ReviewDecide(a, d)
    \/ AppendReviewDecided(a)
    \/ \E s \in Target : TaskUpdate(a, s)
    \/ PolicyVerdict(a) \/ MergeRead(a) \/ UpdateRef(a) \/ AppendIntegration(a)
    \/ AppendStatus(a) \/ CreateWorktree(a) \/ RemoveWorktree(a) \/ AppendWorktree(a)
    \/ Push \/ Kill(a)

LEMMA NextSteps == Next <=> \E a \in Agent : StepOf(a)
  BY DEF Next, StepOf

LEMMA TypeNext == TypeInv /\ Next => TypeInv'
  <1> SUFFICES ASSUME TypeInv, NEW a \in Agent, StepOf(a)
               PROVE  TypeInv'
    BY NextSteps
  <1> USE DEF git
  <1>t. task \in TaskRecord /\ Begun(task) \in TaskRecord
    BY BegunType DEF TypeInv, TypeOK
  <1>p. proc[a] \in Proc /\ StepOK(proc[a])
    BY DEF TypeInv, TypeOK
  <1>1. ASSUME NEW s \in Initial, NEW c \in Creation, TaskCreate(a, s, c) PROVE TypeInv'
    <2>1. s \in Status /\ c[1] \in BOOLEAN /\ c[2] \in BOOLEAN
      OBVIOUS
    <2>2. task.based \in BOOLEAN
      BY <1>t DEF TaskRecord
    <2>3. task' \in TaskRecord
      BY <1>1, <2>1, <2>2, <1>t, EventTypes DEF TaskCreate
    <2> QED BY <1>1, <2>3 DEF TaskCreate, TypeInv, TypeOK
  <1>2. CASE PlanPropose(a)
    <2>1. [state |-> "proposed", proposedBy |-> a, decidedBy |-> None] \in Plan
      BY DEF Plan, Someone
    <2>2. task' \in TaskRecord
      BY <1>2, <2>1, <1>t, EventTypes DEF PlanPropose
    <2> QED BY <1>2, <2>2 DEF PlanPropose, TypeInv, TypeOK
  <1>3. CASE HumanApprove(a)
    <2>1. task' \in TaskRecord
      BY <1>3, <1>t, EventTypes DEF HumanApprove
    <2> QED BY <1>3, <2>1 DEF HumanApprove, TypeInv, TypeOK
  <1>4. ASSUME NEW v \in {"passed", "failed"}, ValidationRun(a, v) PROVE TypeInv'
    <2>1. task' \in TaskRecord /\ passed' \in BOOLEAN
      BY <1>4, <1>t, EventTypes DEF ValidationRun, TypeInv, TypeOK
    <2> QED BY <1>4, <2>1 DEF ValidationRun, TypeInv, TypeOK
  <1>5. ASSUME NEW d \in {"approved", "rejected"}, PlanDecide(a, d) PROVE TypeInv'
    <2>1. At("decidePlan", d, "none") \in Proc /\ StepOK(At("decidePlan", d, "none"))
      BY AtFields, StatusSet DEF Proc, StepOK
    <2>2. proc' \in [Agent -> Proc] /\ \A b \in Agent : StepOK(proc'[b])
      BY <1>5, <2>1, GotoType DEF PlanDecide
    <2> QED BY <1>5, <2>2 DEF PlanDecide, TypeInv, TypeOK
  <1>6. CASE AppendPlanDecision(a)
    <2>1. task' \in TaskRecord
      BY <1>6, <1>t, DecisionTypes DEF AppendPlanDecision
    <2>2. proc' \in [Agent -> Proc] /\ \A b \in Agent : StepOK(proc'[b])
      BY <1>6, ReturnType DEF AppendPlanDecision
    <2> QED BY <1>6, <2>1, <2>2 DEF AppendPlanDecision, TypeInv, TypeOK
  <1>7. CASE ReviewRequest(a)
    <2>1. \A pc \in {"request", "classify"} : At(pc, "none", "none") \in Proc
                                              /\ StepOK(At(pc, "none", "none"))
      BY AtFields DEF Proc, StepOK
    <2>2. proc' \in [Agent -> Proc] /\ \A b \in Agent : StepOK(proc'[b])
      BY <1>7, <2>1, GotoType DEF ReviewRequest
    <2> QED BY <1>7, <2>2 DEF ReviewRequest, TypeInv, TypeOK
  <1>8. CASE AppendRiskClassified(a)
    <2>1. task' \in TaskRecord
      BY <1>8, <1>t, EventTypes DEF AppendRiskClassified
    <2>2. At("request", "none", "none") \in Proc /\ StepOK(At("request", "none", "none"))
      BY AtFields DEF Proc, StepOK
    <2>3. proc' \in [Agent -> Proc] /\ \A b \in Agent : StepOK(proc'[b])
      BY <1>8, <2>2, GotoType DEF AppendRiskClassified
    <2> QED BY <1>8, <2>1, <2>3 DEF AppendRiskClassified, TypeInv, TypeOK
  <1>9. CASE AppendReviewRequested(a)
    <2>1. [state |-> "requested", requestedBy |-> a, decidedBy |-> None] \in Review
      BY DEF Review, Someone
    <2>2. task' \in TaskRecord
      BY <1>9, <2>1, <1>t, EventTypes DEF AppendReviewRequested
    <2>3. proc' \in [Agent -> Proc] /\ \A b \in Agent : StepOK(proc'[b])
      BY <1>9, ReturnType DEF AppendReviewRequested
    <2> QED BY <1>9, <2>2, <2>3 DEF AppendReviewRequested, TypeInv, TypeOK
  <1>10. ASSUME NEW d \in {"approved", "changes_requested"}, ReviewDecide(a, d) PROVE TypeInv'
    <2>1. At("decideReview", d, "none") \in Proc /\ StepOK(At("decideReview", d, "none"))
      BY AtFields DEF Proc, StepOK
    <2>2. proc' \in [Agent -> Proc] /\ \A b \in Agent : StepOK(proc'[b])
      BY <1>10, <2>1, GotoType DEF ReviewDecide
    <2> QED BY <1>10, <2>2 DEF ReviewDecide, TypeInv, TypeOK
  <1>11. CASE AppendReviewDecided(a)
    <2>1. Begun(task).status \in Status \cup {"absent"} /\ "pending" \in Status
      BY <1>t, StatusSet DEF TaskRecord
    <2>2. task' \in TaskRecord
      BY <1>11, <2>1, <1>t, DecisionTypes DEF AppendReviewDecided
    <2>3. proc' \in [Agent -> Proc] /\ \A b \in Agent : StepOK(proc'[b])
      BY <1>11, ReturnType DEF AppendReviewDecided
    <2> QED BY <1>11, <2>2, <2>3 DEF AppendReviewDecided, TypeInv, TypeOK
  <1>12. ASSUME NEW s \in Target, TaskUpdate(a, s) PROVE TypeInv'
    <2>1. At("policy", s, "none") \in Proc /\ StepOK(At("policy", s, "none"))
      BY AtFields DEF Proc, StepOK
    <2>2. /\ proc' \in [Agent -> Proc] /\ \A b \in Agent : StepOK(proc'[b])
          /\ orphan' \in BOOLEAN
      BY <1>12, <2>1, GotoType, CheckedUpdateType DEF TaskUpdate, TypeInv, TypeOK
    <2> QED BY <1>12, <2>2 DEF TaskUpdate, TypeInv, TypeOK
  <1>13. CASE PolicyVerdict(a)
    <2>1. proc[a].arg \in Status
      BY <1>13, <1>p DEF PolicyVerdict, StepOK
    <2>2. /\ proc' \in [Agent -> Proc] /\ \A b \in Agent : StepOK(proc'[b])
          /\ orphan' \in BOOLEAN
      BY <1>13, <2>1, ReturnType, CheckedUpdateType DEF PolicyVerdict, TypeInv, TypeOK
    <2> QED BY <1>13, <2>2 DEF PolicyVerdict, TypeInv, TypeOK
  <1>14. CASE MergeRead(a)
    <2>1. proc' \in [Agent -> Proc] /\ \A b \in Agent : StepOK(proc'[b])
      <3>1. ASSUME tip < MaxTips,
                   proc' = [proc EXCEPT ![a].pc = "updateRef", ![a].seenTip = tip,
                                        ![a].seen = landed]
            PROVE  proc' \in [Agent -> Proc] /\ \A b \in Agent : StepOK(proc'[b])
        <4> DEFINE q == [proc[a] EXCEPT !.pc = "updateRef", !.seenTip = tip, !.seen = landed]
        <4>1. proc' = [proc EXCEPT ![a] = q]
          BY <3>1, <1>p DEF TypeInv, TypeOK
        <4>2. q \in Proc /\ StepOK(q)
          BY <3>1, <1>14, <1>p DEF MergeRead, Proc, StepOK, TypeInv, TypeOK
        <4> QED BY <4>1, <4>2, MovesType DEF TypeInv, TypeOK
      <3>2. At("record", proc[a].arg, "skipped") \in Proc
            /\ StepOK(At("record", proc[a].arg, "skipped"))
        BY <1>14, <1>p, AtFields DEF MergeRead, Proc, StepOK
      <3> QED BY <1>14, <3>1, <3>2, GotoType, ReturnType DEF MergeRead
    <2> QED BY <1>14, <2>1 DEF MergeRead, TypeInv, TypeOK
  <1>15. CASE UpdateRef(a)
    <2>1. At("record", proc[a].arg, "merged") \in Proc
          /\ StepOK(At("record", proc[a].arg, "merged"))
      BY <1>15, <1>p, AtFields DEF UpdateRef, Proc, StepOK
    <2>2. proc' \in [Agent -> Proc] /\ \A b \in Agent : StepOK(proc'[b])
      BY <1>15, <2>1, GotoType, ReturnType DEF UpdateRef
    <2>3. landed' \subseteq Change
      BY <1>15, <1>p DEF UpdateRef, Proc, Change, TypeInv, TypeOK
    <2>4. tip' \in 0..MaxTips
      <3>1. CASE tip = proc[a].seenTip
        <4>1. tip < MaxTips /\ tip' = tip + 1
          BY <3>1, <1>15, <1>p DEF UpdateRef, StepOK
        <4> QED BY <4>1 DEF TypeInv, TypeOK
      <3>2. CASE tip # proc[a].seenTip
        BY <3>2, <1>15 DEF UpdateRef, TypeInv, TypeOK
      <3> QED BY <3>1, <3>2
    <2> QED BY <1>15, <2>2, <2>3, <2>4 DEF UpdateRef, TypeInv, TypeOK
  <1>16. CASE AppendIntegration(a)
    <2>1. task' \in TaskRecord
      BY <1>16, <1>t, <1>p, EventTypes DEF AppendIntegration, StepOK
    <2>2. At("status", proc[a].arg, "none") \in Proc /\ StepOK(At("status", proc[a].arg, "none"))
      BY <1>16, <1>p, AtFields DEF AppendIntegration, Proc, StepOK
    <2>3. proc' \in [Agent -> Proc] /\ \A b \in Agent : StepOK(proc'[b])
      BY <1>16, <2>2, GotoType DEF AppendIntegration
    <2> QED BY <1>16, <2>1, <2>3 DEF AppendIntegration, TypeInv, TypeOK
  <1>17. CASE AppendStatus(a)
    <2>1. task' \in TaskRecord
      BY <1>17, <1>t, <1>p, EventTypes DEF AppendStatus, StepOK
    <2>2. At("worktree", proc[a].arg, "none") \in Proc
          /\ StepOK(At("worktree", proc[a].arg, "none"))
      BY <1>17, <1>p, AtFields DEF AppendStatus, Proc, StepOK
    <2>3. proc' \in [Agent -> Proc] /\ \A b \in Agent : StepOK(proc'[b])
      BY <1>17, <2>2, GotoType, ReturnType DEF AppendStatus
    <2> QED BY <1>17, <2>1, <2>3 DEF AppendStatus, TypeInv, TypeOK
  <1>w. \A o \in {"created", "skipped", "removed"} :
            At("recordWorktree", "none", o) \in Proc /\ StepOK(At("recordWorktree", "none", o))
    BY AtFields DEF Proc, StepOK
  <1>18. CASE CreateWorktree(a)
    <2>1. proc' \in [Agent -> Proc] /\ \A b \in Agent : StepOK(proc'[b])
      BY <1>18, <1>w, GotoType, ReturnType DEF CreateWorktree
    <2> QED BY <1>18, <2>1 DEF CreateWorktree, TypeInv, TypeOK
  <1>19. CASE RemoveWorktree(a)
    <2>1. proc' \in [Agent -> Proc] /\ \A b \in Agent : StepOK(proc'[b])
      BY <1>19, <1>w, GotoType, ReturnType DEF RemoveWorktree
    <2> QED BY <1>19, <2>1 DEF RemoveWorktree, TypeInv, TypeOK
  <1>20. CASE AppendWorktree(a)
    <2>1. task' \in TaskRecord
      BY <1>20, <1>t, <1>p, EventTypes DEF AppendWorktree, StepOK
    <2>2. proc' \in [Agent -> Proc] /\ \A b \in Agent : StepOK(proc'[b])
      BY <1>20, ReturnType DEF AppendWorktree
    <2> QED BY <1>20, <2>1, <2>2 DEF AppendWorktree, TypeInv, TypeOK
  <1>21. CASE Push
    BY <1>21 DEF Push, TypeInv, TypeOK, Change
  <1>22. CASE Kill(a)
    <2>1. proc' \in [Agent -> Proc] /\ \A b \in Agent : StepOK(proc'[b])
      BY <1>22, ReturnType DEF Kill
    <2> QED BY <1>22, <2>1 DEF Kill, TypeInv, TypeOK
  <1> QED BY <1>1, <1>2, <1>3, <1>4, <1>5, <1>6, <1>7, <1>8, <1>9, <1>10, <1>11, <1>12, <1>13,
             <1>14, <1>15, <1>16, <1>17, <1>18, <1>19, <1>20, <1>21, <1>22 DEF StepOf

LEMMA TypeAlways == Spec => []TypeInv
  <1>1. TypeInv /\ UNCHANGED vars => TypeInv'
    BY DEF vars, TypeInv, TypeOK
  <1> QED BY TypeInit, TypeNext, <1>1, PTL DEF Spec

(* The task, the repository and the calls in progress always have their    *)
(* types: no interleaving appends a status or an outcome outside its enum. *)
THEOREM BoardTypeCorrect == Spec => []TypeOK
  BY TypeAlways, PTL DEF TypeInv

-----------------------------------------------------------------------------
(***************************************************************************)
(* The gates that hold: nobody decides on their own plan or work, and no   *)
(* task gets past testing untested.                                        *)
(***************************************************************************)

(* How the processes move: one of them goes on or returns.                 *)

LEMMA GotoMoves ==
  ASSUME TypeInv, NEW a \in Agent, NEW pc, NEW arg, NEW out, Goto(a, pc, arg, out)
  PROVE  /\ proc'[a].pc = pc /\ proc'[a].arg = arg /\ proc'[a].out = out
         /\ \A b \in Agent \ {a} : proc'[b] = proc[b]
  <1>1. proc' = [proc EXCEPT ![a] = At(pc, arg, out)]
    BY DEF Goto, At
  <1> QED BY <1>1, AtFields DEF TypeInv, TypeOK

LEMMA ReturnMoves ==
  ASSUME TypeInv, NEW a \in Agent, Return(a)
  PROVE  /\ proc'[a].pc = "idle"
         /\ \A b \in Agent \ {a} : proc'[b] = proc[b]
  BY DEF Return, Idle, TypeInv, TypeOK

(* A process that passes the checks of an update goes on to merge, to      *)
(* record that it skipped the merge, or to the status event.               *)
LEMMA CheckedUpdateMoves ==
  ASSUME TypeInv, NEW a \in Agent, NEW s, CheckedUpdate(a, s)
  PROVE  /\ proc'[a].pc \in {"merge", "record", "status"} /\ proc'[a].arg = s
         /\ proc'[a].out # "merged"
         /\ \A b \in Agent \ {a} : proc'[b] = proc[b]
         /\ orphan' = (orphan \/ task.status = "absent")
  <1>1. /\ CheckedUpdate(a, s)
        /\ \/ Goto(a, "merge", s, "none")
           \/ Goto(a, "record", s, "skipped")
           \/ Goto(a, "status", s, "none")
    BY DEF CheckedUpdate
  <1>2. orphan' = (orphan \/ task.status = "absent")
    BY <1>1 DEF CheckedUpdate
  <1>3. CASE Goto(a, "merge", s, "none")
    BY <1>2, <1>3, GotoMoves
  <1>4. CASE Goto(a, "record", s, "skipped")
    BY <1>2, <1>4, GotoMoves
  <1>5. CASE Goto(a, "status", s, "none")
    BY <1>2, <1>5, GotoMoves
  <1> QED BY <1>1, <1>3, <1>4, <1>5

-----------------------------------------------------------------------------
(* Separation of duties.  Between the check and the event it allows the    *)
(* decider's own process is busy, so that what is decided on may be        *)
(* proposed or requested again, but only by somebody else.                 *)

Deciding(pc) == {a \in Agent : proc[a].pc = pc}

DutyParts ==
    /\ SeparationOfDuties
    /\ \A a \in Deciding("decidePlan") : task.plan.proposedBy # a
    /\ \A a \in Deciding("decideReview") : task.review.requestedBy # a

DutyInv == TypeInv /\ DutyParts

(* Nobody starts deciding.                                                 *)
NoNewDecider ==
    \A pc \in {"decidePlan", "decideReview"}, b \in Agent :
        proc'[b].pc = pc => proc[b].pc = pc

LEMMA QuietDuty ==
  ASSUME DutyInv, NoNewDecider, task'.plan = task.plan, task'.review = task.review
  PROVE  DutyParts'
  BY DEF DutyInv, DutyParts, NoNewDecider, SeparationOfDuties, Deciding

LEMMA ReturnDecider ==
  ASSUME TypeInv, NEW a \in Agent, Return(a)
  PROVE  NoNewDecider /\ \A pc \in {"decidePlan", "decideReview"} : proc'[a].pc # pc
  BY ReturnMoves DEF NoNewDecider

LEMMA GotoDecider ==
  ASSUME TypeInv, NEW a \in Agent, NEW pc, NEW arg, NEW out, Goto(a, pc, arg, out),
         pc \notin {"decidePlan", "decideReview"}
  PROVE  NoNewDecider
  BY GotoMoves DEF NoNewDecider

LEMMA BegunKeeps ==
  ASSUME NEW t \in TaskRecord
  PROVE  Begun(t).plan = t.plan /\ Begun(t).review = t.review
  BY DEF Begun, TaskRecord

LEMMA DutyNext == DutyInv /\ Next => DutyParts'
  <1> SUFFICES ASSUME DutyInv, NEW a \in Agent, StepOf(a)
               PROVE  DutyParts'
    BY NextSteps
  <1> USE DEF git
  <1>i. TypeInv
    BY DEF DutyInv
  <1>t. /\ task \in TaskRecord /\ Begun(task) \in TaskRecord
        /\ Begun(task).plan = task.plan /\ Begun(task).review = task.review
    BY <1>i, BegunType, BegunKeeps DEF TypeInv, TypeOK
  <1>1. ASSUME NEW s \in Initial, NEW c \in Creation, TaskCreate(a, s, c) PROVE DutyParts'
    <2>1. task'.plan = task.plan /\ task'.review = task.review /\ NoNewDecider
      BY <1>1, <1>t DEF TaskCreate, TaskRecord, NoNewDecider
    <2> QED BY <2>1, QuietDuty
  <1>2. CASE PlanPropose(a)
    <2>1. /\ task'.plan = [state |-> "proposed", proposedBy |-> a, decidedBy |-> None]
          /\ task'.review = task.review /\ proc' = proc /\ proc[a].pc = "idle"
      BY <1>2, <1>t DEF PlanPropose, TaskRecord, Calls
    <2> QED BY <2>1 DEF DutyInv, DutyParts, SeparationOfDuties, Deciding
  <1>3. CASE HumanApprove(a)
    <2>1. task'.plan = task.plan /\ task'.review = task.review /\ NoNewDecider
      BY <1>3, <1>t DEF HumanApprove, TaskRecord, NoNewDecider
    <2> QED BY <2>1, QuietDuty
  <1>4. ASSUME NEW v \in {"passed", "failed"}, ValidationRun(a, v) PROVE DutyParts'
    <2>1. task'.plan = task.plan /\ task'.review = task.review /\ NoNewDecider
      BY <1>4, <1>t DEF ValidationRun, TaskRecord, NoNewDecider
    <2> QED BY <2>1, QuietDuty
  <1>5. ASSUME NEW d \in {"approved", "rejected"}, PlanDecide(a, d) PROVE DutyParts'
    <2>1. /\ task' = task /\ task.plan.proposedBy # a /\ proc'[a].pc = "decidePlan"
          /\ \A b \in Agent \ {a} : proc'[b] = proc[b]
      BY <1>5, <1>i, GotoMoves DEF PlanDecide, OwnPlan
    <2> QED BY <2>1 DEF DutyInv, DutyParts, SeparationOfDuties, Deciding
  <1>6. CASE AppendPlanDecision(a)
    <2>1. NoNewDecider /\ proc[a].pc = "decidePlan"
      BY <1>6, <1>i, ReturnDecider DEF AppendPlanDecision
    <2>2. task'.review = task.review
      BY <1>6, <1>t DEF AppendPlanDecision, TaskRecord
    <2>3. task'.plan.proposedBy = task.plan.proposedBy
          /\ task'.plan.decidedBy \in {a, task.plan.decidedBy}
      BY <1>6, <1>t DEF AppendPlanDecision, TaskRecord, Plan
    <2> QED BY <2>1, <2>2, <2>3 DEF DutyInv, DutyParts, SeparationOfDuties, Deciding, NoNewDecider
  <1>7. CASE ReviewRequest(a)
    <2>1. NoNewDecider /\ task' = task
      BY <1>7, <1>i, GotoDecider DEF ReviewRequest
    <2> QED BY <2>1, QuietDuty
  <1>8. CASE AppendRiskClassified(a)
    <2>1. task'.plan = task.plan /\ task'.review = task.review
      BY <1>8, <1>t DEF AppendRiskClassified, TaskRecord
    <2>2. NoNewDecider
      BY <1>8, <1>i, GotoDecider DEF AppendRiskClassified
    <2> QED BY <2>1, <2>2, QuietDuty
  <1>9. CASE AppendReviewRequested(a)
    <2>1. /\ task'.review = [state |-> "requested", requestedBy |-> a, decidedBy |-> None]
          /\ task'.plan = task.plan
      BY <1>9, <1>t DEF AppendReviewRequested, TaskRecord
    <2>2. NoNewDecider /\ proc'[a].pc # "decideReview"
      BY <1>9, <1>i, ReturnDecider DEF AppendReviewRequested
    <2> QED BY <2>1, <2>2 DEF DutyInv, DutyParts, SeparationOfDuties, Deciding, NoNewDecider
  <1>10. ASSUME NEW d \in {"approved", "changes_requested"}, ReviewDecide(a, d) PROVE DutyParts'
    <2>1. /\ task' = task /\ task.review.requestedBy # a /\ proc'[a].pc = "decideReview"
          /\ \A b \in Agent \ {a} : proc'[b] = proc[b]
      BY <1>10, <1>i, GotoMoves DEF ReviewDecide
    <2> QED BY <2>1 DEF DutyInv, DutyParts, SeparationOfDuties, Deciding
  <1>11. CASE AppendReviewDecided(a)
    <2>1. NoNewDecider /\ proc[a].pc = "decideReview"
      BY <1>11, <1>i, ReturnDecider DEF AppendReviewDecided
    <2>2. /\ task'.plan = task.plan
          /\ task'.review.requestedBy = task.review.requestedBy
          /\ task'.review.decidedBy = a
      BY <1>11, <1>t DEF AppendReviewDecided, TaskRecord, Review
    <2> QED BY <2>1, <2>2 DEF DutyInv, DutyParts, SeparationOfDuties, Deciding, NoNewDecider
  <1>12. ASSUME NEW s \in Target, TaskUpdate(a, s) PROVE DutyParts'
    <2>1. task' = task
      BY <1>12 DEF TaskUpdate
    <2>2. NoNewDecider
      BY <1>12, <1>i, GotoDecider, CheckedUpdateMoves DEF TaskUpdate, NoNewDecider
    <2> QED BY <2>1, <2>2, QuietDuty
  <1>13. CASE PolicyVerdict(a)
    <2>1. NoNewDecider /\ task' = task
      BY <1>13, <1>i, ReturnDecider, CheckedUpdateMoves DEF PolicyVerdict, NoNewDecider
    <2> QED BY <2>1, QuietDuty
  <1>14. CASE MergeRead(a)
    <2>1. ASSUME proc' = [proc EXCEPT ![a].pc = "updateRef", ![a].seenTip = tip,
                                      ![a].seen = landed]
          PROVE  NoNewDecider
      BY <2>1, <1>i DEF NoNewDecider, TypeInv, TypeOK, Proc
    <2>2. NoNewDecider /\ task' = task
      BY <1>14, <1>i, <2>1, ReturnDecider, GotoDecider DEF MergeRead
    <2> QED BY <2>2, QuietDuty
  <1>15. CASE UpdateRef(a)
    <2>1. NoNewDecider /\ task' = task
      BY <1>15, <1>i, ReturnDecider, GotoDecider DEF UpdateRef
    <2> QED BY <2>1, QuietDuty
  <1>16. CASE AppendIntegration(a)
    <2>1. task'.plan = task.plan /\ task'.review = task.review
      BY <1>16, <1>t DEF AppendIntegration, TaskRecord
    <2>2. NoNewDecider
      BY <1>16, <1>i, GotoDecider DEF AppendIntegration
    <2> QED BY <2>1, <2>2, QuietDuty
  <1>17. CASE AppendStatus(a)
    <2>1. task'.plan = task.plan /\ task'.review = task.review
      BY <1>17, <1>t DEF AppendStatus, TaskRecord
    <2>2. NoNewDecider
      BY <1>17, <1>i, GotoDecider, ReturnDecider DEF AppendStatus
    <2> QED BY <2>1, <2>2, QuietDuty
  <1>18. CASE CreateWorktree(a) \/ RemoveWorktree(a)
    <2>1. NoNewDecider /\ task' = task
      BY <1>18, <1>i, GotoDecider, ReturnDecider DEF CreateWorktree, RemoveWorktree
    <2> QED BY <2>1, QuietDuty
  <1>19. CASE AppendWorktree(a)
    <2>1. task'.plan = task.plan /\ task'.review = task.review
      BY <1>19, <1>t DEF AppendWorktree, TaskRecord
    <2>2. NoNewDecider
      BY <1>19, <1>i, ReturnDecider DEF AppendWorktree
    <2> QED BY <2>1, <2>2, QuietDuty
  <1>20. CASE Push
    <2>1. NoNewDecider /\ task' = task
      BY <1>20 DEF Push, NoNewDecider
    <2> QED BY <2>1, QuietDuty
  <1>21. CASE Kill(a)
    <2>1. NoNewDecider /\ task' = task
      BY <1>21, <1>i, ReturnDecider DEF Kill
    <2> QED BY <2>1, QuietDuty
  <1> QED BY <1>1, <1>2, <1>3, <1>4, <1>5, <1>6, <1>7, <1>8, <1>9, <1>10, <1>11, <1>12, <1>13,
             <1>14, <1>15, <1>16, <1>17, <1>18, <1>19, <1>20, <1>21 DEF StepOf

(* Nobody decides on their own plan or their own work, though the check    *)
(* and the event it allows are two steps.                                  *)
THEOREM DutiesAreSeparate == Spec => []SeparationOfDuties
  <1>1. Init => DutyParts
    BY DEF Init, DutyParts, SeparationOfDuties, Deciding, NoTask, NoPlan, NoReview, Idle
  <1>2. DutyParts /\ UNCHANGED vars => DutyParts'
    BY DEF vars, DutyParts, SeparationOfDuties, Deciding
  <1>3. TypeInv /\ DutyParts /\ [Next]_vars => DutyParts'
    BY <1>2, DutyNext DEF DutyInv
  <1>4. Spec => []DutyParts
    BY <1>1, <1>3, TypeAlways, PTL DEF Spec
  <1> QED BY <1>4, PTL DEF DutyParts

-----------------------------------------------------------------------------
(* The CI gate.  A process that carries merge_ready or done to its status  *)
(* event passed the gate, found the task past testing already, or found no *)
(* task at all.                                                            *)

Late == {"merge_ready", "done"}

Excused == passed \/ orphan

TestedParts ==
    /\ task.test = "passed" => passed
    /\ Initial \cap Late = {} =>
         /\ task.status \in Late => Excused
         /\ \A a \in Agent :
               proc[a].pc \in {"merge", "updateRef", "record", "status"} /\ proc[a].arg \in Late
                   => Excused

TestedInv == TypeInv /\ TestedParts

(* A process that carries no late status.                                  *)
Early(q) == q.pc \in {"merge", "updateRef", "record", "status"} => q.arg \notin Late

LEMMA LateTransitions ==
  /\ \A from \in Status : "merge_ready" \in AllowedTransitions[from] => from = "testing"
  /\ \A from \in Status : "done" \in AllowedTransitions[from] => from = "merge_ready"
  BY StatusSet DEF AllowedTransitions

LEMMA QuietTested ==
  ASSUME TestedInv, passed => passed', orphan => orphan',
         task'.test = "passed" => task.test = "passed" \/ passed',
         task'.status \in Late => task.status \in Late \/ task'.status \in Initial,
         \A b \in Agent : proc'[b] = proc[b] \/ Early(proc'[b])
  PROVE  TestedParts'
  BY DEF TestedInv, TestedParts, Excused, Early

LEMMA ReturnEarly ==
  ASSUME TypeInv, NEW a \in Agent, Return(a)
  PROVE  \A b \in Agent : proc'[b] = proc[b] \/ Early(proc'[b])
  BY ReturnMoves DEF Early

LEMMA GotoEarly ==
  ASSUME TypeInv, NEW a \in Agent, NEW pc, NEW arg, NEW out, Goto(a, pc, arg, out),
         pc \notin {"merge", "updateRef", "record", "status"}
  PROVE  \A b \in Agent : proc'[b] = proc[b] \/ Early(proc'[b])
  BY GotoMoves DEF Early

LEMMA BegunTested ==
  ASSUME NEW t \in TaskRecord
  PROVE  Begun(t).test = t.test /\ (Begun(t).status \in Late => t.status \in Late)
  BY DEF Begun, TaskRecord, Late

(* Passing the checks with a late status is excused.                       *)
LEMMA CheckedTested ==
  ASSUME TestedInv, NEW a \in Agent, NEW s \in Status, CheckedUpdate(a, s),
         task' = task, passed' = passed
  PROVE  TestedParts'
  <1>m. /\ proc'[a].arg = s
        /\ \A b \in Agent \ {a} : proc'[b] = proc[b]
        /\ orphan' = (orphan \/ task.status = "absent")
    BY CheckedUpdateMoves DEF TestedInv
  <1>1. ASSUME Initial \cap Late = {}, s \in Late PROVE Excused'
    <2>1. task.status = "absent" \/ task.status = s \/ s \in AllowedTransitions[task.status]
      BY DEF CheckedUpdate, MayMove, ValidTransition
    <2>2. CASE task.status = "absent"
      BY <2>2, <1>m DEF Excused
    <2>3. CASE task.status = s
      BY <2>3, <1>1, <1>m DEF TestedInv, TestedParts, Excused
    <2>4. CASE task.status # "absent" /\ s \in AllowedTransitions[task.status]
      <3>1. task.status \in Status
        BY <2>4 DEF TestedInv, TypeInv, TypeOK, TaskRecord
      <3>2. CASE s = "merge_ready"
        <4>1. task.status = "testing"
          BY <2>4, <3>1, <3>2, LateTransitions
        <4>2. task.test = "passed"
          BY <4>1, <3>2 DEF CheckedUpdate, MayMove, Tested
        <4> QED BY <4>2 DEF TestedInv, TestedParts, Excused
      <3>3. CASE s = "done"
        <4>1. task.status \in Late
          BY <2>4, <3>1, <3>3, LateTransitions DEF Late
        <4> QED BY <4>1, <1>1, <1>m DEF TestedInv, TestedParts, Excused
      <3> QED BY <1>1, <3>2, <3>3 DEF Late
    <2> QED BY <2>1, <2>2, <2>3, <2>4
  <1>2. orphan => orphan'
    BY <1>m
  <1> QED BY <1>1, <1>2, <1>m DEF TestedInv, TestedParts, Excused

LEMMA TestedNext == TestedInv /\ Next => TestedParts'
  <1> SUFFICES ASSUME TestedInv, NEW a \in Agent, StepOf(a)
               PROVE  TestedParts'
    BY NextSteps
  <1> USE DEF git
  <1>i. TypeInv
    BY DEF TestedInv
  <1>t. /\ task \in TaskRecord /\ Begun(task) \in TaskRecord
        /\ Begun(task).test = task.test
        /\ Begun(task).status \in Late => task.status \in Late
    BY <1>i, BegunType, BegunTested DEF TypeInv, TypeOK
  <1>1. ASSUME NEW s \in Initial, NEW c \in Creation, TaskCreate(a, s, c) PROVE TestedParts'
    <2>1. task'.test = task.test /\ task'.status \in Initial
      BY <1>1, <1>t DEF TaskCreate, TaskRecord
    <2>2. passed' = passed /\ orphan' = orphan /\ proc' = proc
      BY <1>1 DEF TaskCreate
    <2> QED BY <2>1, <2>2, QuietTested
  <1>2. CASE PlanPropose(a) \/ HumanApprove(a)
    <2>1. task'.test = task.test /\ task'.status = Begun(task).status
      BY <1>2, <1>t DEF PlanPropose, HumanApprove, TaskRecord
    <2>2. passed' = passed /\ orphan' = orphan /\ proc' = proc
      BY <1>2 DEF PlanPropose, HumanApprove
    <2> QED BY <2>1, <2>2, <1>t, QuietTested
  <1>3. ASSUME NEW v \in {"passed", "failed"}, ValidationRun(a, v) PROVE TestedParts'
    <2>1. task'.test = v /\ task'.status = Begun(task).status
      BY <1>3, <1>t DEF ValidationRun, TaskRecord
    <2>2. passed' = (passed \/ v = "passed") /\ orphan' = orphan /\ proc' = proc
      BY <1>3 DEF ValidationRun
    <2> QED BY <2>1, <2>2, <1>t, QuietTested
  <1>4. CASE \/ \E d \in {"approved", "rejected"} : PlanDecide(a, d)
             \/ \E d \in {"approved", "changes_requested"} : ReviewDecide(a, d)
             \/ ReviewRequest(a) \/ CreateWorktree(a) \/ RemoveWorktree(a) \/ Kill(a)
    <2>1. passed' = passed /\ orphan' = orphan /\ task' = task
      BY <1>4 DEF PlanDecide, ReviewDecide, ReviewRequest, CreateWorktree, RemoveWorktree, Kill
    <2>2. \A b \in Agent : proc'[b] = proc[b] \/ Early(proc'[b])
      BY <1>4, <1>i, ReturnEarly, GotoEarly
         DEF PlanDecide, ReviewDecide, ReviewRequest, CreateWorktree, RemoveWorktree, Kill
    <2> QED BY <2>1, <2>2, QuietTested
  <1>5. CASE AppendPlanDecision(a) \/ AppendReviewRequested(a) \/ AppendWorktree(a)
    <2>1. passed' = passed /\ orphan' = orphan /\ Return(a)
      BY <1>5 DEF AppendPlanDecision, AppendReviewRequested, AppendWorktree
    <2>2. task'.test = task.test /\ task'.status \in {task.status, Begun(task).status}
      BY <1>5, <1>t DEF AppendPlanDecision, AppendReviewRequested, AppendWorktree, TaskRecord
    <2> QED BY <2>1, <2>2, <1>i, <1>t, ReturnEarly, QuietTested
  <1>6. CASE AppendReviewDecided(a)
    <2>1. passed' = passed /\ orphan' = orphan /\ Return(a)
      BY <1>6 DEF AppendReviewDecided
    <2>2. task'.test = task.test /\ task'.status \in {"pending", Begun(task).status}
      BY <1>6, <1>t DEF AppendReviewDecided, TaskRecord
    <2> QED BY <2>1, <2>2, <1>i, <1>t, ReturnEarly, QuietTested DEF Late
  <1>7. CASE AppendRiskClassified(a)
    <2>1. passed' = passed /\ orphan' = orphan
      BY <1>7 DEF AppendRiskClassified
    <2>2. task'.test = task.test /\ task'.status = Begun(task).status
      BY <1>7, <1>t DEF AppendRiskClassified, TaskRecord
    <2>3. \A b \in Agent : proc'[b] = proc[b] \/ Early(proc'[b])
      BY <1>7, <1>i, GotoEarly DEF AppendRiskClassified
    <2> QED BY <2>1, <2>2, <2>3, <1>t, QuietTested
  <1>8. ASSUME NEW s \in Target, TaskUpdate(a, s) PROVE TestedParts'
    <2>1. task' = task /\ passed' = passed
      BY <1>8 DEF TaskUpdate
    <2>2. CASE CheckedUpdate(a, s)
      BY <2>1, <2>2, CheckedTested
    <2>3. CASE Goto(a, "policy", s, "none") /\ orphan' = orphan
      BY <2>1, <2>3, <1>i, GotoEarly, QuietTested
    <2> QED BY <1>8, <2>2, <2>3 DEF TaskUpdate
  <1>9. CASE PolicyVerdict(a)
    <2>1. task' = task /\ passed' = passed /\ proc[a].arg \in Status
      BY <1>9, <1>i DEF PolicyVerdict, TypeInv, StepOK
    <2>2. CASE CheckedUpdate(a, proc[a].arg)
      BY <2>1, <2>2, CheckedTested
    <2>3. CASE Return(a) /\ orphan' = orphan
      BY <2>1, <2>3, <1>i, ReturnEarly, QuietTested
    <2> QED BY <1>9, <2>2, <2>3 DEF PolicyVerdict
  <1>10. CASE MergeRead(a) \/ UpdateRef(a)
    <2>1. task' = task /\ passed' = passed /\ orphan' = orphan
      BY <1>10 DEF MergeRead, UpdateRef
    <2>2. /\ proc[a].pc \in {"merge", "updateRef"}
          /\ proc'[a].arg = proc[a].arg \/ proc'[a].pc = "idle"
          /\ \A b \in Agent \ {a} : proc'[b] = proc[b]
      <3>1. CASE proc' = [proc EXCEPT ![a].pc = "updateRef", ![a].seenTip = tip,
                                      ![a].seen = landed]
        BY <1>10, <3>1, <1>i DEF MergeRead, UpdateRef, TypeInv, TypeOK, Proc
      <3>2. CASE \/ Return(a) \/ Goto(a, "record", proc[a].arg, "skipped")
                 \/ Goto(a, "record", proc[a].arg, "merged")
        BY <1>10, <3>2, <1>i, GotoMoves, ReturnMoves DEF MergeRead, UpdateRef
      <3> QED BY <1>10, <3>1, <3>2 DEF MergeRead, UpdateRef
    <2> QED BY <2>1, <2>2 DEF TestedInv, TestedParts, Excused
  <1>11. CASE AppendIntegration(a)
    <2>1. /\ task'.test = task.test /\ task'.status = Begun(task).status
          /\ passed' = passed /\ orphan' = orphan /\ proc[a].pc = "record"
      BY <1>11, <1>t DEF AppendIntegration, TaskRecord
    <2>2. proc'[a].arg = proc[a].arg /\ \A b \in Agent \ {a} : proc'[b] = proc[b]
      BY <1>11, <1>i, GotoMoves DEF AppendIntegration
    <2> QED BY <2>1, <2>2, <1>t DEF TestedInv, TestedParts, Excused
  <1>12. CASE AppendStatus(a)
    <2>1. /\ task'.test = task.test /\ task'.status = proc[a].arg
          /\ passed' = passed /\ orphan' = orphan /\ proc[a].pc = "status"
      BY <1>12, <1>t DEF AppendStatus, TaskRecord
    <2>2. \A b \in Agent : proc'[b] = proc[b] \/ Early(proc'[b])
      BY <1>12, <1>i, ReturnEarly, GotoEarly DEF AppendStatus
    <2> QED BY <2>1, <2>2 DEF TestedInv, TestedParts, Excused, Early
  <1>13. CASE Push
    <2>1. passed' = passed /\ orphan' = orphan /\ task' = task /\ proc' = proc
      BY <1>13 DEF Push
    <2> QED BY <2>1, QuietTested
  <1> QED BY <1>1, <1>2, <1>3, <1>4, <1>5, <1>6, <1>7, <1>8, <1>9, <1>10, <1>11, <1>12, <1>13
          DEF StepOf

(* A task is past testing only if its tests passed some time (or it was    *)
(* never created and so could be started anywhere), in whatever order the  *)
(* updates of several processes were checked and appended.                 *)
THEOREM NothingUntested == Spec => []TestedBeforeMergeReady
  <1>1. Init => TestedParts
    BY DEF Init, TestedParts, NoTask, Idle, Late
  <1>2. TestedParts /\ UNCHANGED vars => TestedParts'
    BY DEF vars, TestedParts, Excused
  <1>3. TypeInv /\ TestedParts /\ [Next]_vars => TestedParts'
    BY <1>2, TestedNext DEF TestedInv
  <1>4. Spec => []TestedParts
    BY <1>1, <1>3, TypeAlways, PTL DEF Spec
  <1>5. TestedParts => TestedBeforeMergeReady
    BY DEF TestedParts, TestedBeforeMergeReady, Late, Excused
  <1> QED BY <1>4, <1>5, PTL

-----------------------------------------------------------------------------
(***************************************************************************)
(* The base branch loses nothing, and the board records a merge only of    *)
(* work that is there.                                                     *)
(***************************************************************************)

(* The base branch.  A merge in progress has read the branch at seenTip;   *)
(* the tip only grows, and while it is still seenTip the branch is still   *)
(* what was read, so the compare-and-swap of update-ref loses nothing.     *)

ReadOK(q) ==
    /\ q.pc = "updateRef" => q.seenTip <= tip /\ (q.seenTip = tip => q.seen = landed)
    /\ q.pc = "record" /\ q.out = "merged" => "work" \in landed

BaseParts == IntegrationIsHonest /\ \A a \in Agent : ReadOK(proc[a])

BaseInv == TypeInv /\ BaseParts

Grows == landed \subseteq landed'

(* A process that neither holds a read of the base nor reports a merge.    *)
Plain(q) == q.pc # "updateRef" /\ ~(q.pc = "record" /\ q.out = "merged")

LEMMA QuietBase ==
  ASSUME BaseInv, landed' = landed, tip' = tip, task'.integration = task.integration,
         \A b \in Agent : proc'[b] = proc[b] \/ Plain(proc'[b])
  PROVE  BaseParts' /\ Grows
  BY DEF BaseInv, BaseParts, IntegrationIsHonest, ReadOK, Plain, Grows

LEMMA ReturnPlain ==
  ASSUME TypeInv, NEW a \in Agent, Return(a)
  PROVE  \A b \in Agent : proc'[b] = proc[b] \/ Plain(proc'[b])
  BY ReturnMoves DEF Plain

LEMMA GotoPlain ==
  ASSUME TypeInv, NEW a \in Agent, NEW pc, NEW arg, NEW out, Goto(a, pc, arg, out),
         pc # "updateRef", out # "merged"
  PROVE  \A b \in Agent : proc'[b] = proc[b] \/ Plain(proc'[b])
  BY GotoMoves DEF Plain

LEMMA CheckedPlain ==
  ASSUME TypeInv, NEW a \in Agent, NEW s, CheckedUpdate(a, s)
  PROVE  \A b \in Agent : proc'[b] = proc[b] \/ Plain(proc'[b])
  BY CheckedUpdateMoves DEF Plain

LEMMA BegunIntegration ==
  ASSUME NEW t \in TaskRecord
  PROVE  Begun(t).integration = t.integration
  BY DEF Begun, TaskRecord

(* A step that moves the tip on invalidates every other read.              *)
LEMMA TipMoves ==
  ASSUME BaseInv, tip' = tip + 1, Grows, task' = task,
         \A b \in Agent : \/ proc'[b] = proc[b]
                          \/ proc'[b].pc # "updateRef" /\ "work" \in landed'
  PROVE  BaseParts'
  <1>1. tip \in Nat /\ \A b \in Agent : proc[b].seenTip \in Nat
    BY DEF BaseInv, TypeInv, TypeOK, Proc
  <1>2. ASSUME NEW b \in Agent PROVE ReadOK(proc[b])'
    BY <1>1 DEF BaseInv, BaseParts, ReadOK, Grows
  <1>3. IntegrationIsHonest'
    BY DEF BaseInv, BaseParts, IntegrationIsHonest, Grows
  <1> QED BY <1>2, <1>3 DEF BaseParts

LEMMA MergeReadBase ==
  ASSUME BaseInv, NEW a \in Agent, MergeRead(a)
  PROVE  BaseParts' /\ Grows
  <1>1. landed' = landed /\ tip' = tip /\ task' = task /\ tip \in Nat
    BY DEF MergeRead, git, BaseInv, TypeInv, TypeOK
  <1>2. CASE proc' = [proc EXCEPT ![a].pc = "updateRef", ![a].seenTip = tip, ![a].seen = landed]
    <2>1. /\ proc'[a].pc = "updateRef" /\ proc'[a].seenTip = tip /\ proc'[a].seen = landed
          /\ \A b \in Agent \ {a} : proc'[b] = proc[b]
      BY <1>2 DEF BaseInv, TypeInv, TypeOK, Proc
    <2> QED BY <1>1, <2>1 DEF BaseInv, BaseParts, IntegrationIsHonest, ReadOK, Grows
  <1>3. CASE Return(a) \/ Goto(a, "record", proc[a].arg, "skipped")
    BY <1>1, <1>3, ReturnPlain, GotoPlain, QuietBase DEF BaseInv
  <1> QED BY <1>2, <1>3 DEF MergeRead

LEMMA UpdateRefBase ==
  ASSUME BaseInv, NEW a \in Agent, UpdateRef(a)
  PROVE  BaseParts' /\ Grows
  <1>1. CASE tip = proc[a].seenTip
    <2>1. landed' = proc[a].seen \cup {"work"} /\ tip' = tip + 1 /\ task' = task
      BY <1>1 DEF UpdateRef
    <2>2. proc[a].seen = landed
      BY <1>1 DEF UpdateRef, BaseInv, BaseParts, ReadOK
    <2>3. proc'[a].pc = "record" /\ \A b \in Agent \ {a} : proc'[b] = proc[b]
      BY <1>1, GotoMoves DEF UpdateRef, BaseInv
    <2>4. Grows
      BY <2>1, <2>2 DEF Grows
    <2>5. \A b \in Agent : \/ proc'[b] = proc[b]
                           \/ proc'[b].pc # "updateRef" /\ "work" \in landed'
      BY <2>1, <2>3
    <2> QED BY <2>1, <2>4, <2>5, TipMoves
  <1>2. CASE tip # proc[a].seenTip
    <2>1. landed' = landed /\ tip' = tip /\ task' = task /\ Return(a)
      BY <1>2 DEF UpdateRef
    <2> QED BY <2>1, ReturnPlain, QuietBase DEF BaseInv
  <1> QED BY <1>1, <1>2

LEMMA BaseNext == BaseInv /\ Next => BaseParts' /\ Grows
  <1> SUFFICES ASSUME BaseInv, NEW a \in Agent, StepOf(a)
               PROVE  BaseParts' /\ Grows
    BY NextSteps
  <1> USE DEF git
  <1>i. TypeInv
    BY DEF BaseInv
  <1>t. /\ task \in TaskRecord /\ Begun(task) \in TaskRecord
        /\ Begun(task).integration = task.integration
    BY <1>i, BegunType, BegunIntegration DEF TypeInv, TypeOK
  <1>1. CASE \/ \E s \in Initial, c \in Creation : TaskCreate(a, s, c)
             \/ PlanPropose(a) \/ HumanApprove(a)
             \/ \E v \in {"passed", "failed"} : ValidationRun(a, v)
    <2>1. landed' = landed /\ tip' = tip /\ proc' = proc
      BY <1>1 DEF TaskCreate, PlanPropose, HumanApprove, ValidationRun
    <2>2. task'.integration = task.integration
      BY <1>1, <1>t DEF TaskCreate, PlanPropose, HumanApprove, ValidationRun, TaskRecord
    <2> QED BY <2>1, <2>2, QuietBase
  <1>2. CASE \/ \E d \in {"approved", "rejected"} : PlanDecide(a, d)
             \/ \E d \in {"approved", "changes_requested"} : ReviewDecide(a, d)
             \/ ReviewRequest(a) \/ CreateWorktree(a) \/ RemoveWorktree(a) \/ Kill(a)
    <2>1. landed' = landed /\ tip' = tip /\ task' = task
      BY <1>2 DEF PlanDecide, ReviewDecide, ReviewRequest, CreateWorktree, RemoveWorktree, Kill
    <2>2. \A b \in Agent : proc'[b] = proc[b] \/ Plain(proc'[b])
      BY <1>2, <1>i, ReturnPlain, GotoPlain
         DEF PlanDecide, ReviewDecide, ReviewRequest, CreateWorktree, RemoveWorktree, Kill
    <2> QED BY <2>1, <2>2, QuietBase
  <1>3. CASE \/ AppendPlanDecision(a) \/ AppendReviewRequested(a) \/ AppendReviewDecided(a)
             \/ AppendWorktree(a)
    <2>1. landed' = landed /\ tip' = tip /\ Return(a)
      BY <1>3 DEF AppendPlanDecision, AppendReviewRequested, AppendReviewDecided, AppendWorktree
    <2>2. task'.integration = task.integration
      BY <1>3, <1>t DEF AppendPlanDecision, AppendReviewRequested, AppendReviewDecided,
                        AppendWorktree, TaskRecord
    <2> QED BY <2>1, <2>2, <1>i, ReturnPlain, QuietBase
  <1>4. CASE AppendRiskClassified(a) \/ AppendStatus(a)
    <2>1. landed' = landed /\ tip' = tip
      BY <1>4 DEF AppendRiskClassified, AppendStatus
    <2>2. task'.integration = task.integration
      BY <1>4, <1>t DEF AppendRiskClassified, AppendStatus, TaskRecord
    <2>3. \A b \in Agent : proc'[b] = proc[b] \/ Plain(proc'[b])
      BY <1>4, <1>i, ReturnPlain, GotoPlain DEF AppendRiskClassified, AppendStatus
    <2> QED BY <2>1, <2>2, <2>3, QuietBase
  <1>5. CASE PolicyVerdict(a) \/ \E s \in Target : TaskUpdate(a, s)
    <2>1. landed' = landed /\ tip' = tip /\ task' = task
      BY <1>5 DEF PolicyVerdict, TaskUpdate
    <2>2. \A b \in Agent : proc'[b] = proc[b] \/ Plain(proc'[b])
      BY <1>5, <1>i, ReturnPlain, GotoPlain, CheckedPlain DEF PolicyVerdict, TaskUpdate
    <2> QED BY <2>1, <2>2, QuietBase
  <1>6. CASE AppendIntegration(a)
    <2>1. landed' = landed /\ tip' = tip /\ task'.integration = proc[a].out
      BY <1>6, <1>t DEF AppendIntegration, TaskRecord
    <2>2. proc[a].pc = "record" /\ \A b \in Agent : proc'[b] = proc[b] \/ Plain(proc'[b])
      BY <1>6, <1>i, GotoPlain DEF AppendIntegration
    <2> QED BY <2>1, <2>2 DEF BaseInv, BaseParts, IntegrationIsHonest, ReadOK, Plain, Grows
  <1>7. CASE Push
    <2>1. tip' = tip + 1 /\ task' = task /\ proc' = proc /\ Grows
      BY <1>7 DEF Push, Grows
    <2> QED BY <2>1, TipMoves
  <1> QED BY <1>1, <1>2, <1>3, <1>4, <1>5, <1>6, <1>7, MergeReadBase, UpdateRefBase DEF StepOf

LEMMA BaseAlways == Spec => []BaseInv
  <1>1. Init => BaseParts
    BY DEF Init, BaseParts, IntegrationIsHonest, ReadOK, NoTask, Idle
  <1>2. BaseParts /\ UNCHANGED vars => BaseParts'
    BY DEF vars, BaseParts, IntegrationIsHonest, ReadOK
  <1>3. TypeInv /\ BaseParts /\ [Next]_vars => BaseParts'
    BY <1>2, BaseNext DEF BaseInv
  <1> QED BY <1>1, <1>3, TypeAlways, PTL DEF Spec, BaseInv

(* The board says `merged` only of work that is on the base branch.        *)
THEOREM MergeIsHonest == Spec => []IntegrationIsHonest
  BY BaseAlways, PTL DEF BaseInv, BaseParts

(* What the base branch contains stays in it, whoever integrates or pushes *)
(* at the same time and whoever is killed on the way.                      *)
THEOREM BaseIsKept == Spec => BaseKeepsWork
  <1>1. BaseInv /\ [Next]_vars => [Grows]_vars
    BY BaseNext
  <1>2. Spec => [][Grows]_vars
    BY <1>1, BaseAlways, PTL DEF Spec
  <1>3. [Grows]_vars => [landed \subseteq landed']_vars
    BY DEF Grows
  <1> QED BY <1>2, <1>3, PTL DEF BaseKeepsWork

=============================================================================
