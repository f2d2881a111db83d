------------------------------ MODULE TaskBoard ------------------------------
(***************************************************************************)
(* One task on the shared board and the git state its gates guard.  Every  *)
(* agent's MCP child, and the main sidecar, run their own LocalToolFacade  *)
(* over the same SQLite file and the same repository, so a tool call is    *)
(* several steps: it reads the projected task, decides, and appends, and   *)
(* any other process may act between two of them.  A process runs one call *)
(* at a time (handlers are synchronous, but for the branch-protection      *)
(* query, which is a step of its own).                                     *)
(*                                                                         *)
(* The board is event sourced: `task` is projectTask of the events so far, *)
(* and an append applies its event.  Left out: events that only carry data *)
(* no guard reads (assignment, comments, the files of a plan), reviewState *)
(* (read by no gate), and retries under an idempotency key already used.   *)
(* Events are replayed in the order of their appends (createdAt).          *)
(*                                                                         *)
(* Bound: MaxTips commits on the base branch made by integrations.         *)
(***************************************************************************)
EXTENDS Naturals

CONSTANTS
    Agent,      \* the agents, each calling through a process of its own
    RoleOf,     \* actor.role of each
    Initial,    \* the statuses tasks are created in
    Creation,   \* baseBranch given, requiresHumanApproval: what tasks are created with
    Target,     \* the statuses callers ask task_update for
    MaxTips,
    None        \* "nobody"

Role == {"lead", "human", "architect", "developer", "reviewer", "tester"}

AllowedTransitions ==
    [backlog     |-> {"ready", "rejected"},
     ready       |-> {"planned", "blocked"},
     planned     |-> {"in_progress", "blocked"},
     in_progress |-> {"review", "blocked", "completed"},
     review      |-> {"testing", "in_progress", "rejected"},
     testing     |-> {"merge_ready", "in_progress", "blocked"},
     merge_ready |-> {"done", "in_progress"},
     blocked     |-> {"ready", "planned", "in_progress"},
     done        |-> {},
     rejected    |-> {"backlog"},
     pending     |-> {"ready", "in_progress", "rejected", "blocked", "completed"},
     completed   |-> {},
     deleted     |-> {"backlog"}]

Status == DOMAIN AllowedTransitions

ASSUME TaskAssumption ==
    /\ RoleOf \in [Agent -> Role]
    /\ Initial \subseteq Status
    /\ Creation \subseteq BOOLEAN \X BOOLEAN
    /\ Target \subseteq Status
    /\ MaxTips \in Nat
    /\ None \notin Agent

VARIABLES
    task,       \* getTask: the projection of the task's events
    dir,        \* the worktree directory is on disk
    branch,     \* the task branch exists
    landed,     \* what the base branch contains: "work" (the task's) and "push"
    tip,        \* the commit the base branch points to, numbered
    proc,       \* the call each agent's process is in
    passed,     \* history: some test verdict was `passed`
    orphan      \* history: some update found no task, and could start it anywhere

vars == <<task, dir, branch, landed, tip, proc, passed, orphan>>

-----------------------------------------------------------------------------
Someone == Agent \cup {None}

Plan == [state : {"none", "proposed", "approved", "rejected"},
         proposedBy : Someone, decidedBy : Someone]

Review == [state : {"none", "requested", "decided"},
           requestedBy : Someone, decidedBy : Someone]

NoPlan == [state |-> "none", proposedBy |-> None, decidedBy |-> None]

NoReview == [state |-> "none", requestedBy |-> None, decidedBy |-> None]

TaskRecord == [status : Status \cup {"absent"},
               plan : Plan,
               review : Review,
               worktree : {"none", "created", "skipped", "removed"},
               test : {"none", "passed", "failed"},   \* latestValidation.test
               based : BOOLEAN,                       \* baseBranch is set
               needsHuman : BOOLEAN,                  \* requiresHumanApproval
               approved : BOOLEAN,                    \* humanApproval.approved
               integration : {"none", "merged", "skipped"}]

NoTask == [status |-> "absent", plan |-> NoPlan, review |-> NoReview, worktree |-> "none",
           test |-> "none", based |-> FALSE, needsHuman |-> FALSE, approved |-> FALSE,
           integration |-> "none"]

(* A process between two steps of a call: `pc` is the step it takes next,  *)
(* `arg` the status or decision the call carries, `out` what git answered, *)
(* `seen` and `seenTip` the base branch as its merge read it.              *)
Idle == [pc |-> "idle", arg |-> "none", out |-> "none", seenTip |-> 0, seen |-> {}]

Change == {"work", "push"}

Proc == [pc : {"idle", "decidePlan", "classify", "request", "decideReview", "policy",
               "merge", "updateRef", "record", "status", "worktree", "recordWorktree"},
         arg : Status \cup {"none", "approved", "changes_requested"},
         out : {"none", "merged", "skipped", "created", "removed"},
         seenTip : 0..MaxTips,
         seen : SUBSET Change]

TypeOK ==
    /\ task \in TaskRecord
    /\ dir \in BOOLEAN
    /\ branch \in BOOLEAN
    /\ landed \subseteq Change
    /\ tip \in 0..MaxTips
    /\ proc \in [Agent -> Proc]
    /\ passed \in BOOLEAN
    /\ orphan \in BOOLEAN

Init ==
    /\ task = NoTask
    /\ dir = FALSE
    /\ branch = FALSE
    /\ landed = {}
    /\ tip = 0
    /\ proc = [a \in Agent |-> Idle]
    /\ passed = FALSE
    /\ orphan = FALSE

-----------------------------------------------------------------------------
(* What each role may call (roleAuthority), of the tools modelled here.    *)
RoleTools ==
    LET all == {"task_create", "task_update", "review_request", "review_decide",
                "validation_run", "task_plan_propose", "task_plan_decide",
                "task_human_approve"}
    IN  [lead      |-> all,
         human     |-> all,
         architect |-> all \ {"validation_run", "task_human_approve"},
         developer |-> {"task_update", "review_request", "validation_run",
                        "task_plan_propose"},
         reviewer  |-> {"review_decide"},
         tester    |-> {"task_update", "validation_run"}]

(* An idle process whose role may call the tool.                           *)
Calls(a, tool) == proc[a].pc = "idle" /\ tool \in RoleTools[RoleOf[a]]

Goto(a, pc, arg, out) ==
    proc' = [proc EXCEPT ![a] = [Idle EXCEPT !.pc = pc, !.arg = arg, !.out = out]]

Return(a) == proc' = [proc EXCEPT ![a] = Idle]

(* Any event makes a task of an unknown id, in status pending.             *)
Begun(t) == IF t.status = "absent" THEN [t EXCEPT !.status = "pending"] ELSE t

(* TRANSITION_ROLES: who may finish, recover and unblock.                  *)
TransitionRoles(from, to) ==
    IF from = "merge_ready" /\ to = "done" THEN {"lead", "human"}
    ELSE IF from = "blocked" \/ (from = "rejected" /\ to = "backlog")
         THEN {"architect", "lead", "human"}
    ELSE Role

(* validateTaskStatusTransition: a task without events may start anywhere, *)
(* and staying in a status is always allowed.                              *)
ValidTransition(from, to, role) ==
    \/ from = "absent"
    \/ from = to
    \/ /\ from # "absent"
       /\ to \in AllowedTransitions[from]
       /\ role \in TransitionRoles(from, to)

git == <<dir, branch, landed, tip>>

-----------------------------------------------------------------------------
(* Calls that append one event without reading the task first.             *)

(* CREATED on a task that exists sets status and approval flag again.      *)
TaskCreate(a, s, c) ==
    /\ Calls(a, "task_create")
    /\ task' = [task EXCEPT !.status = s, !.based = @ \/ c[1], !.needsHuman = c[2]]
    /\ UNCHANGED <<git, proc, passed, orphan>>

PlanPropose(a) ==
    /\ Calls(a, "task_plan_propose")
    /\ task' = [Begun(task) EXCEPT
           !.plan = [state |-> "proposed", proposedBy |-> a, decidedBy |-> None]]
    /\ UNCHANGED <<git, proc, passed, orphan>>

(* validation_run of the tests: the run itself changes nothing here.       *)
ValidationRun(a, verdict) ==
    /\ Calls(a, "validation_run")
    /\ task' = [Begun(task) EXCEPT !.test = verdict]
    /\ passed' = (passed \/ verdict = "passed")
    /\ UNCHANGED <<git, proc, orphan>>

HumanApprove(a) ==
    /\ Calls(a, "task_human_approve")
    /\ task' = [Begun(task) EXCEPT !.approved = TRUE]
    /\ UNCHANGED <<git, proc, passed, orphan>>

-----------------------------------------------------------------------------
(* Plan decisions: read, refuse one's own plan, append.                    *)

(* Mutant of OwnPlan: the check is left out.                               *)
OwnPlanIgnored(a) == FALSE

OwnPlan(a) == task.plan.proposedBy = a

PlanDecide(a, decision) ==
    /\ Calls(a, "task_plan_decide")
    /\ ~OwnPlan(a)
    /\ Goto(a, "decidePlan", decision, "none")
    /\ UNCHANGED <<task, git, passed, orphan>>

AppendPlanDecision(a) ==
    /\ proc[a].pc = "decidePlan"
    /\ task' = IF task.plan.state = "none" THEN Begun(task)
               ELSE [task EXCEPT !.plan.state = IF proc[a].arg = "approved" THEN "approved"
                                                                           ELSE "rejected",
                                 !.plan.decidedBy = a]
    /\ Return(a)
    /\ UNCHANGED <<git, passed, orphan>>

-----------------------------------------------------------------------------
(* Reviews.                                                                *)

(* The changed files may be refused, or classified as needing a human.     *)
ReviewRequest(a) ==
    /\ Calls(a, "review_request")
    /\ \/ Goto(a, "request", "none", "none")
       \/ ~task.needsHuman /\ Goto(a, "classify", "none", "none")
    /\ UNCHANGED <<task, git, passed, orphan>>

AppendRiskClassified(a) ==
    /\ proc[a].pc = "classify"
    /\ task' = [Begun(task) EXCEPT !.needsHuman = TRUE]
    /\ Goto(a, "request", "none", "none")
    /\ UNCHANGED <<git, passed, orphan>>

AppendReviewRequested(a) ==
    /\ proc[a].pc = "request"
    /\ task' = [Begun(task) EXCEPT
           !.review = [state |-> "requested", requestedBy |-> a, decidedBy |-> None]]
    /\ Return(a)
    /\ UNCHANGED <<git, passed, orphan>>

ReviewDecide(a, decision) ==
    /\ Calls(a, "review_decide")
    /\ task.review.requestedBy # a
    /\ Goto(a, "decideReview", decision, "none")
    /\ UNCHANGED <<task, git, passed, orphan>>

(* Mutant of AppendReviewDecided: the decision is taken for a status.      *)
AppendReviewDecidedAsStatus(a) ==
    /\ proc[a].pc = "decideReview"
    /\ task' = [Begun(task) EXCEPT !.status = proc[a].arg,
                                   !.review.state = "decided",
                                   !.review.decidedBy = a]
    /\ Return(a)
    /\ UNCHANGED <<git, passed, orphan>>

AppendReviewDecided(a) ==
    /\ proc[a].pc = "decideReview"
    /\ task' = [Begun(task) EXCEPT
           !.status = IF proc[a].arg = "changes_requested" THEN "pending" ELSE @,
           !.review.state = "decided",
           !.review.decidedBy = a]
    /\ Return(a)
    /\ UNCHANGED <<git, passed, orphan>>

-----------------------------------------------------------------------------
(* task_update with a status.                                              *)

(* The CI gate.                                                            *)
Tested == task.test = "passed"

(* Mutant of MayMove: testing -> merge_ready needs no verdict.             *)
MayMoveUntested(a, s) ==
    /\ ValidTransition(task.status, s, RoleOf[a])
    /\ task.status = "ready" /\ s = "planned" => task.plan.state = "approved"

(* The transition is valid for the role; the CI gate; the plan gate.       *)
MayMove(a, s) ==
    /\ ValidTransition(task.status, s, RoleOf[a])
    /\ task.status = "testing" /\ s = "merge_ready" => Tested
    /\ task.status = "ready" /\ s = "planned" => task.plan.state = "approved"

Finishing(s) == task.status = "merge_ready" /\ s = "done"

HasWorktree == task.worktree = "created"

(* What else may refuse merge_ready -> done: the merge checker (which runs *)
(* in the worktree) and the human-approval gate.  That the checker or the  *)
(* constitution gate refuses is that no step is taken.                     *)
MayFinish ==
    /\ HasWorktree => dir
    /\ task.needsHuman => task.approved

(* The synchronous handler up to its first write.                          *)
CheckedUpdate(a, s) ==
    /\ MayMove(a, s)
    /\ Finishing(s) => MayFinish
    /\ IF Finishing(s) /\ HasWorktree
       THEN IF task.based THEN Goto(a, "merge", s, "none")
                          ELSE Goto(a, "record", s, "skipped")
       ELSE Goto(a, "status", s, "none")
    /\ orphan' = (orphan \/ task.status = "absent")

(* With a branch protection to ask for, the handler first awaits GitHub.   *)
TaskUpdate(a, s) ==
    /\ Calls(a, "task_update")
    /\ IF Finishing(s) /\ HasWorktree /\ task.based
       THEN Goto(a, "policy", s, "none") /\ UNCHANGED orphan
       ELSE CheckedUpdate(a, s)
    /\ UNCHANGED <<task, git, passed>>

(* The verdict allows, and everything is checked again; or it refuses, or  *)
(* a check does.                                                           *)
PolicyVerdict(a) ==
    /\ proc[a].pc = "policy"
    /\ \/ CheckedUpdate(a, proc[a].arg)
       \/ Return(a) /\ UNCHANGED orphan
    /\ UNCHANGED <<task, git, passed>>

(* integrate(): tips read, the merge computed.  The task branch may be     *)
(* gone (skipped) and the merge may conflict.                              *)
MergeRead(a) ==
    /\ proc[a].pc = "merge"
    /\ \/ /\ branch
          /\ tip < MaxTips
          /\ proc' = [proc EXCEPT ![a].pc = "updateRef", ![a].seenTip = tip, ![a].seen = landed]
       \/ branch /\ Return(a)
       \/ ~branch /\ Goto(a, "record", proc[a].arg, "skipped")
    /\ UNCHANGED <<task, git, passed, orphan>>

(* Mutant of UpdateRef: update-ref without the expected old value.         *)
UpdateRefBlindly(a) ==
    /\ proc[a].pc = "updateRef"
    /\ tip < MaxTips
    /\ landed' = proc[a].seen \cup {"work"}
    /\ tip' = tip + 1
    /\ Goto(a, "record", proc[a].arg, "merged")
    /\ UNCHANGED <<task, dir, branch, passed, orphan>>

(* Mutant of UpdateRef: its exit code is not looked at.                    *)
UpdateRefUnread(a) ==
    /\ proc[a].pc = "updateRef"
    /\ IF tip = proc[a].seenTip
       THEN landed' = proc[a].seen \cup {"work"} /\ tip' = tip + 1
       ELSE UNCHANGED <<landed, tip>>
    /\ Goto(a, "record", proc[a].arg, "merged")
    /\ UNCHANGED <<task, dir, branch, passed, orphan>>

(* update-ref with the expected old value: nothing moves if the base has.  *)
UpdateRef(a) ==
    /\ proc[a].pc = "updateRef"
    /\ IF tip = proc[a].seenTip
       THEN /\ landed' = proc[a].seen \cup {"work"}
            /\ tip' = tip + 1
            /\ Goto(a, "record", proc[a].arg, "merged")
       ELSE Return(a) /\ UNCHANGED <<landed, tip>>
    /\ UNCHANGED <<task, dir, branch, passed, orphan>>

AppendIntegration(a) ==
    /\ proc[a].pc = "record"
    /\ task' = [Begun(task) EXCEPT !.integration = proc[a].out]
    /\ Goto(a, "status", proc[a].arg, "none")
    /\ UNCHANGED <<git, passed, orphan>>

(* STATUS_CHANGED carries the status alone: it is applied whatever the     *)
(* task has become since the checks.                                       *)
AppendStatus(a) ==
    /\ proc[a].pc = "status"
    /\ task' = [task EXCEPT !.status = proc[a].arg]
    /\ IF proc[a].arg \in {"planned", "done"}
       THEN Goto(a, "worktree", proc[a].arg, "none")
       ELSE Return(a)
    /\ UNCHANGED <<git, passed, orphan>>

(* planned: git worktree add, unless the task has one; the directory or    *)
(* the branch may be there already.                                        *)
CreateWorktree(a) ==
    /\ proc[a].pc = "worktree"
    /\ proc[a].arg = "planned"
    /\ IF HasWorktree THEN Return(a) /\ UNCHANGED <<dir, branch>>
       ELSE IF dir \/ branch
       THEN Goto(a, "recordWorktree", "none", "skipped") /\ UNCHANGED <<dir, branch>>
       ELSE /\ Goto(a, "recordWorktree", "none", "created")
            /\ dir' = TRUE
            /\ branch' = TRUE
    /\ UNCHANGED <<task, landed, tip, passed, orphan>>

(* done: git worktree remove; its branch stays.                            *)
RemoveWorktree(a) ==
    /\ proc[a].pc = "worktree"
    /\ proc[a].arg = "done"
    /\ IF HasWorktree THEN Goto(a, "recordWorktree", "none", "removed") /\ dir' = FALSE
                      ELSE Return(a) /\ UNCHANGED dir
    /\ UNCHANGED <<task, branch, landed, tip, passed, orphan>>

AppendWorktree(a) ==
    /\ proc[a].pc = "recordWorktree"
    /\ task' = [task EXCEPT !.worktree = proc[a].out]
    /\ Return(a)
    /\ UNCHANGED <<git, passed, orphan>>

-----------------------------------------------------------------------------
(* The operator pushes to the base branch.                                 *)
Push ==
    /\ "push" \notin landed
    /\ tip < MaxTips
    /\ landed' = landed \cup {"push"}
    /\ tip' = tip + 1
    /\ UNCHANGED <<task, dir, branch, proc, passed, orphan>>

(* The agent is stopped, and its MCP child with it, in the middle of a     *)
(* call.                                                                   *)
Kill(a) ==
    /\ proc[a].pc # "idle"
    /\ Return(a)
    /\ UNCHANGED <<task, git, passed, orphan>>

Next ==
    \E a \in Agent :
        \/ \E s \in Initial, c \in Creation : TaskCreate(a, s, c)
        \/ PlanPropose(a) \/ HumanApprove(a)
        \/ \E v \in {"passed", "failed"} : ValidationRun(a, v)
        \/ \E d \in {"approved", "rejected"} : PlanDecide(a, d)
        \/ AppendPlanDecision(a)
        \/ ReviewRequest(a) \/ AppendRiskClassified(a) \/ AppendReviewRequested(a)
        \/ \E d \in {"approved", "changes_requested"} : ReviewDecide(a, d)
        \/ AppendReviewDecided(a)
        \/ \E s \in Target : TaskUpdate(a, s)
        \/ PolicyVerdict(a) \/ MergeRead(a) \/ UpdateRef(a) \/ AppendIntegration(a)
        \/ AppendStatus(a) \/ CreateWorktree(a) \/ RemoveWorktree(a) \/ AppendWorktree(a)
        \/ Push \/ Kill(a)

Spec == Init /\ [][Next]_vars

-----------------------------------------------------------------------------
(* PROPERTIES                                                              *)

(* Nobody decides on their own plan or their own work, though the check    *)
(* and the event it allows are separate steps, and other agents may        *)
(* propose and request again in between.                                   *)
SeparationOfDuties ==
    /\ task.plan.decidedBy # None => task.plan.decidedBy # task.plan.proposedBy
    /\ task.review.decidedBy # None => task.review.decidedBy # task.review.requestedBy

(* What the base branch contains stays in it, whoever integrates or pushes *)
(* at the same time and whoever is killed on the way (mergeIntegrator).    *)
BaseKeepsWork == [][landed \subseteq landed']_vars

(* The board says `merged` only of work that is on the base branch.        *)
IntegrationIsHonest == task.integration = "merged" => "work" \in landed

(* A task is past testing only if its tests passed some time, in whatever  *)
(* order the updates of several processes were checked and appended.       *)
TestedBeforeMergeReady ==
    Initial \cap {"merge_ready", "done"} = {} =>
        (task.status \in {"merge_ready", "done"} => passed \/ orphan)
=============================================================================
