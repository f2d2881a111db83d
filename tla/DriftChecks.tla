----------------------------- MODULE DriftChecks -----------------------------
(***************************************************************************)
(* What a drift run finds: the deterministic checks, as functions of the   *)
(* board and of the files under projectCwd that buildSnapshot reads, while *)
(* a team works on branches, merges, and brings the checkout up to date.   *)
(*                                                                         *)
(* A tree is a set of facts about what it contains.  spec.json is a        *)
(* constant: its modules, each with an evidence file and one contract that *)
(* it owns, the authorized and forbidden dependencies and one rule of the  *)
(* constitution.                                                           *)
(*                                                                         *)
(* Five checks of the registry are not here, for they find nothing as the  *)
(* program is wired: three read the payload.to of a status change, which   *)
(* no event has (checkInvalidTransitions, checkMissingTestArtifacts,       *)
(* checkReviewWithoutFindings), two read diffs of worktrees that nobody    *)
(* lists (checkOutOfScopeFiles, checkProviderLogicLeakage).                *)
(***************************************************************************)
EXTENDS Integers, FiniteSets

CONSTANTS
    Task,
    Module,         \* structure.required, kind module
    Delivers,       \* task |-> the modules of its delivers field
    Stray,          \* source files that no module entry declares
    Dep,            \* dependencies that a manifest may name
    Authorized, Forbidden,
    Reviewed,       \* provenance.reviewed
    RuleSeverity,   \* severity of the constitution's rule
    MaxStrays       \* steps against the rules of the team (bound)

VARIABLES
    works,           \* the board, and the branch of a task
    trunk,           \* tree of the base branch
    checkout,       \* tree under projectCwd
    denied,         \* a tool call was denied (tool_call_denied)
    strays          \* history: steps against the rules of the team

(* A task delivers declared modules, and a stray file is the evidence of   *)
(* no module.                                                              *)
ASSUME ChecksAssumption ==
    /\ Delivers \in [Task -> SUBSET Module]
    /\ Stray \cap Module = {}
    /\ MaxStrays \in Nat

checkVars == <<works, trunk, checkout, denied, strays>>

Fact == [kind : {"file", "directory", "function", "reshaped"}, of : Module]
    \cup [kind : {"file"}, of : Stray]
    \cup [kind : {"dependency"}, of : Dep]
    \cup {[kind |-> "violation", of |-> "rule"]}

TaskState == [status : {"open", "rejected", "done"},
              worktree : {"none", "created"},
              integration : {"none", "merged", "skipped"},
              fork : SUBSET Fact, tree : SUBSET Fact]

ChecksTypeOK ==
    /\ works \in [Task -> TaskState]
    /\ trunk \subseteq Fact
    /\ checkout \subseteq Fact
    /\ denied \in BOOLEAN
    /\ strays \in 0..MaxStrays

Fresh == [status |-> "open", worktree |-> "none", integration |-> "none",
          fork |-> {}, tree |-> {}]

ChecksInit ==
    /\ works = [t \in Task |-> Fresh]
    /\ trunk = {}
    /\ checkout = {}
    /\ denied = FALSE
    /\ strays = 0

Has(tree, k, x) == [kind |-> k, of |-> x] \in tree

-----------------------------------------------------------------------------
(* The checks.  An unreviewed spec makes every finding one for information. *)
Clamp(severity) == IF Reviewed THEN severity ELSE "info"
Reported(check, of, severity) == [check |-> check, of |-> of, severity |-> severity]

(* structurePresence: the evidence file, wherever else the module went.    *)
Present(m) == Has(checkout, "file", m)

(* A forbidden dependency, or one that a non-empty list does not authorize. *)
DependencyDrift ==
    {Reported("dependency_drift", d, Clamp("critical")) :
        d \in {e \in Forbidden : Has(checkout, "dependency", e)}}
    \cup
    {Reported("dependency_drift", d, Clamp("medium")) :
        d \in {e \in Dep \ Forbidden : /\ Has(checkout, "dependency", e)
                                       /\ Authorized # {}
                                       /\ e \notin Authorized}}

(* Mutant of AbsentSeverity: a task that is no longer open is taken for    *)
(* one that has delivered.                                                 *)
AbsentSeverityClosed(m) ==
    LET by   == {t \in Task : m \in Delivers[t]}
        done == {t \in by : works[t].status # "open"}
    IN CASE by = {} -> "low"
         [] by # {} /\ done = {} -> "none"
         [] OTHER -> IF \E t \in done : works[t].integration # "none" THEN "critical"
                     ELSE "high"

(* A declared module that is absent: low if no task delivers it, nothing   *)
(* while every such task is in flight, worse once one is done, and worst   *)
(* if that one has an integration record, be it of a merge that was        *)
(* skipped.                                                                *)
AbsentSeverity(m) ==
    LET by   == {t \in Task : m \in Delivers[t]}
        done == {t \in by : works[t].status = "done"}
    IN CASE by = {} -> "low"
         [] by # {} /\ done = {} -> "none"
         [] OTHER -> IF \E t \in done : works[t].integration # "none" THEN "critical"
                     ELSE "high"

DeclaredAbsent ==
    IF \A t \in Task : Delivers[t] = {}
    THEN {Reported("structural_declared_absent", "delivers-unadopted", "info")}
    ELSE {Reported("structural_declared_absent", m, Clamp(AbsentSeverity(m))) :
            m \in {n \in Module : ~Present(n) /\ AbsentSeverity(n) # "none"}}

(* A source file that is neither a module's evidence nor in the directory  *)
(* a module was promoted to.                                               *)
UndeclaredPresent ==
    {Reported("structural_undeclared_present", x, Clamp("high")) :
        x \in {y \in Stray : Has(checkout, "file", y)}}

(* A contract without a definition anywhere is drift if its owner is there. *)
MissingContracts ==
    {m \in Module : /\ ~Has(checkout, "function", m)
                    /\ ~Has(checkout, "reshaped", m)
                    /\ Present(m)}

ContractDrift ==
    {Reported("contract_drift", m, Clamp("high")) : m \in MissingContracts}
    \cup {Reported("contract_drift", m, Clamp("medium")) :
            m \in {n \in Module : Has(checkout, "reshaped", n) /\ ~Has(checkout, "function", n)}}
    \cup (IF \E m \in Module : /\ ~Present(m)
                               /\ ~Has(checkout, "function", m)
                               /\ ~Has(checkout, "reshaped", m)
          THEN {Reported("contract_drift", "contract-owner-absent", "info")} ELSE {})

Constitution ==
    IF Has(checkout, "violation", "rule")
    THEN {Reported("constitution", "rule", Clamp(RuleSeverity))} ELSE {}

(* Done, and no integration recorded: only a task without a worktree.      *)
DoneWithoutMerge ==
    {Reported("done_without_merge_evidence", t, "high") :
        t \in {u \in Task : works[u].status = "done" /\ works[u].integration = "none"}}

RolePermissionViolations ==
    IF denied THEN {Reported("role_permission_violations", "unknown", "medium")} ELSE {}

Findings == DependencyDrift \cup DeclaredAbsent \cup UndeclaredPresent \cup ContractDrift
            \cup Constitution \cup DoneWithoutMerge \cup RolePermissionViolations

-----------------------------------------------------------------------------
(* What the rules of the team allow on a branch: the declared modules of   *)
(* the task with their contracts, and authorized dependencies.             *)
Sanctioned(t, f) ==
    \/ f.kind \in {"file", "function"} /\ f.of \in Delivers[t]
    \/ f.kind = "dependency" /\ f.of \in Authorized \ Forbidden

(* ... and what may be merged: modules built, and built whole.             *)
Whole(t) ==
    /\ \A m \in Delivers[t] : Has(works[t].tree, "file", m)
    /\ \A m \in Module : Has(works[t].tree, "file", m) => Has(works[t].tree, "function", m)

Step(allowed) ==
    /\ allowed \/ strays < MaxStrays
    /\ strays' = IF allowed THEN strays ELSE strays + 1

(* task_update to planned: a worktree on a branch of its own.              *)
BranchOff(t) ==
    /\ works[t].status = "open"
    /\ works[t].worktree = "none"
    /\ works' = [works EXCEPT ![t].worktree = "created", ![t].fork = trunk, ![t].tree = trunk]
    /\ UNCHANGED <<trunk, checkout, denied, strays>>

(* An agent commits to the branch of its task: something more, or less.    *)
CommitFact(t, f) ==
    LET tree == works[t].tree
    IN /\ works[t].status = "open"
       /\ works[t].worktree = "created"
       /\ Step(f \notin tree /\ Sanctioned(t, f))
       /\ works' = [works EXCEPT ![t].tree = IF f \in tree THEN tree \ {f} ELSE tree \cup {f}]
       /\ UNCHANGED <<trunk, checkout, denied>>

(* merge_ready -> done with a worktree: the base branch takes what the     *)
(* branch added and loses what it removed; the checkout stays.             *)
Merge(t) ==
    /\ works[t].status = "open"
    /\ works[t].worktree = "created"
    /\ Step(Whole(t))
    /\ trunk' = (trunk \ (works[t].fork \ works[t].tree)) \cup (works[t].tree \ works[t].fork)
    /\ works' = [works EXCEPT ![t] = [Fresh EXCEPT !.status = "done", !.integration = "merged"]]
    /\ UNCHANGED <<checkout, denied>>

(* ... the merge is skipped (no base branch, no common ancestor), which    *)
(* lets the task be done too; without a worktree nothing is merged.        *)
DoneUnmerged(t) ==
    /\ works[t].status = "open"
    /\ Step(FALSE)
    /\ works' = [works EXCEPT ![t] = [Fresh EXCEPT !.status = "done",
                   !.integration = IF works[t].worktree = "created" THEN "skipped"
                                                                   ELSE "none"]]
    /\ UNCHANGED <<trunk, checkout, denied>>

(* A rejected task keeps its worktree, which nobody commits to again.      *)
Reject(t) ==
    /\ works[t].status = "open"
    /\ works' = [works EXCEPT ![t] = [Fresh EXCEPT !.status = "rejected",
                                              !.worktree = works[t].worktree]]
    /\ UNCHANGED <<trunk, checkout, denied, strays>>

Denied ==
    /\ Step(FALSE)
    /\ denied' = TRUE
    /\ UNCHANGED <<works, trunk, checkout>>

(* The operator brings the checkout up to its branch.                      *)
UpdateCheckout ==
    /\ checkout' = trunk
    /\ UNCHANGED <<works, trunk, denied, strays>>

ChecksNext ==
    \/ \E t \in Task : \/ BranchOff(t)
                       \/ \E f \in Fact : CommitFact(t, f)
                       \/ Merge(t)
                       \/ DoneUnmerged(t)
                       \/ Reject(t)
    \/ Denied
    \/ UpdateCheckout

ChecksSpec == ChecksInit /\ [][ChecksNext]_checkVars

-----------------------------------------------------------------------------
(* The checks do not cry wolf: as long as everybody keeps to the rules,    *)
(* whatever the order of branches, merges and rejections, a run over a     *)
(* checkout that is up to date finds nothing above "low" (a module that    *)
(* nobody has planned).  Over one that merges have left behind it finds a  *)
(* merged module missing, and that is critical.                            *)
FollowersAreClean ==
    strays = 0 /\ checkout = trunk =>
        \A f \in Findings : f.severity \in {"info", "low"}
=============================================================================
