------------------------------ MODULE MergeGate ------------------------------
(***************************************************************************)
(* The constitution gate of one task's merge: merge_ready -> done asks     *)
(* constitutionMergeGate for the violations that the branch introduces,    *)
(* and integrates the branch if there are none.                            *)
(*                                                                         *)
(* A file is what matters of it: how often each line that violates a gate  *)
(* rule of the reviewed spec occurs (the rule is one grep; lines that do   *)
(* not match are no part of the model).  The gate takes the names of the   *)
(* changed files from the commits (git diff baseRef..HEAD) and their text  *)
(* from the worktree's directory; what is merged are the commits.          *)
(***************************************************************************)
EXTENDS Integers, FiniteSets

CONSTANTS
    File, Line,
    MaxCopies,      \* occurrences of a line in a file (bound)
    MaxLands        \* changes of the base branch by others (bound)

ASSUME GateAssumption == MaxCopies \in Nat /\ MaxLands \in Nat

VARIABLES
    base,           \* the tip of the base branch
    fork,           \* wt.baseRef: what the worktree was created from
    head,           \* the tip of the task branch
    work,           \* the files in the worktree
    gate,           \* the task: "none", "open", "done"
    loud,           \* the gate has reported a scan error to the observer
    lands           \* history: changes of the base branch by others

gateVars == <<base, fork, head, work, gate, loud, lands>>

Absent  == [l \in Line |-> -1]         \* no such file
Content == [Line -> 0..MaxCopies]
Tree    == [File -> Content \cup {Absent}]

GateTypeOK ==
    /\ base \in Tree /\ fork \in Tree /\ head \in Tree /\ work \in Tree
    /\ gate \in {"none", "open", "done"}
    /\ loud \in BOOLEAN
    /\ lands \in 0..MaxLands

GateInit ==
    /\ base \in Tree
    /\ fork = base /\ head = base /\ work = base
    /\ gate = "none"
    /\ loud = FALSE
    /\ lands = 0

-----------------------------------------------------------------------------
(* git diff --name-status baseRef..HEAD, deletions left out.  An added     *)
(* file whose like was deleted may be reported as a rename of it.          *)
Changed == {f \in File : head[f] # fork[f] /\ head[f] # Absent}
Added(f) == fork[f] = Absent
MayBeRename(f) == Added(f) /\ \E g \in File : fork[g] # Absent /\ head[g] = Absent

(* Mutant of Exceeds: trunk's line whitelists every copy of it.            *)
ExceedsIfNew(f) == work[f] # Absent /\ \E l \in Line : work[f][l] > 0 /\ fork[f][l] = 0

(* Trunk's occurrences of a line absorb as many in the worktree; what is   *)
(* over is introduced.  A file that cannot be read in the worktree is      *)
(* skipped.                                                                *)
Exceeds(f) == work[f] # Absent /\ \E l \in Line : work[f][l] > fork[f][l]

(* Of an added file every occurrence is introduced; of a rename trunk has  *)
(* no file by the new name, and the scan error is reported and the file    *)
(* let through.                                                            *)
Introduces(f, renames) ==
    /\ work[f] # Absent
    /\ f \notin renames
    /\ IF Added(f) THEN \E l \in Line : work[f][l] > 0 ELSE Exceeds(f)

ScanErrors(renames) == {f \in renames : work[f] # Absent /\ \E l \in Line : work[f][l] > 0}

(* git merge-tree, file by file: the side that changed it wins; if both    *)
(* did, their changes are added up where they do not touch, and a conflict *)
(* ends the merge.                                                         *)
BothSides(f) ==
    IF base[f] = Absent \/ head[f] = Absent \/ fork[f] = Absent THEN {}
    ELSE {[l \in Line |-> base[f][l] + head[f][l] - fork[f][l]]} \cap Content

Merged(f) ==
    CASE head[f] = fork[f] -> {base[f]}
      [] base[f] = fork[f] -> {head[f]}
      [] head[f] = base[f] -> {head[f]} \cup BothSides(f)
      [] OTHER             -> BothSides(f)

-----------------------------------------------------------------------------
(* The worktree is created.                                                *)
StartBranch ==
    /\ gate = "none"
    /\ fork' = base /\ head' = base /\ work' = base
    /\ gate' = "open"
    /\ UNCHANGED <<base, loud, lands>>

(* The agent writes or deletes a file of its worktree; it commits.         *)
Write(f) ==
    /\ gate = "open"
    /\ \E c \in Content \cup {Absent} : work' = [work EXCEPT ![f] = c]
    /\ UNCHANGED <<base, fork, head, gate, loud, lands>>

Commit ==
    /\ gate = "open"
    /\ head' = work
    /\ UNCHANGED <<base, fork, work, gate, loud, lands>>

(* Others merge, or push, to the base branch.                              *)
Land(f) ==
    /\ lands < MaxLands
    /\ \E c \in Content \cup {Absent} : base' = [base EXCEPT ![f] = c]
    /\ lands' = lands + 1
    /\ UNCHANGED <<fork, head, work, gate, loud>>

(* task_update merge_ready -> done: a refusal leaves everything but the    *)
(* observer's report; the merge removes the worktree, and what was not     *)
(* committed in it.                                                        *)
Done ==
    /\ gate = "open"
    /\ \E renames \in SUBSET {f \in Changed : MayBeRename(f)} :
          /\ loud' = (loud \/ ScanErrors(renames) # {})
          /\ \/ /\ \E f \in Changed : Introduces(f, renames)
                /\ UNCHANGED <<base, fork, head, work, gate>>
             \/ /\ \A f \in Changed : ~Introduces(f, renames)
                /\ \A f \in File : Merged(f) # {}
                /\ base' \in {t \in Tree : \A f \in File : t[f] \in Merged(f)}
                /\ gate' = "done"
                /\ fork' = base' /\ head' = base' /\ work' = base'
    /\ UNCHANGED lands

GateNext ==
    \/ StartBranch
    \/ \E f \in File : Write(f) \/ Land(f)
    \/ Commit
    \/ Done

GateSpec == GateInit /\ [][GateNext]_gateVars

-----------------------------------------------------------------------------
Copies(tree, f, l) == IF tree[f] = Absent THEN 0 ELSE tree[f][l]

Merges == gate = "open" /\ gate' = "done"

Adds == \E f \in File, l \in Line : Copies(base', f, l) > Copies(base, f, l)

(* A merge of work that was committed adds no violation to the base        *)
(* branch, whatever others land there meanwhile, unless a scan error was   *)
(* reported aloud.                                                         *)
CommittedMergesAddNothing == [][Merges /\ Adds => loud' \/ work # head]_gateVars

(* What the gate's description says: it blocks what a branch introduces.   *)
(* It does not when the file that a commit changed has been put right in   *)
(* the worktree and not committed: the commit is merged, and the worktree  *)
(* with the correction removed.                                            *)
SilentMergesAddNothing == [][Merges /\ Adds => loud']_gateVars
=============================================================================
