---------------------------- MODULE WatchProofs -----------------------------
(***************************************************************************)
(* Theorems about what watches and shows the work, for every value of the  *)
(* constants: the constitution gate of a merge, the rules of the drift     *)
(* checks, the drift run, the editor pane and the live board of the UI;    *)
(* and about the instance of them and the task board that the run explores. *)
(***************************************************************************)
EXTENDS MCTaskBoard, TaskBoardProofs, TLAPS

-----------------------------------------------------------------------------
(***************************************************************************)
(* The constitution gate, for any files, lines and number of copies: what  *)
(* a merge of committed work takes into the base branch.  The gate judges  *)
(* each file by itself, and so does the argument: whichever way a file is  *)
(* merged, the result has no more copies of a line than the base branch,   *)
(* because the gate bounds the task's side by the fork point.              *)
(***************************************************************************)

(* A version of a file has a number of copies of each line, or is absent;  *)
(* no content is taken for the absence of the file.                        *)
LEMMA VersionFact ==
    ASSUME NEW tree \in Tree, NEW f \in File
    PROVE  /\ tree[f] \in Content \cup {Absent}
           /\ \A l \in Line : /\ Copies(tree, f, l) \in Nat
                              /\ tree[f] # Absent => tree[f][l] \in Nat
  BY GateAssumption DEF Tree, Content, Copies

(* The gate keeps its types: GateTypeOK, the invariant of the MergeGate    *)
(* part of the task board's run.                                           *)
THEOREM GateTypeCorrect == GateSpec => []GateTypeOK
  <1>1. GateInit => GateTypeOK
    <2>1. 0 \in 0..MaxLands
      BY GateAssumption
    <2> QED BY <2>1 DEF GateInit, GateTypeOK
  <1>2. GateTypeOK /\ [GateNext]_gateVars => GateTypeOK'
    <2> SUFFICES ASSUME GateTypeOK, [GateNext]_gateVars PROVE GateTypeOK'
      OBVIOUS
    <2>1. CASE StartBranch
      BY <2>1 DEF StartBranch, GateTypeOK
    <2>2. ASSUME NEW f \in File, Write(f) PROVE GateTypeOK'
      BY <2>2 DEF Write, GateTypeOK, Tree
    <2>3. ASSUME NEW f \in File, Land(f) PROVE GateTypeOK'
      <3>1. base' \in Tree
        BY <2>3 DEF Land, GateTypeOK, Tree
      <3>2. lands' \in 0..MaxLands
        BY <2>3, GateAssumption DEF Land, GateTypeOK
      <3> QED BY <2>3, <3>1, <3>2 DEF Land, GateTypeOK
    <2>4. CASE Commit
      BY <2>4 DEF Commit, GateTypeOK
    <2>5. CASE Done
      <3>1. loud' \in BOOLEAN
        BY <2>5, Zenon DEF Done, GateTypeOK
      <3>2. \/ UNCHANGED <<base, fork, head, work, gate>>
            \/ /\ base' \in Tree /\ gate' = "done"
               /\ fork' = base' /\ head' = base' /\ work' = base'
        BY <2>5 DEF Done
      <3> QED BY <2>5, <3>1, <3>2 DEF Done, GateTypeOK
    <2>6. CASE UNCHANGED gateVars
      BY <2>6 DEF gateVars, GateTypeOK
    <2> QED BY <2>1, <2>2, <2>3, <2>4, <2>5, <2>6 DEF GateNext
  <1> QED BY <1>1, <1>2, PTL DEF GateSpec

-----------------------------------------------------------------------------
(* What the gate let through: a changed file of the task's side, as it was *)
(* committed, has no more of any line than the fork point, if no scan      *)
(* error was reported of it.                                               *)
LEMMA PassedIsBounded ==
    ASSUME GateTypeOK, work = head,
           NEW renames \in SUBSET {f \in Changed : MayBeRename(f)},
           ScanErrors(renames) = {},
           NEW f \in Changed, ~Introduces(f, renames),
           NEW l \in Line
    PROVE  Copies(head, f, l) <= Copies(fork, f, l)
  <1>1. f \in File /\ head[f] # Absent /\ work[f] = head[f]
    BY DEF Changed
  <1>2. /\ head[f][l] \in Nat
        /\ Copies(head, f, l) = head[f][l]
        /\ Copies(fork, f, l) \in Nat
    BY <1>1, VersionFact DEF GateTypeOK, Copies
  <1>3. CASE f \in renames
    <2>1. ~(head[f][l] > 0)
      BY <1>1, <1>3 DEF ScanErrors
    <2> QED BY <1>2, <2>1
  <1>4. CASE f \notin renames /\ Added(f)
    <2>1. ~(head[f][l] > 0)
      BY <1>1, <1>4 DEF Introduces
    <2> QED BY <1>2, <2>1
  <1>5. CASE f \notin renames /\ ~Added(f)
    <2>1. ~(head[f][l] > fork[f][l])
      BY <1>1, <1>5 DEF Introduces, Exceeds
    <2>2. Copies(fork, f, l) = fork[f][l] /\ fork[f][l] \in Nat
      BY <1>1, <1>5, VersionFact DEF Added, Copies, GateTypeOK
    <2> QED BY <1>2, <2>1, <2>2
  <1> QED BY <1>3, <1>4, <1>5

(* Whichever way a file is merged, the base branch gets no more of a line  *)
(* than it had, if the task's side has no more than the fork point.        *)
LEMMA MergedIsBounded ==
    ASSUME GateTypeOK, NEW f \in File, NEW l \in Line, NEW tree \in Tree,
           tree[f] \in Merged(f),
           f \in Changed => Copies(head, f, l) <= Copies(fork, f, l)
    PROVE  Copies(tree, f, l) <= Copies(base, f, l)
  <1> USE DEF GateTypeOK
  <1>1. /\ Copies(base, f, l) \in Nat /\ Copies(head, f, l) \in Nat
        /\ Copies(fork, f, l) \in Nat /\ Copies(tree, f, l) \in Nat
    BY VersionFact
  <1>2. CASE tree[f] = base[f]
    BY <1>1, <1>2 DEF Copies
  <1>3. CASE tree[f] = head[f] /\ base[f] = fork[f]
    <2>1. Copies(tree, f, l) = Copies(head, f, l) /\ Copies(base, f, l) = Copies(fork, f, l)
      BY <1>3 DEF Copies
    <2>2. f \notin Changed => head[f] = fork[f] \/ head[f] = Absent
      BY DEF Changed
    <2>3. head[f] = Absent => Copies(head, f, l) = 0
      BY DEF Copies
    <2>4. head[f] = fork[f] => Copies(head, f, l) = Copies(fork, f, l)
      BY DEF Copies
    <2> QED BY <1>1, <2>1, <2>2, <2>3, <2>4
  <1>4. CASE tree[f] \in BothSides(f) /\ head[f] # fork[f]
    <2>1. base[f] # Absent /\ head[f] # Absent /\ fork[f] # Absent
      BY <1>4 DEF BothSides
    <2>2. tree[f] = [k \in Line |-> base[f][k] + head[f][k] - fork[f][k]] /\ tree[f] \in Content
      BY <1>4, <2>1 DEF BothSides
    <2>3. f \in Changed
      BY <1>4, <2>1 DEF Changed
    <2>4. /\ base[f][l] \in Nat /\ head[f][l] \in Nat /\ fork[f][l] \in Nat
          /\ Copies(base, f, l) = base[f][l]
          /\ Copies(head, f, l) = head[f][l]
          /\ Copies(fork, f, l) = fork[f][l]
      BY <2>1, VersionFact DEF Copies
    <2>5. tree[f][l] = base[f][l] + head[f][l] - fork[f][l]
      BY <2>2
    <2>6. tree[f][l] <= base[f][l]
      BY <2>3, <2>4, <2>5
    <2>7. Copies(tree, f, l) = 0 \/ Copies(tree, f, l) = tree[f][l]
      BY DEF Copies
    <2> QED BY <1>1, <2>4, <2>6, <2>7
  <1>5. \/ tree[f] = base[f]
        \/ tree[f] = head[f] /\ base[f] = fork[f]
        \/ tree[f] \in BothSides(f) /\ head[f] # fork[f]
    <2>1. CASE head[f] = fork[f] /\ base[f] # fork[f]
      BY <2>1 DEF Merged
    <2>2. CASE head[f] # fork[f]
      BY <2>2 DEF Merged
    <2>3. CASE head[f] = fork[f] /\ base[f] = fork[f]
      <3>1. BothSides(f) \subseteq {base[f]}
        <4>1. ASSUME fork[f] # Absent
              PROVE  [k \in Line |-> base[f][k] + head[f][k] - fork[f][k]] = base[f]
          <5>1. base[f] \in Content
            BY <2>3, <4>1, VersionFact
          <5>2. base[f] = [k \in Line |-> base[f][k]] /\ \A k \in Line : base[f][k] \in Nat
            BY <5>1, GateAssumption DEF Content
          <5> QED BY <2>3, <5>2
        <4> QED BY <2>3, <4>1 DEF BothSides
      <3> QED BY <2>3, <3>1 DEF Merged
    <2> QED BY <2>1, <2>2, <2>3
  <1> QED BY <1>2, <1>3, <1>4, <1>5

(* Committed work adds no violation to the base branch: whatever the task  *)
(* and others do, a merge of a worktree without uncommitted edits leaves   *)
(* every line there as often as it was, or rarer, unless a scan error was  *)
(* reported (constitutionMergeGate, integrate).                            *)
THEOREM CommittedMergesTheorem == GateSpec => CommittedMergesAddNothing
  <1>1. GateTypeOK /\ [GateNext]_gateVars
        => [Merges /\ Adds => loud' \/ work # head]_gateVars
    <2> SUFFICES ASSUME GateTypeOK, GateNext, Merges, work = head, ~loud'
                 PROVE  ~Adds
      BY DEF gateVars
    <2>1. Done
      BY DEF GateNext, Merges, StartBranch, Write, Land, Commit
    <2>2. PICK renames \in SUBSET {f \in Changed : MayBeRename(f)} :
             /\ ScanErrors(renames) = {}
             /\ \A f \in Changed : ~Introduces(f, renames)
             /\ base' \in Tree
             /\ \A f \in File : base'[f] \in Merged(f)
      BY <2>1, Zenon DEF Done, Merges
    <2>3. ASSUME NEW f \in File, NEW l \in Line
          PROVE  Copies(base', f, l) <= Copies(base, f, l)
      <3>1. f \in Changed => Copies(head, f, l) <= Copies(fork, f, l)
        BY <2>2, PassedIsBounded
      <3> QED BY <2>2, <3>1, MergedIsBounded
    <2>4. ASSUME NEW f \in File, NEW l \in Line
          PROVE  Copies(base', f, l) \in Nat /\ Copies(base, f, l) \in Nat
      BY <2>2, VersionFact DEF GateTypeOK
    <2> QED BY <2>3, <2>4 DEF Adds
  <1> QED BY <1>1, GateTypeCorrect, PTL DEF GateSpec, CommittedMergesAddNothing

-----------------------------------------------------------------------------
(***************************************************************************)
(* The rules of the drift checks.                                          *)
(***************************************************************************)

(* A set of facts that a team keeping to the rules can bring about.        *)
RuledFact(f) ==
    \/ f.kind \in {"file", "function"} /\ f.of \in Module
    \/ f.kind = "dependency" /\ f.of \in Authorized \ Forbidden

HasContracts(tree) == \A m \in Module : Has(tree, "file", m) => Has(tree, "function", m)

(* A branch adds, and adds what its task may; its base is on the trunk.    *)
BranchFollows(t) ==
    works[t].status = "open" /\ works[t].worktree = "created" =>
        /\ works[t].fork \subseteq works[t].tree
        /\ works[t].fork \subseteq trunk
        /\ \A f \in works[t].tree \ works[t].fork : Sanctioned(t, f)

(* What is done has been merged, and its modules are there.                *)
DoneIsThere(t) ==
    works[t].status = "done" =>
        /\ works[t].integration = "merged"
        /\ \A m \in Delivers[t] : Has(trunk, "file", m)

RuleInv ==
    strays = 0 =>
        /\ ~denied
        /\ \A f \in trunk : RuledFact(f)
        /\ HasContracts(trunk)
        /\ \A t \in Task : BranchFollows(t) /\ DoneIsThere(t)

LEMMA FreshTyped == Fresh \in TaskState
  BY DEF Fresh, TaskState

(* The state that the drift checks read keeps its types.                   *)
THEOREM ChecksTypeCorrect == ChecksSpec => []ChecksTypeOK
  <1> USE ChecksAssumption
  <1>1. ChecksInit => ChecksTypeOK
    <2> SUFFICES ASSUME ChecksInit PROVE ChecksTypeOK
      OBVIOUS
    <2>1. works \in [Task -> TaskState]
      BY FreshTyped DEF ChecksInit
    <2>2. denied \in BOOLEAN
      BY Zenon DEF ChecksInit
    <2>3. strays \in 0..MaxStrays
      BY DEF ChecksInit
    <2> QED BY <2>1, <2>2, <2>3 DEF ChecksInit, ChecksTypeOK
  <1>2. ASSUME ChecksTypeOK, [ChecksNext]_checkVars
        PROVE  ChecksTypeOK'
    <2>1. ASSUME NEW t \in Task, BranchOff(t)
          PROVE  ChecksTypeOK'
      <3>1. works[t] \in TaskState /\ trunk \subseteq Fact
        BY <1>2 DEF ChecksTypeOK
      <3>2. [works[t] EXCEPT !.worktree = "created", !.fork = trunk, !.tree = trunk] \in TaskState
        BY <3>1 DEF TaskState
      <3>3. works' = [works EXCEPT ![t] =
                        [works[t] EXCEPT !.worktree = "created", !.fork = trunk, !.tree = trunk]]
        BY <1>2, <2>1 DEF BranchOff, ChecksTypeOK, TaskState
      <3>4. works' \in [Task -> TaskState]
        BY <1>2, <3>2, <3>3 DEF ChecksTypeOK
      <3> QED BY <1>2, <2>1, <3>4 DEF BranchOff, ChecksTypeOK
    <2>2. ASSUME NEW t \in Task, NEW f \in Fact, CommitFact(t, f)
          PROVE  ChecksTypeOK'
      <3> DEFINE tree == works[t].tree
                 next == IF f \in tree THEN tree \ {f} ELSE tree \cup {f}
      <3>1. works[t] \in TaskState /\ tree \subseteq Fact
        BY <1>2 DEF ChecksTypeOK, TaskState
      <3>2. next \subseteq Fact
        BY <3>1
      <3>3. works' = [works EXCEPT ![t].tree = next]
        BY <2>2 DEF CommitFact
      <3> HIDE DEF next
      <3>4. [works[t] EXCEPT !.tree = next] \in TaskState
        BY <3>1, <3>2 DEF TaskState
      <3>5. works' \in [Task -> TaskState]
        BY <1>2, <3>3, <3>4 DEF ChecksTypeOK
      <3>6. strays' \in 0..MaxStrays
        BY <1>2, <2>2 DEF CommitFact, Step, ChecksTypeOK
      <3> QED BY <1>2, <2>2, <3>5, <3>6 DEF CommitFact, ChecksTypeOK
    <2>3. ASSUME NEW t \in Task, Merge(t)
          PROVE  ChecksTypeOK'
      <3>1. works[t] \in TaskState
        BY <1>2 DEF ChecksTypeOK
      <3>2. trunk' \subseteq Fact
        BY <1>2, <2>3, <3>1 DEF Merge, ChecksTypeOK, TaskState
      <3>3. [Fresh EXCEPT !.status = "done", !.integration = "merged"] \in TaskState
        BY DEF Fresh, TaskState
      <3>4. works' \in [Task -> TaskState]
        BY <1>2, <2>3, <3>3 DEF Merge, ChecksTypeOK
      <3>5. strays' \in 0..MaxStrays
        BY <1>2, <2>3 DEF Merge, Step, ChecksTypeOK
      <3> QED BY <1>2, <2>3, <3>2, <3>4, <3>5 DEF Merge, ChecksTypeOK
    <2>4. ASSUME NEW t \in Task, DoneUnmerged(t)
          PROVE  ChecksTypeOK'
      <3>1. [Fresh EXCEPT !.status = "done",
                !.integration = IF works[t].worktree = "created" THEN "skipped" ELSE "none"]
               \in TaskState
        BY DEF Fresh, TaskState
      <3>2. works' \in [Task -> TaskState]
        BY <1>2, <2>4, <3>1 DEF DoneUnmerged, ChecksTypeOK
      <3>3. strays' \in 0..MaxStrays
        BY <1>2, <2>4 DEF DoneUnmerged, Step, ChecksTypeOK
      <3> QED BY <1>2, <2>4, <3>2, <3>3 DEF DoneUnmerged, ChecksTypeOK
    <2>5. ASSUME NEW t \in Task, Reject(t)
          PROVE  ChecksTypeOK'
      <3>1. [Fresh EXCEPT !.status = "rejected", !.worktree = works[t].worktree] \in TaskState
        BY <1>2 DEF Fresh, TaskState, ChecksTypeOK
      <3>2. works' \in [Task -> TaskState]
        BY <1>2, <2>5, <3>1 DEF Reject, ChecksTypeOK
      <3> QED BY <1>2, <2>5, <3>2 DEF Reject, ChecksTypeOK
    <2>6. CASE Denied
      <3>1. denied' \in BOOLEAN
        BY <2>6, Zenon DEF Denied
      <3> QED BY <1>2, <2>6, <3>1 DEF Denied, Step, ChecksTypeOK
    <2>7. CASE UpdateCheckout
      BY <1>2, <2>7 DEF UpdateCheckout, ChecksTypeOK
    <2>8. CASE UNCHANGED checkVars
      BY <1>2, <2>8 DEF checkVars, ChecksTypeOK
    <2> QED BY <1>2, <2>1, <2>2, <2>3, <2>4, <2>5, <2>6, <2>7, <2>8 DEF ChecksNext
  <1> QED BY <1>1, <1>2, PTL DEF ChecksSpec

(* Nothing moves on the trunk, and no task is done.                        *)
LEMMA TrunkStays ==
    ASSUME RuleInv, ChecksTypeOK, UNCHANGED <<trunk, denied>>, strays' = 0 => strays = 0,
           \A u \in Task : works'[u].status = "done" => works'[u] = works[u],
           strays' = 0 => \A u \in Task : BranchFollows(u)'
    PROVE  RuleInv'
  BY DEF RuleInv, DoneIsThere, HasContracts, Has

LEMMA RuleStep ==
    ASSUME RuleInv, ChecksTypeOK, [ChecksNext]_checkVars
    PROVE  RuleInv'
  <1> USE ChecksAssumption
  <1>0. strays \in Nat /\ \A u \in Task : works[u] \in TaskState
    BY DEF ChecksTypeOK
  <1>1. ASSUME NEW t \in Task, BranchOff(t)
        PROVE  RuleInv'
    <2>1. /\ \A u \in Task : u # t => works'[u] = works[u]
          /\ works'[t].fork = trunk /\ works'[t].tree = trunk
          /\ works'[t].status = "open"
      BY <1>0, <1>1 DEF BranchOff, ChecksTypeOK, TaskState
    <2>2. strays' = 0 => \A u \in Task : BranchFollows(u)'
      BY <1>1, <2>1 DEF BranchOff, BranchFollows, RuleInv
    <2> QED BY <1>1, <2>1, <2>2, TrunkStays DEF BranchOff
  <1>2. ASSUME NEW t \in Task, NEW f \in Fact, CommitFact(t, f)
        PROVE  RuleInv'
    <2>1. /\ \A u \in Task : u # t => works'[u] = works[u]
          /\ works'[t].fork = works[t].fork
          /\ works'[t].status = "open" /\ works[t].status = "open"
          /\ works[t].worktree = "created"
          /\ f \notin works[t].tree => works'[t].tree = works[t].tree \cup {f}
      BY <1>0, <1>2 DEF CommitFact, ChecksTypeOK, TaskState
    <2>2. strays' = 0 => strays = 0 /\ f \notin works[t].tree /\ Sanctioned(t, f)
      BY <1>0, <1>2 DEF CommitFact, Step
    <2>3. strays' = 0 => BranchFollows(t)'
      BY <1>2, <2>1, <2>2 DEF CommitFact, BranchFollows, RuleInv, Sanctioned
    <2>4. strays' = 0 => \A u \in Task : BranchFollows(u)'
      BY <1>2, <2>1, <2>2, <2>3 DEF CommitFact, BranchFollows, RuleInv
    <2> QED BY <1>2, <2>1, <2>2, <2>4, TrunkStays DEF CommitFact
  <1>3. ASSUME NEW t \in Task, Merge(t)
        PROVE  RuleInv'
    <2> SUFFICES ASSUME strays' = 0
                 PROVE  /\ ~denied'
                        /\ \A f \in trunk' : RuledFact(f)
                        /\ HasContracts(trunk)'
                        /\ \A t1 \in Task : (BranchFollows(t1) /\ DoneIsThere(t1))'
      BY DEF RuleInv
    <2> DEFINE start == works[t].fork
               tree == works[t].tree
    <2>1. strays = 0 /\ Whole(t)
      BY <1>0, <1>3 DEF Merge, Step
    <2>2. /\ start \subseteq tree /\ start \subseteq trunk
          /\ \A f \in tree \ start : Sanctioned(t, f)
      BY <1>3, <2>1 DEF Merge, RuleInv, BranchFollows
    <2>3. trunk' = trunk \cup tree
      BY <1>3, <2>2 DEF Merge
    <2>4. \A f \in trunk' : RuledFact(f)
      BY <2>1, <2>2, <2>3 DEF RuleInv, RuledFact, Sanctioned
    <2>5. HasContracts(trunk)'
      BY <2>1, <2>3 DEF RuleInv, HasContracts, Whole, Has
    <2>6. /\ \A u \in Task : u # t => works'[u] = works[u]
          /\ works'[t].status = "done" /\ works'[t].integration = "merged"
      BY <1>0, <1>3 DEF Merge, ChecksTypeOK, TaskState, Fresh
    <2>7. \A u \in Task : BranchFollows(u)'
      BY <1>3, <2>1, <2>3, <2>6 DEF BranchFollows, RuleInv
    <2>8. \A u \in Task : DoneIsThere(u)'
      BY <1>3, <2>1, <2>3, <2>6 DEF DoneIsThere, RuleInv, Whole, Has
    <2> QED BY <1>3, <2>1, <2>4, <2>5, <2>7, <2>8 DEF Merge, RuleInv
  <1>4. ASSUME NEW t \in Task, DoneUnmerged(t)
        PROVE  RuleInv'
    BY <1>0, <1>4 DEF DoneUnmerged, Step, RuleInv
  <1>5. ASSUME NEW t \in Task, Reject(t)
        PROVE  RuleInv'
    <2>1. /\ \A u \in Task : u # t => works'[u] = works[u]
          /\ works'[t].status = "rejected"
      BY <1>0, <1>5 DEF Reject, ChecksTypeOK, TaskState, Fresh
    <2>2. strays' = 0 => \A u \in Task : BranchFollows(u)'
      BY <1>5, <2>1 DEF Reject, BranchFollows, RuleInv
    <2> QED BY <1>5, <2>1, <2>2, TrunkStays DEF Reject
  <1>6. CASE Denied
    BY <1>0, <1>6 DEF Denied, Step, RuleInv
  <1>7. CASE UpdateCheckout
    BY <1>7, TrunkStays DEF UpdateCheckout, RuleInv, BranchFollows
  <1>8. CASE UNCHANGED checkVars
    BY <1>8, TrunkStays DEF checkVars, RuleInv, BranchFollows
  <1> QED BY <1>1, <1>2, <1>3, <1>4, <1>5, <1>6, <1>7, <1>8 DEF ChecksNext

(* Without a stray step, and over a checkout that is up to date, the       *)
(* checks find modules that nobody has planned, and notices.               *)
LEMMA CleanFindings ==
    ASSUME RuleInv, ChecksTypeOK, strays = 0, checkout = trunk, NEW f \in Findings
    PROVE  f.severity \in {"info", "low"}
  <1> USE ChecksAssumption
  <1>0. /\ ~denied /\ HasContracts(checkout)
        /\ \A g \in checkout : RuledFact(g)
        /\ \A t \in Task : DoneIsThere(t)
    BY DEF RuleInv
  <1>1. f \notin DependencyDrift
    BY <1>0 DEF DependencyDrift, Has, RuledFact
  <1>2. CASE f \in DeclaredAbsent
    <2>1. CASE \A t \in Task : Delivers[t] = {}
      BY <1>2, <2>1 DEF DeclaredAbsent, Reported
    <2>2. ASSUME NEW m \in Module, ~Present(m), AbsentSeverity(m) # "none"
          PROVE  AbsentSeverity(m) = "low"
      <3>1. {t \in {u \in Task : m \in Delivers[u]} : works[t].status = "done"} = {}
        BY <1>0, <2>2 DEF DoneIsThere, Present, Has
      <3> QED BY <2>2, <3>1 DEF AbsentSeverity
    <2>3. CASE ~ \A t \in Task : Delivers[t] = {}
      <3>1. PICK m \in Module : /\ ~Present(m) /\ AbsentSeverity(m) # "none"
                                /\ f = Reported("structural_declared_absent", m,
                                                Clamp(AbsentSeverity(m)))
        BY <1>2, <2>3 DEF DeclaredAbsent
      <3> QED BY <2>2, <3>1 DEF Reported, Clamp
    <2> QED BY <2>1, <2>3
  <1>3. f \notin UndeclaredPresent
    BY <1>0 DEF UndeclaredPresent, Has, RuledFact
  <1>4. CASE f \in ContractDrift
    <2>1. MissingContracts = {}
      BY <1>0 DEF MissingContracts, HasContracts, Present
    <2>2. \A n \in Module : ~Has(checkout, "reshaped", n)
      BY <1>0 DEF Has, RuledFact
    <2> QED BY <1>4, <2>1, <2>2 DEF ContractDrift, Reported
  <1>5. f \notin Constitution
    BY <1>0 DEF Constitution, Has, RuledFact
  <1>6. f \notin DoneWithoutMerge
    BY <1>0 DEF DoneWithoutMerge, DoneIsThere
  <1>7. f \notin RolePermissionViolations
    BY <1>0 DEF RolePermissionViolations
  <1> QED BY <1>1, <1>2, <1>3, <1>4, <1>5, <1>6, <1>7 DEF Findings

(* FollowersAreClean: a run of the checks over a current checkout of a     *)
(* team that keeps to the rules finds nothing above "low".                 *)
THEOREM FollowersClean == ChecksSpec => []FollowersAreClean
  <1>1. ChecksInit => RuleInv
    BY FreshTyped DEF ChecksInit, RuleInv, HasContracts, Has, BranchFollows, DoneIsThere, Fresh
  <1>2. RuleInv /\ ChecksTypeOK /\ [ChecksNext]_checkVars => RuleInv'
    BY RuleStep
  <1>3. RuleInv /\ ChecksTypeOK => FollowersAreClean
    BY CleanFindings DEF FollowersAreClean
  <1> QED BY <1>1, <1>2, <1>3, ChecksTypeCorrect, PTL DEF ChecksSpec

-----------------------------------------------------------------------------
(***************************************************************************)
(* The drift run and the store it records in.                              *)
(***************************************************************************)

(* A run in flight is read or checked, and has the fields of its step.     *)
LEMMA RunFields ==
    ASSUME DriftTypeOK, run # AtRest
    PROVE  /\ run.began \in 0..MaxTime
           /\ run.links \in [Finding -> CorrectionId \cup {Unlinked}]
           /\ run.step = "checked" => run.found \subseteq Finding
  BY DEF DriftTypeOK, Runs

LEMMA StartTyped ==
    ASSUME DriftTypeOK, Start
    PROVE  run' \in Runs
  <1>1. Linkages \in [Finding -> CorrectionId \cup {Unlinked}]
    BY DEF Linkages
  <1>2. now \in 0..MaxTime
    BY DEF DriftTypeOK
  <1> QED BY <1>1, <1>2 DEF Start, Runs

LEMMA RecordedTyped ==
    ASSUME DriftTypeOK, run.step = "checked"
    PROVE  Reaped(Recorded) \in [Finding -> CorrectionId \cup {NoRow, Unlinked}]
  <1>1. run # AtRest
    BY DEF AtRest
  <1>2. Recorded \in [Finding -> CorrectionId \cup {NoRow, Unlinked}]
    BY <1>1, RunFields DEF Recorded
  <1> QED BY <1>2 DEF Reaped

(* The drift run and its store keep their types.                           *)
THEOREM DriftTypeCorrect == DriftSpec => []DriftTypeOK
  <1> USE DriftAssumption
  <1>1. DriftInit => DriftTypeOK
    <2> SUFFICES ASSUME DriftInit PROVE DriftTypeOK
      OBVIOUS
    <2>1. configured \in BOOLEAN
      BY Zenon DEF DriftInit
    <2>2. /\ row \in [Finding -> CorrectionId \cup {NoRow, Unlinked}]
          /\ correctionTask \in [CorrectionId -> {"unused", "open", "closed", "missing"}]
      BY DEF DriftInit
    <2>3. run \in Runs
      BY DEF DriftInit, Runs
    <2>4. now \in 0..MaxTime /\ due \in now..now + Interval /\ recordedAt \in 0..now
          /\ failures \in 0..MaxFailures /\ lastRunAt \in {Never} \cup 0..now
      BY DEF DriftInit
    <2> QED BY <2>1, <2>2, <2>3, <2>4 DEF DriftInit, DriftTypeOK
  <1>2. ASSUME DriftTypeOK, [DriftNext]_driftVars
        PROVE  DriftTypeOK'
    <2> USE DEF clockVars, engineVars, correctionVars
    <2>1. ASSUME NEW trigger \in Trigger, RunDrift(trigger)
          PROVE  DriftTypeOK'
      BY <1>2, <2>1, StartTyped DEF RunDrift, DriftTypeOK
    <2>2. CASE MonitorTick
      <3>1. run' \in Runs
        BY <1>2, <2>2, StartTyped DEF MonitorTick, DriftTypeOK
      <3> QED BY <1>2, <2>2, <3>1 DEF MonitorTick, DriftTypeOK
    <2>3. CASE ReadProject
      <3>1. run # AtRest
        BY <2>3 DEF ReadProject, AtRest
      <3>2. run' \in Runs
        BY <1>2, <2>3, <3>1, RunFields DEF ReadProject, Runs, DriftTypeOK
      <3> QED BY <1>2, <2>3, <3>2 DEF ReadProject, DriftTypeOK
    <2>4. CASE ReadFails
      BY <1>2, <2>4 DEF ReadFails, DriftTypeOK, Runs
    <2>5. CASE FinishRun
      <3>1. row' \in [Finding -> CorrectionId \cup {NoRow, Unlinked}]
        BY <1>2, <2>5, RecordedTyped DEF FinishRun
      <3> QED BY <1>2, <2>5, <3>1 DEF FinishRun, DriftTypeOK, Runs
    <2>6. ASSUME NEW f \in Finding, NEW k \in CallKey, NEW t \in CorrectionId,
                 CreateCorrection(f, k, t)
          PROVE  DriftTypeOK'
      BY <1>2, <2>6 DEF CreateCorrection, DriftTypeOK
    <2>7. CASE LinkCorrection
      <3>1. correction.finding \in Finding /\ correction.task \in CorrectionId
        BY <1>2, <2>7 DEF LinkCorrection, DriftTypeOK
      <3>2. row' \in [Finding -> CorrectionId \cup {NoRow, Unlinked}]
        BY <1>2, <2>7, <3>1 DEF LinkCorrection, DriftTypeOK
      <3> QED BY <1>2, <2>7, <3>2 DEF LinkCorrection, DriftTypeOK
    <2>8. ASSUME NEW t \in CorrectionId, CloseTask(t)
          PROVE  DriftTypeOK'
      BY <1>2, <2>8 DEF CloseTask, DriftTypeOK
    <2>9. ASSUME NEW f \in Finding, ProjectChanges(f)
          PROVE  DriftTypeOK'
      BY <1>2, <2>9 DEF ProjectChanges, DriftTypeOK
    <2>10. CASE DeleteTeam
      <3>1. configured' \in BOOLEAN
        BY <2>10, Zenon DEF DeleteTeam
      <3> QED BY <1>2, <2>10, <3>1 DEF DeleteTeam, DriftTypeOK
    <2>11. CASE Pass
      BY <1>2, <2>11 DEF Pass, DriftTypeOK
    <2>12. CASE UNCHANGED driftVars
      BY <1>2, <2>12 DEF driftVars, DriftTypeOK
    <2> QED BY <1>2, <2>1, <2>2, <2>3, <2>4, <2>5, <2>6, <2>7, <2>8, <2>9, <2>10, <2>11, <2>12
            DEF DriftNext
  <1> QED BY <1>1, <1>2, PTL DEF DriftSpec

(* Only the end of a run leaves the step "checked".                        *)
LEMMA EndsFinish ==
    ASSUME DriftTypeOK, DriftNext, Ends
    PROVE  FinishRun
  <1>1. run # AtRest /\ run'.step = "idle"
    BY DEF Ends, AtRest
  <1> QED BY <1>1 DEF Ends, DriftNext, RunDrift, MayStart, MonitorTick, ReadProject, ReadFails,
             CreateCorrection, LinkCorrection, CloseTask, ProjectChanges, DeleteTeam, Pass,
             engineVars, AtRest

(* RunKeepsLinks: a run that replaces the rows of a team keeps the links   *)
(* to open correction tasks, and no others.                                *)
THEOREM RunsKeepLinks == DriftSpec => RunKeepsLinks
  <1>1. ASSUME DriftTypeOK, DriftNext, Ends, NEW f \in run.found
        PROVE  LET t == run.links[f]
               IN IF t \in CorrectionId /\ correctionTask[t] = "open" THEN row'[f] = t
                  ELSE row'[f] = Unlinked
    <2>1. f \in Finding /\ run.links[f] \in CorrectionId \cup {Unlinked}
      BY <1>1, RunFields DEF Ends, AtRest
    <2>2. row' = Reaped(Recorded)
      BY <1>1, EndsFinish DEF FinishRun
    <2>3. Recorded[f] = run.links[f]
      BY <1>1, <2>1 DEF Recorded
    <2> QED BY <2>1, <2>2, <2>3 DEF Reaped
  <1>2. DriftTypeOK /\ [DriftNext]_driftVars =>
          [Ends =>
             \A f \in run.found :
                LET t == run.links[f]
                IN IF t \in CorrectionId /\ correctionTask[t] = "open" THEN row'[f] = t
                   ELSE row'[f] = Unlinked]_driftVars
    BY <1>1
  <1> QED BY <1>2, DriftTypeCorrect, PTL DEF DriftSpec, RunKeepsLinks

(* What the runs that failed have cost.                                    *)
Slack == failures * Interval

(* Findings at rest will be younger than two intervals when the timer      *)
(* fires.  While a run is in flight they were so when it began; and if the *)
(* timer has fired since, they were so then.                               *)
RefreshInv ==
    configured =>
        /\ lastRunAt # Never => lastRunAt = recordedAt
        /\ run = AtRest => due - recordedAt < 2 * Interval + Slack
        /\ run # AtRest =>
              /\ run.began <= now /\ now <= run.began + 1
              /\ run.began - recordedAt < 2 * Interval + Slack
              /\ \/ due - recordedAt < 2 * Interval + Slack
                 \/ /\ due > run.began + 1
                    /\ due - Interval - recordedAt < 2 * Interval + Slack

LEMMA SlackGrows ==
    ASSUME DriftTypeOK
    PROVE  /\ Slack \in Nat
           /\ failures' = failures => Slack' = Slack
           /\ failures' = failures + 1 => Slack' = Slack + Interval
           /\ (2 + failures) * Interval = 2 * Interval + Slack
  <1>1. failures \in Nat /\ Interval \in Nat
    BY DriftAssumption DEF DriftTypeOK
  <1> QED BY <1>1 DEF Slack

LEMMA RefreshStep ==
    ASSUME RefreshInv, DriftTypeOK, DriftTypeOK', [DriftNext]_driftVars
    PROVE  RefreshInv'
  <1> USE DEF clockVars, engineVars, correctionVars
  <1> SUFFICES ASSUME configured'
               PROVE  RefreshInv'
    BY DEF RefreshInv
  <1>0. /\ now \in Nat /\ due \in Nat /\ now <= due /\ due <= now + Interval
        /\ recordedAt \in Nat /\ recordedAt <= now
        /\ Slack \in Nat /\ Interval \in Nat /\ Interval > 1
        /\ failures' = failures => Slack' = Slack
        /\ run # AtRest => run.began \in Nat
    BY DriftAssumption, SlackGrows, RunFields DEF DriftTypeOK
  <1>1. ASSUME NEW trigger \in Trigger, RunDrift(trigger)
        PROVE  RefreshInv'
    <2>1. run = AtRest /\ run'.began = now /\ run' # AtRest
      BY <1>1 DEF RunDrift, MayStart, Start, AtRest
    <2> QED BY <1>0, <1>1, <2>1 DEF RunDrift, MayStart, RefreshInv
  <1>2. CASE MonitorTick
    <2>1. configured /\ Slack' = Slack
      BY <1>0, <1>2 DEF MonitorTick
    <2>2. CASE run # AtRest
      <3>1. run' = run
        BY <1>2, <2>2 DEF MonitorTick, MayStart
      <3>2. due = now /\ due' = now + Interval
        BY <1>2 DEF MonitorTick
      <3>3. due - recordedAt < 2 * Interval + Slack
        BY <1>0, <2>1, <2>2, <3>2 DEF RefreshInv
      <3> QED BY <1>0, <1>2, <2>1, <2>2, <3>1, <3>2, <3>3 DEF MonitorTick, RefreshInv
    <2>3. CASE run = AtRest /\ MayStart("periodic")
      <3>1. run'.began = now /\ run' # AtRest
        BY <1>2, <2>3 DEF MonitorTick, Start, AtRest
      <3> QED BY <1>0, <1>2, <2>1, <2>3, <3>1 DEF MonitorTick, RefreshInv
    <2>4. CASE run = AtRest /\ ~MayStart("periodic")
      <3>1. lastRunAt # Never /\ now - lastRunAt < Interval /\ run' = run
        BY <1>2, <2>1, <2>4 DEF MonitorTick, MayStart
      <3> QED BY <1>0, <1>2, <2>1, <2>4, <3>1 DEF MonitorTick, RefreshInv
    <2> QED BY <2>2, <2>3, <2>4
  <1>3. CASE ReadProject
    <2>1. run # AtRest /\ run' # AtRest /\ run'.began = run.began
      BY <1>3 DEF ReadProject, AtRest
    <2> QED BY <1>0, <1>3, <2>1 DEF ReadProject, RefreshInv
  <1>4. CASE ReadFails
    <2>1. run # AtRest /\ Slack' = Slack + Interval
      BY <1>4, SlackGrows DEF ReadFails, AtRest
    <2> QED BY <1>0, <1>4, <2>1 DEF ReadFails, RefreshInv
  <1>5. CASE FinishRun
    BY <1>0, <1>5 DEF FinishRun, RefreshInv
  <1>6. ASSUME NEW f \in Finding, NEW k \in CallKey, NEW t \in CorrectionId,
               CreateCorrection(f, k, t)
        PROVE  RefreshInv'
    BY <1>0, <1>6 DEF CreateCorrection, RefreshInv
  <1>7. CASE LinkCorrection
    BY <1>0, <1>7 DEF LinkCorrection, RefreshInv
  <1>8. ASSUME NEW t \in CorrectionId, CloseTask(t)
        PROVE  RefreshInv'
    BY <1>0, <1>8 DEF CloseTask, RefreshInv
  <1>9. ASSUME NEW f \in Finding, ProjectChanges(f)
        PROVE  RefreshInv'
    BY <1>0, <1>9 DEF ProjectChanges, RefreshInv
  <1>10. CASE DeleteTeam
    BY <1>10 DEF DeleteTeam
  <1>11. CASE Pass
    <2>1. run' = run /\ (run # AtRest => now' <= run.began + 1)
      BY <1>0, <1>11 DEF Pass
    <2> QED BY <1>0, <1>11, <2>1 DEF Pass, RefreshInv
  <1>12. CASE UNCHANGED driftVars
    BY <1>0, <1>12 DEF driftVars, RefreshInv
  <1> QED BY <1>1, <1>2, <1>3, <1>4, <1>5, <1>6, <1>7, <1>8, <1>9, <1>10, <1>11, <1>12
          DEF DriftNext

(* RefreshedEverySecondTick: findings are never older than two intervals   *)
(* and one more for each failed run.                                       *)
THEOREM RefreshedInTime == DriftSpec => []RefreshedEverySecondTick
  <1>1. DriftInit /\ DriftTypeOK => RefreshInv
    <2> SUFFICES ASSUME DriftInit, DriftTypeOK PROVE RefreshInv
      OBVIOUS
    <2>1. Slack \in Nat
      BY SlackGrows
    <2> QED BY <2>1, DriftAssumption DEF DriftInit, RefreshInv
  <1>2. RefreshInv /\ DriftTypeOK /\ DriftTypeOK' /\ [DriftNext]_driftVars => RefreshInv'
    BY RefreshStep
  <1>3. ASSUME RefreshInv, DriftTypeOK, configured
        PROVE  now - recordedAt <= (2 + failures) * Interval
    <2>1. (2 + failures) * Interval = 2 * Interval + Slack /\ Slack \in Nat
      BY <1>3, SlackGrows
    <2>2. now - recordedAt <= 2 * Interval + Slack
      BY <1>3, <2>1, RunFields, DriftAssumption DEF RefreshInv, DriftTypeOK
    <2> QED BY <2>1, <2>2
  <1>4. RefreshInv /\ DriftTypeOK => RefreshedEverySecondTick
    BY <1>3 DEF RefreshedEverySecondTick
  <1> QED BY <1>1, <1>2, <1>4, DriftTypeCorrect, PTL DEF DriftSpec

-----------------------------------------------------------------------------
(***************************************************************************)
(* The editor pane.                                                        *)
(***************************************************************************)

Checks == [step : {"check", "rename"}, source : Source, content : Text, expected : Text,
           over : Text, raced : BOOLEAN]

(* The kinds of calls have fields of their own.                            *)
LEMMA RequestFields ==
    ASSUME EditorTypeOK, NEW r \in Request
    PROVE  /\ request[r].step \in {"check", "rename"} => request[r] \in Checks
           /\ request[r].step = "read" =>
                 request[r] \in [step : {"read"}, of : {"open", "save", "action"}, source : Source]
           /\ request[r].step = "tool" => request[r].source \in Source
           /\ request[r].step = "answer" => request[r].file \in OpenFile
  BY DEF EditorTypeOK, Requests, Checks, Unused, Ended

LEMMA TabFields ==
    ASSUME EditorTypeOK, tab.open = "yes"
    PROVE  tab \in [open : {"yes"}, file : OpenFile, draft : Text, over : Text, saving : BOOLEAN]
  BY DEF EditorTypeOK, Tabs, NoTab, Loading

LEMMA LoadedTyped ==
    ASSUME NEW file \in OpenFile
    PROVE  /\ Loaded(file) \in Tabs
           /\ \A b \in BOOLEAN : [Loaded(file) EXCEPT !.saving = b] \in Tabs
  BY DEF Loaded, Tabs, OpenFile

LEMMA WrittenTyped ==
    ASSUME EditorTypeOK, NEW s \in Source, Written(s)
    PROVE  request' \in [Request -> Requests]
  <1>1. ASSUME NEW r \in Request, request[r].step = "rename"
        PROVE  [request[r] EXCEPT !.raced = TRUE] \in Requests
    <2>1. request[r] \in Checks
      BY <1>1, RequestFields
    <2>2. [request[r] EXCEPT !.raced = TRUE] \in Checks
      BY <2>1 DEF Checks
    <2> QED BY <2>2 DEF Requests, Checks
  <1> QED BY <1>1 DEF Written, EditorTypeOK

(* The editor pane keeps its types.                                        *)
THEOREM EditorTypeCorrect == EditorSpec => []EditorTypeOK
  <1> USE EditorAssumption
  <1>1. EditorInit => EditorTypeOK
    <2>1. EditorInit => disk \in [Source -> Text] /\ texts \in Text
      BY DEF EditorInit, Text
    <2>2. EditorInit => request \in [Request -> Requests] /\ tab \in Tabs
      BY DEF EditorInit, Requests, Tabs
    <2>3. EditorInit => acting \in BOOLEAN
      BY Zenon DEF EditorInit
    <2> QED BY <2>1, <2>2, <2>3 DEF EditorInit, EditorTypeOK
  <1>2. ASSUME EditorTypeOK, [EditorNext]_editorVars
        PROVE  EditorTypeOK'
    <2> USE <1>2
    <2>1. ASSUME NEW r \in Request, Open(r)
          PROVE  EditorTypeOK'
      <3>1. [step |-> "read", of |-> "open", source |-> sourceShown] \in Requests
        BY DEF EditorTypeOK, Requests
      <3> QED BY <2>1, <3>1 DEF Open, Send, EditorTypeOK, Tabs
    <2>2. ASSUME NEW r \in Request, Save(r)
          PROVE  EditorTypeOK'
      <3>1. tab \in [open : {"yes"}, file : OpenFile, draft : Text, over : Text, saving : BOOLEAN]
        BY <2>2, TabFields DEF Save
      <3>2. [step |-> "check", source |-> tab.file.source, content |-> tab.draft,
             expected |-> tab.file.text, over |-> tab.over, raced |-> FALSE] \in Requests
        BY <3>1 DEF OpenFile, Requests
      <3>3. [tab EXCEPT !.saving = TRUE] \in Tabs
        BY <3>1 DEF Tabs
      <3>4. request' \in [Request -> Requests]
        BY <2>2, <3>2 DEF Save, Send, EditorTypeOK
      <3> QED BY <2>2, <3>3, <3>4 DEF Save, EditorTypeOK
    <2>3. ASSUME NEW r \in Request, Act(r)
          PROVE  EditorTypeOK'
      <3>1. tab \in [open : {"yes"}, file : OpenFile, draft : Text, over : Text, saving : BOOLEAN]
        BY <2>3, TabFields DEF Act
      <3>2. [step |-> "tool", source |-> tab.file.source] \in Requests
        BY <3>1 DEF OpenFile, Requests
      <3>3. request' \in [Request -> Requests]
        BY <2>3, <3>2 DEF Act, Send, EditorTypeOK
      <3>4. acting' \in BOOLEAN
        BY <2>3, Zenon DEF Act
      <3> QED BY <2>3, <3>3, <3>4 DEF Act, EditorTypeOK
    <2>4. ASSUME NEW r \in Request, Check(r)
          PROVE  EditorTypeOK'
      <3>1. request[r] \in Checks
        BY <2>4, RequestFields DEF Check
      <3>2. /\ [request[r] EXCEPT !.step = "rename"] \in Requests
            /\ [step |-> "refused", of |-> "save"] \in Requests
        BY <3>1 DEF Checks, Requests
      <3> QED BY <2>4, <3>2 DEF Check, EditorTypeOK
    <2>5. ASSUME NEW r \in Request, Rename(r)
          PROVE  EditorTypeOK'
      <3>1. request[r] \in Checks
        BY <2>5, RequestFields DEF Rename
      <3>2. [step |-> "read", of |-> "save", source |-> request[r].source] \in Requests
        BY <3>1 DEF Checks, Requests
      <3>3. request' \in [Request -> Requests]
        BY <2>5, <3>2 DEF Rename, EditorTypeOK
      <3>4. disk' \in [Source -> Text] /\ saves' \subseteq [replaced : Text, over : Text]
        BY <2>5, <3>1 DEF Rename, EditorTypeOK, Checks
      <3> QED BY <2>5, <3>3, <3>4 DEF Rename, EditorTypeOK
    <2>6. ASSUME NEW r \in Request, Read(r)
          PROVE  EditorTypeOK'
      <3>1. request[r] \in [step : {"read"}, of : {"open", "save", "action"}, source : Source]
        BY <2>6, RequestFields DEF Read
      <3>2. [step |-> "answer", of |-> request[r].of,
             file |-> [source |-> request[r].source, text |-> disk[request[r].source]]]
            \in Requests
        BY <3>1 DEF Requests, OpenFile, EditorTypeOK
      <3> QED BY <2>6, <3>2 DEF Read, EditorTypeOK
    <2>7. ASSUME NEW r \in Request, ToolWrites(r)
          PROVE  EditorTypeOK'
      <3>1. request[r].source \in Source /\ texts' \in Text
        BY <2>7, RequestFields DEF ToolWrites, EditorTypeOK, Text
      <3>2. request' \in [Request -> Requests]
        BY <2>7, <3>1, WrittenTyped DEF ToolWrites
      <3> QED BY <2>7, <3>1, <3>2 DEF ToolWrites, EditorTypeOK
    <2>8. ASSUME NEW r \in Request, NEW ok \in BOOLEAN, ToolEnds(r, ok)
          PROVE  EditorTypeOK'
      <3>1. request[r].source \in Source
        BY <2>8, RequestFields DEF ToolEnds
      <3>2. /\ [step |-> "read", of |-> "action", source |-> request[r].source] \in Requests
            /\ [step |-> "refused", of |-> "action"] \in Requests
        BY <3>1 DEF Requests
      <3>3. request' \in [Request -> Requests]
        BY <2>8, <3>2 DEF ToolEnds, EditorTypeOK
      <3> QED BY <2>8, <3>3 DEF ToolEnds, EditorTypeOK
    <2>9. ASSUME NEW r \in Request, Answer(r)
          PROVE  EditorTypeOK'
      <3>1. request[r].file \in OpenFile
        BY <2>9, RequestFields DEF Answer
      <3>2. tab' \in Tabs
        <4>1. CASE tab = NoTab
          BY <2>9, <4>1 DEF Answer, Tabs
        <4>2. CASE tab # NoTab
          <5> DEFINE still == tab.open = "yes" /\ tab.saving /\ request[r].of # "save"
          <5>1. tab' = [Loaded(request[r].file) EXCEPT !.saving = still]
            BY <2>9, <4>2 DEF Answer
          <5>2. still \in BOOLEAN
            BY Zenon
          <5> HIDE DEF still
          <5> QED BY <3>1, <5>1, <5>2, LoadedTyped
        <4> QED BY <4>1, <4>2
      <3>3. acting' \in BOOLEAN
        BY <2>9, Zenon DEF Answer
      <3>4. request' \in [Request -> Requests]
        BY <2>9 DEF Answer, EditorTypeOK, Requests
      <3> QED BY <2>9, <3>2, <3>3, <3>4 DEF Answer, EditorTypeOK
    <2>10. ASSUME NEW r \in Request, Refused(r)
           PROVE  EditorTypeOK'
      <3>1. tab' \in Tabs
        BY <2>10, TabFields DEF Refused, EditorTypeOK, Tabs
      <3>2. acting' \in BOOLEAN
        BY <2>10, Zenon DEF Refused
      <3>3. request' \in [Request -> Requests]
        BY <2>10 DEF Refused, EditorTypeOK, Requests
      <3> QED BY <2>10, <3>1, <3>2, <3>3 DEF Refused, EditorTypeOK
    <2>11. CASE Type
      <3>1. tab \in [open : {"yes"}, file : OpenFile, draft : Text, over : Text, saving : BOOLEAN]
        BY <2>11, TabFields DEF Type
      <3>2. texts' \in Text
        BY <2>11 DEF Type, EditorTypeOK, Text
      <3>3. tab' \in Tabs
        BY <2>11, <3>1, <3>2 DEF Type, Tabs, OpenFile
      <3> QED BY <2>11, <3>2, <3>3 DEF Type, EditorTypeOK
    <2>12. CASE Revert
      BY <2>12, TabFields, LoadedTyped DEF Revert, EditorTypeOK
    <2>13. ASSUME NEW s \in Source, Close(s)
           PROVE  EditorTypeOK'
      BY <2>13 DEF Close, EditorTypeOK, Tabs
    <2>14. ASSUME NEW s \in Source, AgentWrites(s)
           PROVE  EditorTypeOK'
      <3>1. texts' \in Text
        BY <2>14 DEF AgentWrites, EditorTypeOK, Text
      <3>2. request' \in [Request -> Requests]
        BY <2>14, WrittenTyped DEF AgentWrites
      <3> QED BY <2>14, <3>1, <3>2 DEF AgentWrites, EditorTypeOK
    <2>15. CASE UNCHANGED editorVars
      BY <2>15 DEF editorVars, EditorTypeOK
    <2> QED BY <2>1, <2>2, <2>3, <2>4, <2>5, <2>6, <2>7, <2>8, <2>9, <2>10, <2>11, <2>12, <2>13,
               <2>14, <2>15 DEF EditorNext
  <1> QED BY <1>1, <1>2, PTL DEF EditorSpec

(* A draft is always typed over the text its tab was read with; a rename   *)
(* that nobody raced still finds on the disk what the check found there.   *)
(* There is one rename at a time, since nothing of the sidecar comes       *)
(* between a check and its rename.                                         *)
SeenInv ==
    /\ tab.open = "yes" => tab.over = tab.file.text
    /\ \A r \in Request : request[r].step \in {"check", "rename"} =>
          request[r].over = request[r].expected
    /\ \A r \in Request : request[r].step = "rename" /\ ~request[r].raced =>
          disk[request[r].source] = request[r].expected
    /\ \A r, q \in Request : request[r].step = "rename" /\ request[q].step = "rename" => r = q
    /\ SaveReplacesWhatWasSeen

(* A call that is neither before nor after the step being checked or       *)
(* renamed leaves the rest as it was.                                      *)
LEMMA CallsApart ==
    ASSUME EditorTypeOK, SeenInv, NEW r \in Request,
           \A q \in Request \ {r} : request'[q] = request[q],
           request'[r].step \notin {"check", "rename"},
           UNCHANGED <<disk, saves>>,
           tab'.open = "yes" => tab'.over = tab'.file.text
    PROVE  SeenInv'
  <1>1. \A q \in Request : request'[q].step \in {"check", "rename"} => request'[q] = request[q]
    OBVIOUS
  <1> QED BY <1>1 DEF SeenInv, SaveReplacesWhatWasSeen

(* Somebody else writes the file: the renames of that file are raced.      *)
LEMMA OthersWrite ==
    ASSUME EditorTypeOK, SeenInv, NEW s \in Source, NEW text,
           disk' = [disk EXCEPT ![s] = text], Written(s), UNCHANGED <<tab, saves>>
    PROVE  SeenInv'
  <1>1. \A r \in Request : request[r].step = "rename" => request[r] \in Checks
    BY RequestFields
  <1>2. ASSUME NEW r \in Request
        PROVE  /\ request'[r].step = request[r].step
               /\ request[r].step \in {"check", "rename"} =>
                     request'[r].over = request[r].over /\ request'[r].expected = request[r].expected
               /\ request[r].step = "rename" /\ ~request'[r].raced =>
                     request'[r] = request[r] /\ request[r].source # s
    BY <1>1 DEF Written, Checks
  <1>3. \A r \in Request : request[r].step = "rename" => request[r].source \in Source
    BY <1>1 DEF Checks
  <1> QED BY <1>2, <1>3 DEF SeenInv, SaveReplacesWhatWasSeen, EditorTypeOK

(* Every step of the editor keeps the invariant.                           *)
LEMMA SeenStep ==
    ASSUME EditorTypeOK, SeenInv, [EditorNext]_editorVars
    PROVE  SeenInv'
  <1>1. ASSUME NEW r \in Request, Open(r)
        PROVE  SeenInv'
    <2>1. tab'.open # "yes" /\ request'[r].step = "read"
      BY <1>1 DEF Open, Send, Loading, EditorTypeOK
    <2> QED BY <1>1, <2>1, CallsApart DEF Open, Send, EditorTypeOK
  <1>2. ASSUME NEW r \in Request, Save(r)
        PROVE  SeenInv'
    <2>1. tab \in [open : {"yes"}, file : OpenFile, draft : Text, over : Text, saving : BOOLEAN]
      BY <1>2, TabFields DEF Save
    <2>2. tab'.over = tab'.file.text
      BY <1>2, <2>1 DEF Save, SeenInv
    <2>3. /\ request'[r].step = "check" /\ request'[r].over = request'[r].expected
          /\ \A q \in Request \ {r} : request'[q] = request[q]
      BY <1>2 DEF Save, Send, SeenInv, EditorTypeOK
    <2> QED BY <1>2, <2>2, <2>3 DEF Save, SeenInv, SaveReplacesWhatWasSeen
  <1>3. ASSUME NEW r \in Request, Act(r)
        PROVE  SeenInv'
    <2>1. request'[r].step = "tool"
      BY <1>3 DEF Act, Send, EditorTypeOK
    <2> QED BY <1>3, <2>1, CallsApart DEF Act, Send, SeenInv, EditorTypeOK
  <1>4. ASSUME NEW r \in Request, Check(r)
        PROVE  SeenInv'
    <2>1. request[r] \in Checks
      BY <1>4, RequestFields DEF Check
    <2>2. CASE disk[request[r].source] = request[r].expected
      <3>1. /\ request'[r].step = "rename" /\ request'[r].source = request[r].source
            /\ request'[r].over = request[r].over /\ request'[r].expected = request[r].expected
            /\ \A q \in Request \ {r} : request'[q] = request[q]
        BY <1>4, <2>1, <2>2 DEF Check, EditorTypeOK, Checks
      <3>2. \A q \in Request : request[q].step # "rename"
        BY <1>4 DEF Check, Uninterrupted
      <3> QED BY <1>4, <2>2, <3>1, <3>2 DEF Check, SeenInv, SaveReplacesWhatWasSeen
    <2>3. CASE disk[request[r].source] # request[r].expected
      <3>1. request'[r].step = "refused"
        BY <1>4, <2>3 DEF Check, EditorTypeOK
      <3> QED BY <1>4, <3>1, CallsApart DEF Check, SeenInv, EditorTypeOK
    <2> QED BY <2>2, <2>3
  <1>5. ASSUME NEW r \in Request, Rename(r)
        PROVE  SeenInv'
    <2>1. request[r] \in Checks
      BY <1>5, RequestFields DEF Rename
    <2>2. /\ request'[r].step = "read"
          /\ \A q \in Request \ {r} : request'[q] = request[q] /\ request[q].step # "rename"
      BY <1>5 DEF Rename, SeenInv, EditorTypeOK
    <2>3. SaveReplacesWhatWasSeen'
      BY <1>5, <2>1 DEF Rename, SeenInv, SaveReplacesWhatWasSeen
    <2> QED BY <1>5, <2>2, <2>3 DEF Rename, SeenInv
  <1>6. ASSUME NEW r \in Request, Read(r)
        PROVE  SeenInv'
    <2>1. request'[r].step = "answer"
      BY <1>6 DEF Read, EditorTypeOK
    <2> QED BY <1>6, <2>1, CallsApart DEF Read, SeenInv, EditorTypeOK
  <1>7. ASSUME NEW r \in Request, ToolWrites(r)
        PROVE  SeenInv'
    BY <1>7, OthersWrite, RequestFields DEF ToolWrites
  <1>8. ASSUME NEW r \in Request, NEW ok \in BOOLEAN, ToolEnds(r, ok)
        PROVE  SeenInv'
    <2>1. request'[r].step \in {"read", "refused"}
      BY <1>8 DEF ToolEnds, EditorTypeOK
    <2> QED BY <1>8, <2>1, CallsApart DEF ToolEnds, SeenInv, EditorTypeOK
  <1>9. ASSUME NEW r \in Request, Answer(r)
        PROVE  SeenInv'
    <2>1. request'[r].step = "ended"
      BY <1>9 DEF Answer, EditorTypeOK, Ended
    <2>2. request[r].file \in OpenFile
      BY <1>9, RequestFields DEF Answer
    <2>3. tab'.open = "yes" => tab'.over = tab'.file.text
      BY <1>9, <2>2 DEF Answer, Loaded, OpenFile, NoTab
    <2> QED BY <1>9, <2>1, <2>3, CallsApart DEF Answer, EditorTypeOK
  <1>10. ASSUME NEW r \in Request, Refused(r)
         PROVE  SeenInv'
    <2>1. request'[r].step = "ended"
      BY <1>10 DEF Refused, EditorTypeOK, Ended
    <2>2. tab'.open = "yes" => tab'.over = tab'.file.text
      BY <1>10, TabFields DEF Refused, SeenInv
    <2> QED BY <1>10, <2>1, <2>2, CallsApart DEF Refused, EditorTypeOK
  <1>11. CASE Type
    <2>1. tab \in [open : {"yes"}, file : OpenFile, draft : Text, over : Text, saving : BOOLEAN]
      BY <1>11, TabFields DEF Type
    <2>2. tab'.over = tab'.file.text
      BY <1>11, <2>1 DEF Type, SeenInv, Dirty
    <2> QED BY <1>11, <2>2 DEF Type, SeenInv, SaveReplacesWhatWasSeen
  <1>12. CASE Revert
    <2>1. tab'.over = tab'.file.text
      BY <1>12, TabFields DEF Revert, Loaded
    <2> QED BY <1>12, <2>1 DEF Revert, SeenInv, SaveReplacesWhatWasSeen
  <1>13. ASSUME NEW s \in Source, Close(s)
         PROVE  SeenInv'
    BY <1>13 DEF Close, SeenInv, SaveReplacesWhatWasSeen, NoTab
  <1>14. ASSUME NEW s \in Source, AgentWrites(s)
         PROVE  SeenInv'
    BY <1>14, OthersWrite DEF AgentWrites
  <1>15. CASE UNCHANGED editorVars
    BY <1>15 DEF editorVars, SeenInv, SaveReplacesWhatWasSeen
  <1> QED BY <1>1, <1>2, <1>3, <1>4, <1>5, <1>6, <1>7, <1>8, <1>9, <1>10, <1>11, <1>12, <1>13,
             <1>14, <1>15 DEF EditorNext

(* SaveReplacesWhatWasSeen: a save that nobody raced replaces just the     *)
(* text that its draft was typed over.                                     *)
THEOREM SavesReplaceWhatWasSeen == EditorSpec => []SaveReplacesWhatWasSeen
  <1>1. EditorInit => SeenInv
    BY DEF EditorInit, SeenInv, SaveReplacesWhatWasSeen, NoTab, Unused
  <1>2. SeenInv /\ EditorTypeOK /\ [EditorNext]_editorVars => SeenInv'
    BY SeenStep
  <1>3. SeenInv => SaveReplacesWhatWasSeen
    BY DEF SeenInv
  <1> QED BY <1>1, <1>2, <1>3, EditorTypeCorrect, PTL DEF EditorSpec

-----------------------------------------------------------------------------
(***************************************************************************)
(* The live board.                                                         *)
(***************************************************************************)

(* A load that has begun is none of the two others.                        *)
LEMMA LoadFields ==
    ASSUME LiveTypeOK, NEW l \in Loads, load[l].step \in {"team", "tasks", "messages", "apply"}
    PROVE  load[l].lists \in Lists
  BY DEF LiveTypeOK, LoadStates, NotStarted, Over

LEMMA ReloadTyped ==
    ASSUME LiveTypeOK, NEW t \in Team, Reload(t)
    PROVE  /\ nonce' \in Loads /\ load' \in [Loads -> LoadStates]
           /\ load'[nonce'] = BegunLoad(t)
  <1>1. nonce' \in Loads
    BY BoardAssumption DEF Reload, LiveTypeOK, Loads
  <1>2. BegunLoad(t) \in LoadStates
    BY BoardAssumption DEF BegunLoad, LoadStates, Lists, Version, Missing
  <1> QED BY <1>1, <1>2 DEF Reload, LiveTypeOK

LEMMA LoadStepTyped ==
    ASSUME LiveTypeOK, NEW l \in Loads, NEW lists \in Lists,
           NEW next \in {"tasks", "messages", "apply"}, LoadStep(l, next, lists)
    PROVE  load' \in [Loads -> LoadStates]
  BY DEF LoadStep, LoadStates, LiveTypeOK

LEMMA TasksRead ==
    ASSUME LiveTypeOK, NEW lists \in Lists
    PROVE  [lists EXCEPT !.tasks = IF lists.team = NoTeam THEN 0 ELSE data[lists.team]] \in Lists
  <1>1. data \in [Team -> Version] /\ 0 \in Version
    BY BoardAssumption DEF LiveTypeOK, Boards, Version
  <1>2. (IF lists.team = NoTeam THEN 0 ELSE data[lists.team]) \in Version
    BY <1>1 DEF Lists
  <1> QED BY <1>2 DEF Lists

LEMMA MessagesRead ==
    ASSUME LiveTypeOK, NEW lists \in Lists, NEW ok \in BOOLEAN
    PROVE  [lists EXCEPT !.messages = IF ok /\ lists.team # NoTeam THEN data[lists.team]
                                      ELSE Missing] \in Lists
  <1>1. data \in [Team -> Version]
    BY DEF LiveTypeOK, Boards
  <1>2. (IF ok /\ lists.team # NoTeam THEN data[lists.team] ELSE Missing) \in Version \cup {Missing}
    BY <1>1 DEF Lists
  <1> HIDE DEF Missing
  <1> QED BY <1>2 DEF Lists

(* The live board keeps its types.                                         *)
THEOREM LiveTypeCorrect == LiveSpec => []LiveTypeOK
  <1> USE BoardAssumption
  <1>1. LiveInit => LiveTypeOK
    <2> SUFFICES ASSUME LiveInit PROVE LiveTypeOK
      OBVIOUS
    <2>1. BegunLoad(chosen) \in LoadStates /\ NotStarted \in LoadStates
      BY DEF LiveInit, BegunLoad, LoadStates, Lists, Version, Missing
    <2>2. load \in [Loads -> LoadStates] /\ nonce \in Loads
      BY <2>1 DEF LiveInit, Loads
    <2>3. displayed \in Lists
      BY DEF LiveInit, Lists, Version, Missing
    <2>4. data \in Boards /\ heard \in Boards /\ wire \in Seq(Boards) /\ Len(wire) <= MaxWire
      BY DEF LiveInit, Boards, Version
    <2> QED BY <2>2, <2>3, <2>4 DEF LiveInit, LiveTypeOK
  <1>2. ASSUME LiveTypeOK, [LiveNext]_boardVars
        PROVE  LiveTypeOK'
    <2>1. ASSUME NEW t \in Team, DataChanges(t)
          PROVE  LiveTypeOK'
      BY <1>2, <2>1 DEF DataChanges, LiveTypeOK, Boards, Version
    <2>2. ASSUME NEW t \in Team, Choose(t)
          PROVE  LiveTypeOK'
      BY <1>2, <2>2, ReloadTyped DEF Choose, LiveTypeOK
    <2>3. CASE Announce
      <3>1. wire \in Seq(Boards) /\ data \in Boards /\ Len(wire) + 1 <= MaxWire
        BY <1>2, <2>3 DEF Announce, LiveTypeOK
      <3>2. wire' \in Seq(Boards) /\ Len(wire') <= MaxWire
        BY <2>3, <3>1 DEF Announce
      <3>3. UNCHANGED <<data, connected, chosen, nonce, load, displayed, liveSource, heard>>
        BY <2>3 DEF Announce
      <3> QED BY <1>2, <3>2, <3>3 DEF LiveTypeOK
    <2>4. CASE Hear
      <3>1. chosen \in Team /\ Reload(chosen)
        BY <1>2, <2>4 DEF Hear, LiveTypeOK
      <3>2. nonce' \in Loads /\ load' \in [Loads -> LoadStates]
        BY <1>2, <3>1, ReloadTyped
      <3>3. heard' \in Boards /\ wire' \in Seq(Boards) /\ Len(wire') <= MaxWire
        BY <1>2, <2>4 DEF Hear, LiveTypeOK
      <3> QED BY <1>2, <2>4, <3>2, <3>3 DEF Hear, LiveTypeOK
    <2>5. CASE Connect
      <3>1. connected' \in BOOLEAN
        BY <2>5, Zenon DEF Connect
      <3>2. UNCHANGED <<data, wire, chosen, nonce, load, displayed, liveSource, heard>>
        BY <2>5 DEF Connect
      <3> QED BY <1>2, <3>1, <3>2 DEF LiveTypeOK
    <2>6. CASE Disconnect
      <3>1. connected' \in BOOLEAN
        BY <2>6, Zenon DEF Disconnect
      <3>2. /\ UNCHANGED <<data, chosen, nonce, load, displayed, liveSource, heard>>
            /\ wire' = <<>>
        BY <2>6 DEF Disconnect
      <3> QED BY <1>2, BoardAssumption, <3>1, <3>2 DEF LiveTypeOK
    <2>7. ASSUME NEW l \in Loads, NEW ok \in BOOLEAN, ListTeams(l, ok)
          PROVE  LiveTypeOK'
      <3>1. [load[l].lists EXCEPT !.team = IF ok THEN @ ELSE NoTeam] \in Lists
        BY <1>2, <2>7, LoadFields DEF ListTeams, LoadCalls, Lists
      <3>2. load' \in [Loads -> LoadStates]
        BY <1>2, <2>7, <3>1, LoadStepTyped DEF ListTeams
      <3> QED BY <1>2, <2>7, <3>2 DEF ListTeams, LiveTypeOK
    <2>8. ASSUME NEW l \in Loads, ListTasks(l)
          PROVE  LiveTypeOK'
      <3>1. load[l].lists \in Lists
        BY <1>2, <2>8, LoadFields DEF ListTasks, LoadCalls
      <3>2. [load[l].lists EXCEPT
                !.tasks = IF load[l].lists.team = NoTeam THEN 0 ELSE data[load[l].lists.team]]
            \in Lists
        BY <1>2, <3>1, TasksRead
      <3>3. load' \in [Loads -> LoadStates]
        BY <1>2, <2>8, <3>2, LoadStepTyped DEF ListTasks
      <3> QED BY <1>2, <2>8, <3>3 DEF ListTasks, LiveTypeOK
    <2>9. ASSUME NEW l \in Loads, NEW ok \in BOOLEAN, ListMessages(l, ok)
          PROVE  LiveTypeOK'
      <3>1. load[l].lists \in Lists
        BY <1>2, <2>9, LoadFields DEF ListMessages, LoadCalls
      <3>2. [load[l].lists EXCEPT
                !.messages = IF ok /\ load[l].lists.team # NoTeam
                             THEN data[load[l].lists.team] ELSE Missing] \in Lists
        BY <1>2, <3>1, MessagesRead
      <3>3. load' \in [Loads -> LoadStates]
        BY <1>2, <2>9, <3>2, LoadStepTyped DEF ListMessages
      <3> QED BY <1>2, <2>9, <3>3 DEF ListMessages, LiveTypeOK
    <2>10. ASSUME NEW l \in Loads, Apply(l)
           PROVE  LiveTypeOK'
      BY <1>2, <2>10, LoadFields DEF Apply, LiveTypeOK, LoadStates
    <2>11. ASSUME NEW l \in Loads, Fail(l)
           PROVE  LiveTypeOK'
      BY <1>2, <2>11 DEF Fail, LiveTypeOK, LoadStates
    <2>12. CASE UNCHANGED boardVars
      BY <1>2, <2>12 DEF boardVars, LiveTypeOK
    <2> QED BY <1>2, <2>1, <2>2, <2>3, <2>4, <2>5, <2>6, <2>7, <2>8, <2>9, <2>10, <2>11, <2>12
            DEF LiveNext
  <1> QED BY <1>1, <1>2, PTL DEF LiveSpec

(* What an event tells is not ahead of the data.                           *)
HeardInv ==
    /\ \A t \in Team : heard[t] <= data[t]
    /\ \A i \in 1..Len(wire), t \in Team : wire[i][t] <= data[t]

(* The load under way reads the chosen team, or what the default shows,    *)
(* and has not read less than what was heard.                              *)
Current(lists, step) ==
    lists.team # NoTeam =>
        /\ lists.team = chosen
        /\ step \in {"messages", "apply"} => lists.tasks >= heard[chosen]
        /\ step = "apply" /\ lists.messages \in Nat => lists.messages >= heard[chosen]

LoadIsCurrent ==
    load[nonce].step \in {"team", "tasks", "messages", "apply"} =>
        Current(load[nonce].lists, load[nonce].step)

CurrentInv ==
    /\ HeardInv
    /\ LoadIsCurrent
    /\ load[nonce] = Over /\ liveSource = "live" => Current(displayed, "apply")

LEMMA ReloadCurrent ==
    ASSUME LiveTypeOK, LiveTypeOK', HeardInv', NEW t \in Team, chosen' = t, Reload(t)
    PROVE  CurrentInv'
  <1>1. load'[nonce'] = BegunLoad(t)
    BY ReloadTyped
  <1>2. LoadIsCurrent'
    BY <1>1 DEF LoadIsCurrent, Current, BegunLoad
  <1>3. load'[nonce'] # Over
    BY <1>1 DEF BegunLoad, Over
  <1> QED BY <1>2, <1>3 DEF CurrentInv

LEMMA OtherLoadStep ==
    ASSUME CurrentInv, UNCHANGED <<data, wire, heard, chosen, nonce, displayed, liveSource>>,
           load'[nonce] = load[nonce]
    PROVE  CurrentInv'
  BY DEF CurrentInv, HeardInv, LoadIsCurrent, Current

LEMMA ReadStep ==
    ASSUME CurrentInv, LiveTypeOK, NEW next \in {"tasks", "messages", "apply"}, NEW lists \in Lists,
           UNCHANGED <<data, wire, heard, chosen, nonce>>,
           LoadStep(nonce, next, lists), Current(lists, next)
    PROVE  CurrentInv'
  <1>1. load'[nonce] = [step |-> next, lists |-> lists]
    BY DEF LoadStep, LiveTypeOK
  <1>2. LoadIsCurrent'
    BY <1>1 DEF LoadIsCurrent, Current
  <1>3. load'[nonce'] # Over
    BY <1>1 DEF Over
  <1> QED BY <1>2, <1>3 DEF CurrentInv, HeardInv

(* Every step of the board keeps the invariant.                            *)
LEMMA CurrentStep ==
    ASSUME CurrentInv, LiveTypeOK, LiveTypeOK', [LiveNext]_boardVars
    PROVE  CurrentInv'
  <1> USE BoardAssumption
  <1>1. ASSUME NEW t \in Team, DataChanges(t)
        PROVE  CurrentInv'
    <2>1. /\ \A u \in Team : data[u] \in Int /\ data'[u] \in Int /\ data'[u] >= data[u]
          /\ \A u \in Team : heard[u] \in Int
          /\ \A i \in 1..Len(wire), u \in Team : wire[i][u] \in Int
      BY <1>1 DEF DataChanges, LiveTypeOK, Boards, Version
    <2>2. HeardInv'
      BY <1>1, <2>1 DEF DataChanges, HeardInv, CurrentInv
    <2> QED BY <1>1, <2>2 DEF DataChanges, CurrentInv, LoadIsCurrent, Current
  <1>2. ASSUME NEW t \in Team, Choose(t)
        PROVE  CurrentInv'
    BY <1>2, ReloadCurrent DEF Choose, HeardInv, CurrentInv
  <1>3. CASE Announce
    <2>1. HeardInv'
      <3>1. \A i \in 1..Len(wire') : wire'[i] = IF i <= Len(wire) THEN wire[i] ELSE data
        BY <1>3 DEF Announce, LiveTypeOK
      <3>2. \A t \in Team : data[t] \in Int
        BY DEF LiveTypeOK, Boards, Version
      <3>3. Len(wire) \in Nat
        BY DEF LiveTypeOK
      <3> QED BY <1>3, <3>1, <3>2, <3>3 DEF Announce, HeardInv, CurrentInv
    <2> QED BY <1>3, <2>1 DEF Announce, CurrentInv, LoadIsCurrent, Current
  <1>4. CASE Hear
    <2>1. /\ Len(wire) \in Nat /\ Len(wire) > 0 /\ Len(wire') = Len(wire) - 1
          /\ heard' = wire[1]
          /\ \A i \in 1..Len(wire') : wire'[i] = wire[i + 1]
      BY <1>4 DEF Hear, LiveTypeOK
    <2>2. HeardInv'
      BY <1>4, <2>1 DEF Hear, HeardInv, CurrentInv
    <2> QED BY <1>4, <2>2, ReloadCurrent DEF Hear, LiveTypeOK
  <1>5. CASE Connect
    BY <1>5 DEF Connect, CurrentInv, HeardInv, LoadIsCurrent, Current
  <1>6. CASE Disconnect
    BY <1>6 DEF Disconnect, CurrentInv, HeardInv, LoadIsCurrent, Current
  <1>7. ASSUME NEW l \in Loads, NEW ok \in BOOLEAN, ListTeams(l, ok)
        PROVE  CurrentInv'
    <2> DEFINE lists == [load[l].lists EXCEPT !.team = IF ok THEN @ ELSE NoTeam]
    <2>1. l = nonce /\ load[l].lists \in Lists /\ load[nonce].step = "team"
      BY <1>7, LoadFields DEF ListTeams, LoadCalls
    <2>2. lists \in Lists
      BY <2>1 DEF Lists
    <2>3. Current(lists, "tasks")
      BY <2>1 DEF Current, LoadIsCurrent, CurrentInv, Lists
    <2> QED BY <1>7, <2>1, <2>2, <2>3, ReadStep DEF ListTeams
  <1>8. ASSUME NEW l \in Loads, ListTasks(l)
        PROVE  CurrentInv'
    <2> DEFINE lists == [load[l].lists EXCEPT
                !.tasks = IF load[l].lists.team = NoTeam THEN 0 ELSE data[load[l].lists.team]]
    <2>1. l = nonce /\ load[l].lists \in Lists /\ load[nonce].step = "tasks"
      BY <1>8, LoadFields DEF ListTasks, LoadCalls
    <2>2. /\ lists.team = load[l].lists.team
          /\ lists.team # NoTeam => lists.tasks = data[lists.team]
      BY <2>1 DEF Lists
    <2>3. lists \in Lists
      BY <2>1, TasksRead
    <2>4. \A t \in Team : data[t] \in Int /\ heard[t] \in Int
      BY DEF LiveTypeOK, Boards, Version
    <2>5. chosen \in Team
      BY DEF LiveTypeOK
    <2>6. Current(lists, "messages")
      BY <2>1, <2>2, <2>4, <2>5 DEF Current, LoadIsCurrent, CurrentInv, HeardInv
    <2> QED BY <1>8, <2>1, <2>3, <2>6, ReadStep DEF ListTasks
  <1>9. ASSUME NEW l \in Loads, NEW ok \in BOOLEAN, ListMessages(l, ok)
        PROVE  CurrentInv'
    <2> DEFINE lists == [load[l].lists EXCEPT
                !.messages = IF ok /\ load[l].lists.team # NoTeam
                             THEN data[load[l].lists.team] ELSE Missing]
    <2>1. l = nonce /\ load[l].lists \in Lists /\ load[nonce].step = "messages"
      BY <1>9, LoadFields DEF ListMessages, LoadCalls
    <2>2. /\ lists.team = load[l].lists.team /\ lists.tasks = load[l].lists.tasks
          /\ lists.messages \in {data[lists.team], Missing}
      BY <2>1 DEF Lists
    <2>3. lists \in Lists
      BY <2>1, MessagesRead
    <2>4. \A t \in Team : data[t] \in Int /\ heard[t] \in Int
      BY DEF LiveTypeOK, Boards, Version
    <2>5. chosen \in Team
      BY DEF LiveTypeOK
    <2>6. Current(lists, "apply")
      BY <2>1, <2>2, <2>4, <2>5 DEF Current, LoadIsCurrent, CurrentInv, HeardInv, Missing
    <2> QED BY <1>9, <2>1, <2>3, <2>6, ReadStep DEF ListMessages
  <1>10. ASSUME NEW l \in Loads, Apply(l)
         PROVE  CurrentInv'
    <2>1. CASE l = nonce
      <3>1. /\ load'[nonce'] = Over /\ displayed' = load[nonce].lists
            /\ load[nonce].step = "apply"
            /\ UNCHANGED <<data, wire, chosen, heard>>
        BY <1>10, <2>1 DEF Apply, LiveTypeOK
      <3>2. Current(displayed, "apply")'
        BY <3>1 DEF Current, CurrentInv, LoadIsCurrent
      <3> QED BY <3>1, <3>2 DEF CurrentInv, HeardInv, LoadIsCurrent, Over
    <2>2. CASE l # nonce
      BY <1>10, <2>2, OtherLoadStep DEF Apply, LiveTypeOK
    <2> QED BY <2>1, <2>2
  <1>11. ASSUME NEW l \in Loads, Fail(l)
         PROVE  CurrentInv'
    <2>1. CASE l = nonce
      <3>1. /\ load'[nonce'] = Over /\ liveSource' = "empty"
            /\ UNCHANGED <<data, wire, chosen, heard>>
        BY <1>11, <2>1 DEF Fail, LiveTypeOK
      <3> QED BY <3>1 DEF CurrentInv, HeardInv, LoadIsCurrent, Over
    <2>2. CASE l # nonce
      BY <1>11, <2>2, OtherLoadStep DEF Fail, LiveTypeOK
    <2> QED BY <2>1, <2>2
  <1>12. CASE UNCHANGED boardVars
    BY <1>12 DEF boardVars, CurrentInv, HeardInv, LoadIsCurrent, Current
  <1> QED BY <1>1, <1>2, <1>3, <1>4, <1>5, <1>6, <1>7, <1>8, <1>9, <1>10, <1>11, <1>12
          DEF LiveNext

(* RestingBoardIsCurrent: a board at rest shows the chosen team and all    *)
(* that it heard of.                                                       *)
THEOREM RestingBoard == LiveSpec => []RestingBoardIsCurrent
  <1>1. LiveInit /\ LiveTypeOK => CurrentInv
    <2> SUFFICES ASSUME LiveInit, LiveTypeOK PROVE CurrentInv
      OBVIOUS
    <2>1. load[nonce] = BegunLoad(chosen)
      BY DEF LiveInit, LiveTypeOK
    <2>2. LoadIsCurrent /\ load[nonce] # Over
      BY <2>1 DEF LoadIsCurrent, Current, BegunLoad, Over
    <2>3. HeardInv
      BY DEF LiveInit, HeardInv
    <2> QED BY <2>2, <2>3 DEF CurrentInv
  <1>2. CurrentInv /\ LiveTypeOK /\ LiveTypeOK' /\ [LiveNext]_boardVars => CurrentInv'
    BY CurrentStep
  <1>3. CurrentInv => RestingBoardIsCurrent
    BY DEF CurrentInv, Current, RestingBoardIsCurrent
  <1> QED BY <1>1, <1>2, <1>3, LiveTypeCorrect, PTL DEF LiveSpec

-----------------------------------------------------------------------------
(***************************************************************************)
(* The board and its watchers together.  A behaviour of the instance is    *)
(* one of each component at once: so each of the theorems above, and those *)
(* of TaskBoardProofs, holds of it.                                        *)
(***************************************************************************)

(* The instance adds nothing to its components: seen by any of them, each  *)
(* of its steps is one the component's own specification allows.           *)
THEOREM BoardIsItsComponents ==
    MCSpec => Spec /\ EditorSpec /\ LiveSpec /\ DriftSpec /\ ChecksSpec /\ GateSpec
  <1> DEFINE all == <<vars, editorVars, boardVars, driftVars, checkVars, gateVars, part>>
  <1>1. MCInit => Init /\ EditorInit /\ LiveInit /\ DriftInit /\ ChecksInit /\ GateInit
    BY DEF MCInit
  <1>2. [MCNext]_all => [Next]_vars
    BY DEF MCNext
  <1>3. [MCNext]_all => [EditorNext]_editorVars
    BY DEF MCNext
  <1>4. [MCNext]_all => [LiveNext]_boardVars
    BY DEF MCNext
  <1>5. [MCNext]_all => [DriftNext]_driftVars
    BY DEF MCNext
  <1>6. [MCNext]_all => [ChecksNext]_checkVars
    BY DEF MCNext
  <1>7. [MCNext]_all => [GateNext]_gateVars
    BY DEF MCNext
  <1> QED BY <1>1, <1>2, <1>3, <1>4, <1>5, <1>6, <1>7, PTL
          DEF MCSpec, Spec, EditorSpec, LiveSpec, DriftSpec, ChecksSpec, GateSpec

(* BoardTypeOK: tasks, drift runs and their checks, gated merges, the      *)
(* editor's tabs and the live board keep their types.                      *)
THEOREM WatchedTypeCorrect == MCSpec => []BoardTypeOK
  <1>1. TypeOK /\ EditorTypeOK /\ LiveTypeOK /\ DriftTypeOK /\ ChecksTypeOK /\ GateTypeOK
          => BoardTypeOK
    BY DEF BoardTypeOK
  <1> QED BY <1>1, BoardIsItsComponents, BoardTypeCorrect, EditorTypeCorrect,
             LiveTypeCorrect, DriftTypeCorrect, ChecksTypeCorrect, GateTypeCorrect, PTL
=============================================================================
