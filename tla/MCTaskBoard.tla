---------------------------- MODULE MCTaskBoard ----------------------------
(***************************************************************************)
(* Instances for TLC of the task board, with a lead and a developer; of    *)
(* two screens of the UI, the live board and the editor pane; and of what  *)
(* watches over the tasks: drift runs, their checks, and the gate of       *)
(* merges.  They share no state here, so a behaviour follows one of them,  *)
(* chosen at the start (part).                                             *)
(***************************************************************************)
EXTENDS TaskBoard, MergeGate, IdeEditor, LiveBoard, Drift, DriftChecks, TLC

CONSTANTS lead, dev, Parts

VARIABLE part

(* Two tasks deliver the first module, one of them the second as well; the *)
(* third is planned by nobody.                                             *)
MCDelivers == [t \in Task |-> IF t = CHOOSE u \in Task : TRUE THEN {"m1"} ELSE {"m1", "m2"}]

MCRoleOf == (lead :> "lead") @@ (dev :> "developer")

MCCreation == {<<FALSE, TRUE>>, <<TRUE, TRUE>>}

(* The sources are alike, and so are the teams: which one is shown first   *)
(* does not matter.                                                        *)
MCInit ==
    /\ Init /\ EditorInit /\ LiveInit /\ DriftInit /\ ChecksInit /\ GateInit
    /\ part \in Parts
    /\ sourceShown = CHOOSE s \in Source : TRUE
    /\ chosen = CHOOSE t \in Team : TRUE
    /\ part = "gate" \/ base = [f \in File |-> Absent]

MCNext ==
    /\ UNCHANGED part
    /\ \/ part = "tasks" /\ Next
       \/ part # "tasks" /\ UNCHANGED vars
    /\ \/ part = "editor" /\ EditorNext
       \/ part # "editor" /\ UNCHANGED editorVars
    /\ \/ part = "board" /\ LiveNext
       \/ part # "board" /\ UNCHANGED boardVars
    /\ \/ part = "drift" /\ DriftNext
       \/ part # "drift" /\ UNCHANGED driftVars
    /\ \/ part = "checks" /\ ChecksNext
       \/ part # "checks" /\ UNCHANGED checkVars
    /\ \/ part = "gate" /\ GateNext
       \/ part # "gate" /\ UNCHANGED gateVars

MCSpec == MCInit /\ [][MCNext]_<<vars, editorVars, boardVars, driftVars, checkVars, gateVars, part>>

(* Plans and reviews do not read each other, so the search follows one or  *)
(* the other: states in which nobody requested or decided a review of a    *)
(* task that was created, and a human approval is given once there is a    *)
(* worktree; and states without a plan, a test run or a human approval.    *)
(* The calls of the editor are numbered as they are made.                  *)
MCFocus ==
    /\ \/ /\ \A a \in Agent : proc[a].pc \notin {"classify", "request", "decideReview"}
          /\ task.review = NoReview
          /\ ~orphan
          /\ task.approved => HasWorktree
       \/ /\ task.plan = NoPlan
          /\ task.test = "none"
          /\ ~task.approved
    /\ \A r \in Request : request[r].step # "unused" =>
           \A q \in 1..r - 1 : request[q].step # "unused"

(* The type invariants together.                                           *)
BoardTypeOK ==
    /\ part = "tasks" => TypeOK
    /\ part = "editor" => EditorTypeOK
    /\ part = "board" => LiveTypeOK
    /\ part = "drift" => DriftTypeOK
    /\ part = "checks" => ChecksTypeOK
    /\ part = "gate" => GateTypeOK
=============================================================================
