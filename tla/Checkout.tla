------------------------------ MODULE Checkout ------------------------------
(***************************************************************************)
(* The task board and the checkout of the project root, where the base     *)
(* branch is checked out.  An integration moves the branch (update-ref)    *)
(* and leaves index and files as they were, so that the checkout lags      *)
(* behind its own HEAD; ide_checkpoint_task commits what the checkout has. *)
(*                                                                         *)
(* The tool names its source, and does so with the project root when the   *)
(* caller names none (resolveIdeSourceRoot).  A checkpoint of a task's     *)
(* worktree commits to the task branch, which the board does not look at   *)
(* but to merge it: a stuttering step here.                                *)
(***************************************************************************)
EXTENDS TaskBoard

VARIABLE checkout       \* what index and files of the project root contain

checkoutVars == <<vars, checkout>>

CheckoutTypeOK == TypeOK /\ checkout \subseteq Change

CheckoutInit == Init /\ checkout = landed

(* A call of the board; or a commit or pull of the operator, who works in  *)
(* a checkout that is up to date.                                          *)
Board ==
    /\ Next
    /\ IF "push" \in landed' \ landed THEN checkout = landed /\ checkout' = landed'
                                      ELSE UNCHANGED checkout

(* git add -A and git commit in the project root; nothing happens when the *)
(* checkout is what HEAD has.                                              *)
Checkpoint(a) ==
    /\ RoleOf[a] \in {"lead", "human"}
    /\ proc[a].pc = "idle"
    /\ checkout # landed
    /\ tip < MaxTips
    /\ landed' = checkout
    /\ tip' = tip + 1
    /\ UNCHANGED <<task, dir, branch, proc, passed, orphan, checkout>>

(* The operator brings the checkout up to its branch by hand.              *)
Refresh ==
    /\ checkout' = landed
    /\ UNCHANGED vars

CheckoutNext == Board \/ (\E a \in Agent : Checkpoint(a)) \/ Refresh

CheckoutSpec == CheckoutInit /\ [][CheckoutNext]_checkoutVars
=============================================================================
