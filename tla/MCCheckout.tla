----------------------------- MODULE MCCheckout -----------------------------
(***************************************************************************)
(* An instance of Checkout for TLC: a lead alone.                          *)
(***************************************************************************)
EXTENDS Checkout, TLC

CONSTANT lead

MCRoleOf == lead :> "lead"
MCCreation == {<<TRUE, FALSE>>}
=============================================================================
