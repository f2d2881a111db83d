------------------------------ MODULE Mailbox ------------------------------
(***************************************************************************)
(* What a delivery path promises for each message: it may be handed over   *)
(* several times, is acknowledged only after it was handed over, and is    *)
(* never handed over once it is acknowledged.                              *)
(***************************************************************************)
EXTENDS Naturals

CONSTANT Message

VARIABLES
    box,     \* "absent", "open" or "acked"
    handed   \* hand-overs so far, 2 standing for two or more

mailVars == <<box, handed>>

Init ==
    /\ box = [m \in Message |-> "absent"]
    /\ handed = [m \in Message |-> 0]

Put(m) ==
    /\ box[m] = "absent"
    /\ box' = [box EXCEPT ![m] = "open"]
    /\ UNCHANGED handed

HandOver(m) ==
    /\ box[m] = "open"
    /\ handed' = [handed EXCEPT ![m] = IF @ < 2 THEN @ + 1 ELSE @]
    /\ UNCHANGED box

Acknowledge(m) ==
    /\ box[m] = "open"
    /\ handed[m] > 0
    /\ box' = [box EXCEPT ![m] = "acked"]
    /\ UNCHANGED handed

Next == \E m \in Message : Put(m) \/ HandOver(m) \/ Acknowledge(m)

Spec == Init /\ [][Next]_mailVars
=============================================================================
