---------------------------- MODULE MCDelivery ----------------------------
(***************************************************************************)
(* Instances of Delivery for TLC, with one agent.  A behaviour has either  *)
(* one message and all the asynchronous deliveries ("calls"), or several   *)
(* messages, one delivery at a time, and no adapter that refuses a turn    *)
(* for no reason ("messages").                                             *)
(***************************************************************************)
EXTENDS Delivery, TLC

CONSTANTS lead, m1, t1, gemini, Scenes

VARIABLE scene

MCTo == [m \in Message |-> lead]

InScene ==
    \/ scene = "calls" /\ \A m \in Message \ {m1} : posted'[m] = 0
    \/ /\ scene = "messages"
       /\ \A t \in Task \ {t1} : task'[t] = task[t]
       /\ failures' = failures
       /\ \A m \in Message : posted'[m] # 0 => posted'[m1] # 0      \* the first is called m1
       /\ \A a \in Agent : directory'[a] # None => directory'[a].payload[1] # gemini

MCInit == Init /\ scene \in Scenes

MCSpec ==
    /\ MCInit
    /\ [][Next /\ InScene /\ UNCHANGED scene]_<<vars, scene>>
    /\ WF_vars(Boot)
    /\ \A t \in Task : /\ WF_vars(Progress(t))
                       /\ WF_vars((scene = "calls" \/ t = t1) /\ Tick(t))
=============================================================================
