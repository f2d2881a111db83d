----------------------------- MODULE MCRuntime ------------------------------
(***************************************************************************)
(* Instances of the runtime layer for TLC: the supervisors of two          *)
(* projects, the turn queue of a per-turn agent, and the compaction of a   *)
(* Claude agent's context.  They share no state here, so a behaviour       *)
(* follows one of them, chosen at the start (part).                        *)
(***************************************************************************)
EXTENDS Supervisor, Compaction, TurnQueue, TLC

CONSTANT Parts

VARIABLE part

MCInit ==
    /\ Init /\ QueueInit /\ CompactionInit /\ part \in Parts
    /\ part = "queue" \/ queue[launches].cli = (CHOOSE cli \in Cli : TRUE)

MCNext ==
    /\ UNCHANGED part
    /\ \/ part = "supervisor" /\ Next
       \/ part # "supervisor" /\ UNCHANGED vars
    /\ \/ part = "queue" /\ QueueNext
       \/ part # "queue" /\ UNCHANGED queueVars
    /\ \/ part = "compaction" /\ CompactionNext
       \/ part # "compaction" /\ UNCHANGED compactionVars

MCSpec == MCInit /\ [][MCNext]_<<vars, queueVars, compactionVars, part>>

SymmetryOfRuntime == Permutations(Sidecar) \cup Permutations(Caller)

(* One sidecar alone, with every launch and spawn the bounds allow; or the *)
(* two of them, one launch at a time each and one spawn less.  The calls   *)
(* of the queue are numbered as they are made.                             *)
Focus ==
    /\ \/ \E s \in Sidecar : session[s] = 0
       \/ /\ \A s \in Sidecar : Cardinality({c \in Caller : caller[s][c] # "idle"}) <= 1
          /\ Unspawned # {}
    /\ \A c \in Call : outcome[c] # "none" => \A d \in 1..c - 1 : outcome[d] # "none"

(* The type invariants together.                                           *)
RuntimeTypeOK ==
    /\ part = "supervisor" => TypeOK
    /\ part = "queue" => QueueTypeOK
    /\ part = "compaction" => CompactionTypeOK
=============================================================================
