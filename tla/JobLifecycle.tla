---------------------------- MODULE JobLifecycle ----------------------------
(***************************************************************************)
(* What a bulk PDF job promises the people who wait for it, without queues, *)
(* workers or restarts: at most one job is active, its progress only grows *)
(* and never counts a batch twice, its ZIP is assembled only from every    *)
(* batch, it either delivers that ZIP or fails, and what it delivered stays *)
(* available until it expires.                                             *)
(***************************************************************************)
EXTENDS Integers

CONSTANTS
    Jobs,
    Total   \* batches of a job

VARIABLES
    phase,      \* of each job
    progress,   \* how many of its batches are done
    available   \* the jobs whose complete ZIP can be downloaded

vars == <<phase, progress, available>>

Active == {"generating", "assembling"}

Init ==
    /\ phase = [j \in Jobs |-> "none"]
    /\ progress = [j \in Jobs |-> 0]
    /\ available = {}

Open(j) ==
    /\ phase[j] = "none"
    /\ \A i \in Jobs : phase[i] \notin Active
    /\ phase' = [phase EXCEPT ![j] = "generating"]
    /\ UNCHANGED <<progress, available>>

\* One more batch; the last one starts the assembly of the ZIP.
Advance(j) ==
    /\ phase[j] = "generating" /\ progress[j] < Total
    /\ progress' = [progress EXCEPT ![j] = @ + 1]
    /\ phase' = [phase EXCEPT ![j] = IF progress'[j] = Total THEN "assembling" ELSE @]
    /\ UNCHANGED available

Deliver(j) ==
    /\ phase[j] = "assembling"
    /\ phase' = [phase EXCEPT ![j] = "delivered"]
    /\ available' = available \cup {j}
    /\ UNCHANGED progress

Fail(j) ==
    /\ phase[j] \in Active
    /\ phase' = [phase EXCEPT ![j] = "failed"]
    /\ UNCHANGED <<progress, available>>

Expire(j) ==
    /\ phase[j] = "delivered"
    /\ phase' = [phase EXCEPT ![j] = "expired"]
    /\ available' = available \ {j}
    /\ UNCHANGED progress

Next == \E j \in Jobs : Open(j) \/ Advance(j) \/ Deliver(j) \/ Fail(j) \/ Expire(j)

Spec == Init /\ [][Next]_vars
=============================================================================
