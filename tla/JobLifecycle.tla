---------------------------- MODULE JobLifecycle ----------------------------
(***************************************************************************)
(* What the synchronization queue promises, without workers, locks, leases *)
(* or clocks: a job is tried at most MaxAttempts times, one at a time for  *)
(* each user, never again once it is done, exhausted or removed, and a job *)
(* that was removed before its execution began is not executed.            *)
(***************************************************************************)
EXTENDS Naturals

CONSTANTS Jobs, Users, Owner, MaxAttempts

VARIABLES
    phase,  \* of each job
    tries   \* attempts consumed by each job

lifecycleVars == <<phase, tries>>

Phases == {"none", "queued", "reserved", "active", "done", "exhausted", "lost", "gone"}

LifecycleInit ==
    /\ phase = [j \in Jobs |-> "none"]
    /\ tries = [j \in Jobs |-> 0]

Submit(j) ==
    /\ phase[j] = "none"
    /\ phase' = [phase EXCEPT ![j] = "queued"]
    /\ UNCHANGED tries

Reserve(j) ==
    /\ phase[j] = "queued"
    /\ tries[j] < MaxAttempts
    /\ phase' = [phase EXCEPT ![j] = "reserved"]
    /\ tries' = [tries EXCEPT ![j] = @ + 1]

Start(j) ==
    /\ phase[j] = "reserved"
    /\ \A i \in Jobs : Owner[i] = Owner[j] => phase[i] # "active"
    /\ phase' = [phase EXCEPT ![j] = "active"]
    /\ UNCHANGED tries

\* The execution ends: successfully, with or without a further try, for a job
\* that was removed meanwhile, or because it was cut off.
Finish(j) ==
    /\ phase[j] = "active"
    /\ \E outcome \in {"done", "lost", "gone"} \cup
                      {IF tries[j] < MaxAttempts THEN "queued" ELSE "exhausted"} :
          phase' = [phase EXCEPT ![j] = outcome]
    /\ UNCHANGED tries

Lose(j) ==
    /\ phase[j] = "reserved"
    /\ phase' = [phase EXCEPT ![j] = "lost"]
    /\ UNCHANGED tries

\* Removing jobs does not stop an execution that has begun.
Remove(S) ==
    /\ phase' = [j \in Jobs |-> IF j \in S /\ phase[j] \notin {"none", "active"} THEN "gone"
                                ELSE phase[j]]
    /\ UNCHANGED tries

LifecycleNext ==
    \/ \E j \in Jobs : Submit(j) \/ Reserve(j) \/ Start(j) \/ Finish(j) \/ Lose(j)
    \/ \E S \in SUBSET Jobs : Remove(S)

LifecycleSpec == LifecycleInit /\ [][LifecycleNext]_lifecycleVars
=============================================================================
