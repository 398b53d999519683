-------------------------------- MODULE JobPool --------------------------------
(***************************************************************************)
(* What a group of threads promises to the code that fills it and runs it: *)
(* a job that was inserted is started at most once, at most Limit jobs     *)
(* work at the same time, and run() returns only when every job has done   *)
(* its work.                                                               *)
(***************************************************************************)
EXTENDS Integers, FiniteSets

CONSTANTS Jobs, Limit

VARIABLES job,      \* "absent", "pending", "running" or "done"
          returned  \* run() has returned

vars == <<job, returned>>

Running == {j \in Jobs : job[j] = "running"}

Init == /\ job = [j \in Jobs |-> "absent"]
        /\ returned = FALSE

Submit(j) == /\ job[j] = "absent"
             /\ job' = [job EXCEPT ![j] = "pending"]
             /\ UNCHANGED returned

Start(j) == /\ job[j] = "pending"
            /\ Cardinality(Running) < Limit
            /\ job' = [job EXCEPT ![j] = "running"]
            /\ UNCHANGED returned

Finish(j) == /\ job[j] = "running"
             /\ job' = [job EXCEPT ![j] = "done"]
             /\ UNCHANGED returned

Return == /\ \A j \in Jobs : job[j] \in {"absent", "done"}
          /\ returned' = TRUE
          /\ UNCHANGED job

Next == /\ ~ returned
        /\ \/ \E j \in Jobs : Submit(j) \/ Start(j) \/ Finish(j)
           \/ Return

Spec == Init /\ [][Next]_vars
===============================================================================
