--------------------------- MODULE DetachThreadGroup ---------------------------
(***************************************************************************)
(* THREAD_GROUP of dynare++ (tl/cc/sthread.hweb, sthread.cweb): the POSIX  *)
(* build of detach_thread_group with its condition_counter.                *)
(*                                                                         *)
(* The main thread inserts jobs and calls run(), which creates one         *)
(* detached thread per job, never more than max_parallel_threads at a      *)
(* time. Detached threads cannot be joined: run() knows about them through *)
(* the counter only, which main increases before it creates a thread and   *)
(* the thread decreases when its operator() has returned. The counter is a *)
(* member of the group and dies with it.                                   *)
(*                                                                         *)
(* A thread whose operator() throws leaves by pthread_exit in the handler  *)
(* and does not decrease the counter. The result of pthread_create is not  *)
(* looked at: a thread that could not be created does not decrease it      *)
(* either.                                                                 *)
(***************************************************************************)
EXTENDS Integers, FiniteSets

CONSTANTS MaxJobs,      \* the jobs a group is given at most
          MaxParallel,  \* max_parallel_threads, any int the user has typed
          Throwing,     \* jobs whose operator() may throw
          Failing,      \* jobs for which pthread_create may fail
          Main, Free    \* the main thread; the owner of a free mutex

Jobs == 1 .. MaxJobs

ASSUME MaxJobsAssumption == MaxJobs \in Nat
ASSUME MaxParallelAssumption == MaxParallel \in Int
ASSUME OwnersAssumption == Main \notin Jobs /\ Free \notin Jobs /\ Main # Free

VARIABLES size,     \* length of tlist
          it,       \* the iterator of run(), an index into tlist
          mpc,      \* where the main thread is
          res,      \* the last value that waitForChange returned
          tpc,      \* where the thread of each job is
          counter,  \* condition_counter::counter
          changed,  \* condition_counter::changed
          mut       \* the owner of condition_counter::mut

vars == <<size, it, mpc, res, tpc, counter, changed, mut>>

\* Where the main thread can be: waitForChange is wfc .. read, increase is inc
\* and incd.
MainPC == {"filling", "wfc", "check", "blocked", "woken", "read", "test",
           "inc", "incd", "create", "returned", "destroyed"}

\* Where the thread of a job can be; dec, bcast and unlock are in decrease().
ThreadPC == {"none", "lost", "running", "exited",
             "ending", "dec", "bcast", "unlock", "ended"}

Init == /\ size = 0
        /\ it = 1
        /\ mpc = "filling"
        /\ res = 0
        /\ tpc = [j \in Jobs |-> "none"]
        /\ counter = 0
        /\ changed = TRUE
        /\ mut = Free

MainGoto(from, to) == /\ mpc = from
                      /\ mpc' = to

Goto(j, from, to) == /\ tpc[j] = from
                     /\ tpc' = [tpc EXCEPT ![j] = to]

-------------------------------------------------------------------------------
(***************************************************************************)
(* The main thread: insert, run and the destructor of the group            *)
(***************************************************************************)

Insert == /\ mpc = "filling"
          /\ size < MaxJobs
          /\ size' = size + 1
          /\ UNCHANGED <<it, mpc, res, tpc, counter, changed, mut>>

Run == /\ MainGoto("filling", "wfc")
       /\ UNCHANGED <<size, it, res, tpc, counter, changed, mut>>

\* The lock of mut in waitForChange and increase, and the one that
\* pthread_cond_wait takes again before it returns.
MainLock == /\ mut = Free
            /\ mut' = Main
            /\ \/ MainGoto("wfc", "check")
               \/ MainGoto("woken", "read")
               \/ MainGoto("inc", "incd")
            /\ UNCHANGED <<size, it, res, tpc, counter, changed>>

\* pthread_cond_wait releases the mutex as it blocks.
CheckChanged == /\ \/ changed /\ MainGoto("check", "read") /\ UNCHANGED mut
                   \/ ~ changed /\ MainGoto("check", "blocked") /\ mut' = Free
                /\ UNCHANGED <<size, it, res, tpc, counter, changed>>

\* POSIX lets pthread_cond_wait return without a broadcast, and the code does
\* not test changed again.
SpuriousWakeup == /\ MainGoto("blocked", "woken")
                  /\ UNCHANGED <<size, it, res, tpc, counter, changed, mut>>

Read == /\ MainGoto("read", "test")
        /\ changed' = FALSE
        /\ res' = counter
        /\ mut' = Free
        /\ UNCHANGED <<size, it, tpc, counter>>

\* Mutant of Test: run() does not wait once the last thread is started.
Test_NoFinalWait ==
    /\ mpc = "test"
    /\ mpc' = IF it =< size
              THEN IF res < MaxParallel THEN "inc" ELSE "wfc"
              ELSE "returned"
    /\ UNCHANGED <<size, it, res, tpc, counter, changed, mut>>

\* The conditions of the two loops of run() on what waitForChange returned.
Test == /\ mpc = "test"
        /\ mpc' = IF it =< size
                  THEN IF res < MaxParallel THEN "inc" ELSE "wfc"
                  ELSE IF res > 0 THEN "wfc" ELSE "returned"
        /\ UNCHANGED <<size, it, res, tpc, counter, changed, mut>>

\* Mutant of Increase: the count is taken from what waitForChange returned.
Increase_Stale == /\ MainGoto("incd", "create")
                  /\ counter' = res + 1
                  /\ changed' = TRUE
                  /\ mut' = Free
                  /\ UNCHANGED <<size, it, res, tpc>>

\* The broadcast of increase finds nobody: only main ever waits.
Increase == /\ MainGoto("incd", "create")
            /\ counter' = counter + 1
            /\ changed' = TRUE
            /\ mut' = Free
            /\ UNCHANGED <<size, it, res, tpc>>

\* detach_run of the job at it, then ++it. A thread that could not be created is
\* lost without a word.
Create == /\ MainGoto("create", "wfc")
          /\ \/ Goto(it, "none", "running")
             \/ it \in Failing /\ Goto(it, "none", "lost")
          /\ it' = it + 1
          /\ UNCHANGED <<size, res, counter, changed, mut>>

\* The caller leaves the block of the group: the jobs, tlist and the counter go.
Destroy == /\ MainGoto("returned", "destroyed")
           /\ UNCHANGED <<size, it, res, tpc, counter, changed, mut>>

-------------------------------------------------------------------------------
(***************************************************************************)
(* A detached thread: posix_detach_thread_function and decrease            *)
(***************************************************************************)

Finish(j) == /\ Goto(j, "running", "ending")
             /\ UNCHANGED <<size, it, mpc, res, counter, changed, mut>>

\* catch (...) { ct->exit(); }
Throw(j) == /\ j \in Throwing
            /\ Goto(j, "running", "exited")
            /\ UNCHANGED <<size, it, mpc, res, counter, changed, mut>>

\* Mutant of LockCounter: the counter is changed without its mutex.
LockCounter_Without(j) ==
    /\ Goto(j, "ending", "dec")
    /\ UNCHANGED <<size, it, mpc, res, counter, changed, mut>>

LockCounter(j) == /\ Goto(j, "ending", "dec")
                  /\ mut = Free
                  /\ mut' = j
                  /\ UNCHANGED <<size, it, mpc, res, counter, changed>>

\* Mutant of Decrease: the change is announced by the broadcast alone.
Decrease_NotNoted(j) ==
    /\ Goto(j, "dec", "bcast")
    /\ counter' = counter - 1
    /\ UNCHANGED <<size, it, mpc, res, changed, mut>>

Decrease(j) == /\ Goto(j, "dec", "bcast")
               /\ counter' = counter - 1
               /\ changed' = TRUE
               /\ UNCHANGED <<size, it, mpc, res, mut>>

Broadcast(j) == /\ Goto(j, "bcast", "unlock")
                /\ mpc' = IF mpc = "blocked" THEN "woken" ELSE mpc
                /\ UNCHANGED <<size, it, res, counter, changed, mut>>

UnlockCounter(j) == /\ Goto(j, "unlock", "ended")
                    /\ mut' = Free
                    /\ UNCHANGED <<size, it, mpc, res, counter, changed>>

-------------------------------------------------------------------------------

MainStep == \/ Insert \/ Run \/ MainLock \/ CheckChanged \/ Read \/ Test
            \/ Increase \/ Create \/ Destroy

ThreadStep(j) == \/ Finish(j) \/ Throw(j) \/ LockCounter(j) \/ Decrease(j)
                 \/ Broadcast(j) \/ UnlockCounter(j)

Next == MainStep \/ SpuriousWakeup \/ \E j \in Jobs : ThreadStep(j)

Spec == Init /\ [][Next]_vars

\* The kernel schedules every runnable thread and the work of a job is finite.
\* Nobody is owed a spurious wakeup, and they do not go on for ever: a main
\* thread that always wakes up again could keep a worker from the mutex.
FairSpec == /\ Spec
            /\ WF_vars(MainStep)
            /\ <>[][~ SpuriousWakeup]_vars
            /\ \A j \in Jobs : WF_vars(ThreadStep(j))

-------------------------------------------------------------------------------
(***************************************************************************)
(* Properties                                                              *)
(***************************************************************************)

\* Every variable stays in its range; the counter does not become negative.
TypeOK == /\ size \in 0 .. MaxJobs
          /\ it \in 1 .. (size + 1)
          /\ mpc \in MainPC
          /\ res \in Nat
          /\ tpc \in [Jobs -> ThreadPC]
          /\ counter \in Nat
          /\ changed \in BOOLEAN
          /\ mut \in Jobs \cup {Main, Free}

\* The threads that were counted and have not taken themselves off the counter.
Counted == {j \in Jobs : tpc[j] \in {"running", "exited", "lost", "ending", "dec"}}

\* The threads that still need their slot, or have leaked it.
Occupied == {j \in Jobs : tpc[j] \notin {"none", "ended"}}

\* The slots that no thread will ever give back.
Leaked == {j \in Jobs : tpc[j] \in {"exited", "lost"}}

\* The counter never drifts: it is the number of threads that have been announced
\* and have not given notice, however increments and decrements interleave.
CounterExact ==
    counter = Cardinality(Counted) + (IF mpc = "create" THEN 1 ELSE 0)

\* No more than max_parallel_threads threads exist at a time, although run()
\* decides on a value it read before it increased the counter.
AtMostMaxParallel == Occupied # {} => Cardinality(Occupied) =< MaxParallel

\* When run() has returned and the group goes out of scope, no thread is left that
\* could touch its job or the counter, not even to leave decrease().
NoUseAfterDestroy == mpc \in {"returned", "destroyed"} =>
    \A j \in 1 .. size : tpc[j] = "ended"

\* The group as its callers see it. A job whose thread exited is never done.
Status(j) == IF j > size THEN "absent"
             ELSE IF tpc[j] \in {"none", "lost"} THEN "pending"
             ELSE IF tpc[j] \in {"running", "exited"} THEN "running"
             ELSE "done"

JobStatus == [j \in Jobs |-> Status(j)]

Returned == mpc \in {"returned", "destroyed"}

Promise == INSTANCE JobPool WITH job <- JobStatus, returned <- Returned,
                                 Limit <- MaxParallel

ImplementsJobPool == Promise!Spec

\* No wakeup is lost: run() comes to its end unless a slot was leaked, and even
\* then it starts every job unless all the slots were leaked.
RunEndsUnlessLeaked ==
    <>[] \/ mpc = "destroyed"
         \/ Leaked # {} /\ (it > size \/ Cardinality(Leaked) >= MaxParallel)

===============================================================================
