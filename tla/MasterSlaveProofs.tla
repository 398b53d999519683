--------------------------- MODULE MasterSlaveProofs ---------------------------
(***************************************************************************)
(* Theorems about MasterSlave, for any number of CPUs, calls and sessions, *)
(* any faults and both strategies, provided that the user is patient.      *)
(***************************************************************************)
EXTENDS MasterSlave, TLAPS

Working == {"running", "announce", "failed", "saved", "abandon"}

\* Every variable the proofs look at stays in its range.
TypeOK ==
    /\ strategy \in {0, 1} /\ call \in Nat /\ n \in 0 .. MaxCPUs /\ next \in Nat
    /\ mpc \in InCall \cup {"idle", "ended"}
    /\ cmds \subseteq CPUs /\ pfile \subseteq CPUs
    /\ job \in [CPUs -> Nat]
    /\ output \in [CPUs -> [call : Nat, kind : {"none", "ok", "broken", "error"}]]
    /\ pc \in [Procs -> Working \cup {"none", "boot", "idle", "found", "leaving", "stuck"}]
    /\ task \in [Procs -> Nat]

\* Process p has a job to do: fParallel from the start, slaveParallel once it has
\* loaded one.
HasTask(p) == pc[p] \in Working \/ (strategy = 0 /\ pc[p] = "boot")

\* A slave that waits remembers no job.
WaitersHaveNoTask == \A p \in Procs : Alive(p) /\ ~ HasTask(p) => task[p] = 0

\* With strategy 0 nobody waits and there are no job files.
OpenClose ==
    strategy = 0 => /\ \A p \in Procs : pc[p] \notin {"idle", "found", "leaving"}
                    /\ \A j \in CPUs : job[j] = 0

\* During a call the slaves that live are those that P_slave files stand for.
Registered ==
    mpc \in InCall /\ strategy = 1 => \A p \in Procs : Alive(p) => p[1] \in pslave

\* Who works during a call works for this call, and its P_ file is there.
WorksForTheCall ==
    mpc \in InCall => \A p \in Procs : HasTask(p) =>
        task[p] = call /\ p[1] \in pfile /\ job[p[1]] = 0

\* The job that a slave may find is one of this call.
JobOfTheCall(j) == job[j] # 0 => job[j] = call /\ j \in pfile
FindsJobsOfTheCall ==
    mpc \in InCall => call # 0 /\ \A p \in Procs : Alive(p) => JobOfTheCall(p[1])

OutputsOfTheCall ==
    mpc \in InCall => \A j \in CPUs : output[j] = NoOutput \/ output[j].call = call

\* The CPUs to be launched have no slave, and their files are ready.
Commanded ==
    mpc \in {"prep", "check", "launch"} => \A j \in cmds :
        /\ \A p \in Procs : p[1] = j => ~ Alive(p)
        /\ JobOfTheCall(j)
        /\ IF strategy = 0 THEN j \in pfile ELSE j \in pslave

\* The loop over the CPUs.
Preparing ==
    /\ mpc \in {"prep", "check"} => next \in CPUs /\ next =< n /\ n \in CPUs
    /\ mpc = "prep" => \A j \in pfile : j < next
    /\ mpc = "check" => /\ strategy = 1
                        /\ \A j \in pfile : j =< next
                        /\ JobOfTheCall(next)

Collecting ==
    mpc = "collect" => /\ pfile = {}
                       /\ \A j \in 1 .. n : output[j].call = call

\* Between calls the slaves of this session wait; others have lost their input file.
Waiting ==
    mpc = "idle" => \A p \in Procs : Alive(p) /\ p[1] \in input =>
        strategy = 1 /\ p[1] \in pslave /\ ~ HasTask(p) /\ job[p[1]] = 0

\* The inductive invariant.
IInv == /\ TypeOK /\ NoTwins /\ WaitersHaveNoTask /\ OpenClose
        /\ Registered /\ WorksForTheCall /\ FindsJobsOfTheCall /\ OutputsOfTheCall
        /\ Commanded /\ Preparing /\ Collecting /\ Waiting

-------------------------------------------------------------------------------
\* CPUs are counted from 1, and every process belongs to one.
LEMMA CPUsAreNumbers == CPUs \subseteq Nat \ {0} /\ \A p \in Procs : p[1] \in CPUs
BY ConstantsAssumption DEF CPUs, Procs

-------------------------------------------------------------------------------
(***************************************************************************)
(* Every action of the master, of its user and of a slave keeps IInv       *)
(***************************************************************************)

LEMMA NewSessionKeeps == ASSUME IInv, NewSession PROVE IInv'
<1>1. (NoTwins /\ WaitersHaveNoTask /\ OpenClose)'
  BY DEF IInv, NoTwins, WaitersHaveNoTask, OpenClose, Alive, HasTask, Working,
       NewSession, slaves
<1>2. TypeOK'
  BY DEF IInv, TypeOK, InCall, Working, NewSession, slaves
<1>3. Registered'
  BY DEF IInv, Registered, InCall, Alive, NewSession, slaves
<1>4. WorksForTheCall'
  BY DEF IInv, WorksForTheCall, InCall, HasTask, Working, NewSession, slaves
<1>5. FindsJobsOfTheCall'
  BY DEF IInv, FindsJobsOfTheCall, InCall, Alive, JobOfTheCall, NewSession, slaves
<1>6. OutputsOfTheCall'
  BY DEF IInv, OutputsOfTheCall, InCall, NoOutput, NewSession, slaves
<1>7. Commanded'
  BY DEF IInv, Commanded, Alive, JobOfTheCall, NewSession, slaves
<1>8. Preparing'
  BY DEF IInv, Preparing, JobOfTheCall, NewSession, slaves
<1>9. Collecting'
  BY DEF IInv, Collecting, NewSession, slaves
<1>10. Waiting'
  BY DEF IInv, Waiting, Alive, HasTask, Working, NewSession, slaves
<1> QED BY <1>1, <1>2, <1>3, <1>4, <1>5, <1>6, <1>7, <1>8, <1>9, <1>10 DEF IInv

LEMMA PrepKeeps == ASSUME IInv, Prep PROVE IInv'
<1>1. (NoTwins /\ WaitersHaveNoTask)'
  BY DEF IInv, NoTwins, WaitersHaveNoTask, Alive, HasTask, Working, Prep,
       NextCPU, slaves
<1>2. TypeOK'
  <2>1. next \in CPUs /\ next + 1 \in Nat
    BY ConstantsAssumption DEF IInv, Preparing, Prep, CPUs
  <2>2. cmds' \subseteq CPUs /\ mpc' \in InCall
    BY <2>1 DEF IInv, TypeOK, Prep, NextCPU, InCall
  <2>3. job' \in [CPUs -> Nat] /\ next' \in Nat
    BY <2>1 DEF IInv, TypeOK, Prep, NextCPU
  <2> QED BY <2>1, <2>2, <2>3 DEF IInv, TypeOK, Prep, slaves
<1>3. OpenClose'
  BY DEF IInv, OpenClose, Prep, NextCPU, slaves
<1>4. Registered'
  BY DEF IInv, Registered, InCall, Alive, Prep, NextCPU, slaves
<1>5. WorksForTheCall'
  <2> SUFFICES ASSUME NEW p \in Procs, HasTask(p)'
               PROVE  (task[p] = call /\ p[1] \in pfile /\ job[p[1]] = 0)'
    BY DEF WorksForTheCall
  <2>1. task[p] = call /\ p[1] \in pfile /\ job[p[1]] = 0
    BY DEF IInv, WorksForTheCall, HasTask, Prep, InCall, slaves
  <2>2. p[1] \in CPUs /\ next \in CPUs /\ p[1] < next
    BY <2>1, CPUsAreNumbers DEF IInv, Preparing, Prep
  <2>3. p[1] # next
    BY <2>2, CPUsAreNumbers
  <2> QED BY <2>1, <2>2, <2>3 DEF IInv, TypeOK, Prep, slaves
<1>6. FindsJobsOfTheCall'
  BY CPUsAreNumbers DEF IInv, FindsJobsOfTheCall, Alive, JobOfTheCall, TypeOK,
       Prep, slaves
<1>7. OutputsOfTheCall'
  BY DEF IInv, OutputsOfTheCall, InCall, NoOutput, Prep, NextCPU, slaves
<1>8. Commanded'
  <2> SUFFICES ASSUME mpc' = "prep" \/ mpc' = "check" \/ mpc' = "launch", NEW j \in cmds'
               PROVE  /\ \A p \in Procs : p[1] = j => ~ Alive(p)'
                      /\ JobOfTheCall(j)'
                      /\ IF strategy' = 0 THEN j \in pfile' ELSE j \in pslave'
    BY DEF Commanded
  <2>1. CASE j \in cmds
    <3>1. /\ \A p \in Procs : p[1] = j => ~ Alive(p)
          /\ JobOfTheCall(j)
          /\ IF strategy = 0 THEN j \in pfile ELSE j \in pslave
      BY <2>1 DEF IInv, Commanded, Prep
    <3> QED BY <3>1, <2>1, CPUsAreNumbers DEF IInv, TypeOK, Preparing,
         JobOfTheCall, Prep, slaves, Alive
  <2>2. CASE j \notin cmds
    <3>1. j = next /\ strategy = 0 /\ job' = job /\ j \in pfile' /\ j \in CPUs
      BY <2>2 DEF IInv, Preparing, Prep
    <3>2. \A p \in Procs : p[1] = j => ~ HasTask(p)
      BY <3>1, CPUsAreNumbers DEF IInv, WorksForTheCall, Preparing, Prep, InCall
    <3>3. \A p \in Procs : p[1] = j => ~ Alive(p)
      BY <3>1, <3>2 DEF IInv, TypeOK, OpenClose, HasTask, Alive
    <3>4. job[j] = 0
      BY <3>1 DEF IInv, OpenClose
    <3> QED BY <3>1, <3>3, <3>4 DEF Prep, slaves, Alive, JobOfTheCall
  <2> QED BY <2>1, <2>2
<1>9. Preparing'
  <2>1. /\ next \in CPUs /\ next =< n /\ n \in CPUs
        /\ \A j \in pfile : j < next
    BY DEF IInv, Preparing, Prep
  <2>2. \A j \in pfile' : j =< next
    BY <2>1, CPUsAreNumbers DEF IInv, TypeOK, Prep
  <2>3. CASE strategy = 1
    BY <2>1, <2>2, <2>3 DEF IInv, TypeOK, Preparing, JobOfTheCall, Prep
  <2>4. CASE strategy = 0
    BY <2>1, <2>2, <2>4, ConstantsAssumption DEF IInv, TypeOK, Preparing, Prep,
         NextCPU, CPUs
  <2> QED BY <2>3, <2>4 DEF IInv, TypeOK
<1>10. Collecting'
  BY DEF IInv, Collecting, Prep, NextCPU, slaves
<1>11. Waiting'
  BY DEF IInv, Waiting, Alive, HasTask, Working, Prep, NextCPU, slaves
<1> QED BY <1>1, <1>2, <1>3, <1>4, <1>5, <1>6, <1>7, <1>8, <1>9, <1>10, <1>11
     DEF IInv

LEMMA CheckKeeps == ASSUME IInv, Check PROVE IInv'
<1>1. (NoTwins /\ WaitersHaveNoTask /\ OpenClose)'
  BY DEF IInv, NoTwins, WaitersHaveNoTask, OpenClose, Alive, HasTask, Check, slaves
<1>2. TypeOK'
  <2>1. next \in CPUs /\ next + 1 \in Nat
    BY ConstantsAssumption DEF IInv, Preparing, Check, CPUs
  <2> QED BY <2>1 DEF IInv, TypeOK, Check, NextCPU, InCall, slaves
<1>3. Registered'
  BY DEF IInv, Registered, InCall, Alive, Check, NextCPU, slaves
<1>4. WorksForTheCall'
  BY DEF IInv, WorksForTheCall, InCall, HasTask, Working, Check, NextCPU, slaves
<1>5. FindsJobsOfTheCall'
  BY DEF IInv, FindsJobsOfTheCall, InCall, Alive, JobOfTheCall, Check, NextCPU,
       slaves
<1>6. OutputsOfTheCall'
  BY DEF IInv, OutputsOfTheCall, InCall, NoOutput, Check, NextCPU, slaves
<1>7. Commanded'
  <2> SUFFICES ASSUME NEW j \in cmds'
               PROVE  /\ \A p \in Procs : p[1] = j => ~ Alive(p)'
                      /\ JobOfTheCall(j)'
                      /\ IF strategy' = 0 THEN j \in pfile' ELSE j \in pslave'
    BY DEF Commanded
  <2>1. CASE j \in cmds
    BY <2>1 DEF IInv, Commanded, JobOfTheCall, Check, slaves, Alive
  <2>2. CASE j \notin cmds
    <3>1. j = next /\ j \notin pslave /\ j \in pslave' /\ strategy = 1 /\ JobOfTheCall(j)
      BY <2>2 DEF IInv, Preparing, Check
    <3>2. \A p \in Procs : p[1] = j => ~ Alive(p)
      BY <3>1 DEF IInv, Registered, Check, InCall
    <3> QED BY <3>1, <3>2 DEF Check, slaves, Alive, JobOfTheCall
  <2> QED BY <2>1, <2>2
<1>8. Preparing'
  <2>1. /\ next \in CPUs /\ next =< n /\ n \in CPUs
        /\ \A j \in pfile : j =< next
    BY DEF IInv, Preparing, Check
  <2> QED BY <2>1, ConstantsAssumption DEF IInv, TypeOK, Preparing, Check,
       NextCPU, CPUs
<1>9. Collecting'
  BY DEF IInv, Collecting, Check, NextCPU, slaves
<1>10. Waiting'
  BY DEF IInv, Waiting, Alive, HasTask, Working, Check, NextCPU, slaves
<1> QED BY <1>1, <1>2, <1>3, <1>4, <1>5, <1>6, <1>7, <1>8, <1>9, <1>10 DEF IInv

\* A process goes on as it was, or it is the one that the command of its CPU starts.
LEMMA LaunchStarts ==
    ASSUME IInv, Launch, NEW p \in Procs
    PROVE  \/ pc'[p] = pc[p] /\ task'[p] = task[p]
           \/ /\ p[1] \in cmds /\ p = Slot(p[1])
              /\ pc'[p] = "boot" /\ task'[p] = IF strategy = 0 THEN call ELSE 0
<1>1. CASE strategy = 0 \/ newInst
  <2>1. /\ pc' = [q \in Procs |->
              IF q[1] \in cmds /\ q = Slot(q[1]) THEN "boot" ELSE pc[q]]
        /\ task' = [q \in Procs |->
              IF q[1] \in cmds /\ q = Slot(q[1])
              THEN IF strategy = 0 THEN call ELSE 0 ELSE task[q]]
    BY <1>1 DEF Launch
  <2> QED BY <2>1
<1>2. CASE ~ (strategy = 0 \/ newInst)
  BY <1>2 DEF Launch, slaves
<1> QED BY <1>1, <1>2

LEMMA LaunchKeeps == ASSUME IInv, Launch PROVE IInv'
<1>1. TypeOK'
  BY DEF IInv, TypeOK, InCall, Working, Launch, files, slaves
<1>2. NoTwins'
  <2>1. \A j \in cmds : \A p \in Procs : p[1] = j => ~ Alive(p)
    BY DEF IInv, Commanded, Launch
  <2>2. ASSUME NEW p \in Procs, Alive(p)', ~ Alive(p)
        PROVE  p[1] \in cmds /\ p = Slot(p[1])
    BY <2>2, LaunchStarts DEF Alive
  <2>3. \A p \in Procs : Alive(p) => p[1] \notin cmds
    BY <2>1
  <2> QED BY <2>2, <2>3 DEF IInv, NoTwins
<1>3. WaitersHaveNoTask'
  BY DEF IInv, WaitersHaveNoTask, Alive, HasTask, Working, Launch, files, slaves
<1>4. OpenClose'
  BY DEF IInv, OpenClose, Launch, files, slaves
<1>5. Registered'
  <2>1. \A p \in Procs : Alive(p)' => Alive(p) \/ p[1] \in cmds
    BY LaunchStarts DEF Alive
  <2> QED BY <2>1 DEF IInv, Registered, Commanded, Launch, InCall, files
<1>6. WorksForTheCall'
  <2> SUFFICES ASSUME NEW p \in Procs, HasTask(p)'
               PROVE  (task[p] = call /\ p[1] \in pfile /\ job[p[1]] = 0)'
    BY DEF WorksForTheCall
  <2>1. CASE HasTask(p) /\ pc'[p] = pc[p] /\ task'[p] = task[p]
    BY <2>1 DEF IInv, WorksForTheCall, Launch, InCall, files
  <2>2. CASE ~ (HasTask(p) /\ pc'[p] = pc[p] /\ task'[p] = task[p])
    <3>1. p[1] \in cmds /\ strategy = 0 /\ task'[p] = call
      BY <2>2, LaunchStarts DEF IInv, TypeOK, Launch, HasTask, Working
    <3> QED BY <3>1, CPUsAreNumbers DEF IInv, OpenClose, Commanded, Launch, files
  <2> QED BY <2>1, <2>2
<1>7. FindsJobsOfTheCall'
  <2>1. \A p \in Procs : Alive(p)' => Alive(p) \/ p[1] \in cmds
    BY LaunchStarts DEF Alive
  <2> QED BY <2>1 DEF IInv, FindsJobsOfTheCall, Commanded, Launch, InCall,
       files, JobOfTheCall
<1>8. OutputsOfTheCall'
  BY DEF IInv, OutputsOfTheCall, InCall, NoOutput, Launch, files, slaves
<1>9. Commanded'
  BY DEF IInv, Commanded, Alive, JobOfTheCall, Launch, files, slaves
<1>10. Preparing'
  BY DEF IInv, Preparing, JobOfTheCall, Launch, files, slaves
<1>11. Collecting'
  BY DEF IInv, Collecting, Launch, files, slaves
<1>12. Waiting'
  BY DEF IInv, Waiting, Alive, HasTask, Working, Launch, files, slaves
<1> QED BY <1>1, <1>2, <1>3, <1>4, <1>5, <1>6, <1>7, <1>8, <1>9, <1>10, <1>11,
     <1>12 DEF IInv

LEMMA ClearKeeps == ASSUME IInv, Clear PROVE IInv'
<1>1. (NoTwins /\ WaitersHaveNoTask /\ OpenClose)'
  BY DEF IInv, NoTwins, WaitersHaveNoTask, OpenClose, Alive, HasTask, Working,
       Clear, slaves
<1>2. TypeOK'
  BY DEF IInv, TypeOK, InCall, Working, Clear, slaves
<1>3. Registered'
  BY DEF IInv, Registered, InCall, Alive, Clear, slaves
<1>4. WorksForTheCall'
  BY DEF IInv, WorksForTheCall, InCall, HasTask, Working, Clear, slaves
<1>5. FindsJobsOfTheCall'
  BY DEF IInv, FindsJobsOfTheCall, InCall, Alive, JobOfTheCall, Clear, slaves
<1>6. OutputsOfTheCall'
  BY DEF IInv, OutputsOfTheCall, InCall, NoOutput, Clear, slaves
<1>7. Commanded'
  BY DEF IInv, Commanded, Alive, JobOfTheCall, Clear, slaves
<1>8. Preparing'
  BY DEF IInv, Preparing, JobOfTheCall, Clear, slaves
<1>9. Collecting'
  BY DEF IInv, Collecting, Clear, slaves
<1>10. Waiting'
  BY DEF IInv, Waiting, Alive, HasTask, Working, Clear, slaves
<1> QED BY <1>1, <1>2, <1>3, <1>4, <1>5, <1>6, <1>7, <1>8, <1>9, <1>10 DEF IInv

LEMMA NoticeKeeps == ASSUME IInv, Notice PROVE IInv'
<1>1. (/\ TypeOK /\ NoTwins /\ WaitersHaveNoTask /\ OpenClose
       /\ Registered /\ WorksForTheCall /\ FindsJobsOfTheCall /\ OutputsOfTheCall
       /\ Commanded /\ Preparing /\ Collecting /\ Waiting)'
  BY DEF IInv, TypeOK, NoTwins, WaitersHaveNoTask, OpenClose, Registered,
       WorksForTheCall, FindsJobsOfTheCall, OutputsOfTheCall, Commanded, Preparing,
       Collecting, Waiting, Alive, HasTask, JobOfTheCall, Notice, slaves
<1> QED BY <1>1 DEF IInv

LEMMA PollDoneKeeps == ASSUME IInv, PollDone PROVE IInv'
<1>1. (NoTwins /\ WaitersHaveNoTask /\ OpenClose)'
  BY DEF IInv, NoTwins, WaitersHaveNoTask, OpenClose, Alive, HasTask, PollDone,
       slaves
<1>2. TypeOK'
  BY DEF IInv, TypeOK, InCall, Working, PollDone, HaveAllOutputs, slaves
<1>3. Registered'
  BY DEF IInv, Registered, InCall, Alive, PollDone, HaveAllOutputs, slaves
<1>4. WorksForTheCall'
  BY DEF IInv, WorksForTheCall, InCall, HasTask, Working, PollDone,
       HaveAllOutputs, slaves
<1>5. FindsJobsOfTheCall'
  BY DEF IInv, FindsJobsOfTheCall, InCall, Alive, JobOfTheCall, PollDone,
       HaveAllOutputs, slaves
<1>6. OutputsOfTheCall'
  BY DEF IInv, OutputsOfTheCall, InCall, NoOutput, PollDone, HaveAllOutputs, slaves
<1>7. Commanded'
  BY DEF IInv, Commanded, Alive, JobOfTheCall, PollDone, HaveAllOutputs, slaves
<1>8. Preparing'
  BY DEF IInv, Preparing, JobOfTheCall, PollDone, HaveAllOutputs, slaves
<1>9. Collecting'
  BY ConstantsAssumption DEF IInv, TypeOK, OutputsOfTheCall, Collecting,
       InCall, PollDone, HaveAllOutputs, CPUs
<1>10. Waiting'
  BY DEF IInv, Waiting, Alive, HasTask, Working, PollDone, HaveAllOutputs, slaves
<1> QED BY <1>1, <1>2, <1>3, <1>4, <1>5, <1>6, <1>7, <1>8, <1>9, <1>10 DEF IInv

LEMMA CollectKeeps == ASSUME IInv, Collect PROVE IInv'
<1>1. (NoTwins /\ WaitersHaveNoTask /\ OpenClose)'
  BY DEF IInv, NoTwins, WaitersHaveNoTask, OpenClose, Alive, HasTask, Working,
       Collect, slaves
<1>2. TypeOK'
  BY DEF IInv, TypeOK, NoOutput, Collect, slaves
<1>3. Registered'
  BY DEF IInv, Registered, InCall, Alive, Collect, slaves
<1>4. WorksForTheCall'
  BY DEF IInv, WorksForTheCall, InCall, HasTask, Working, Collect, slaves
<1>5. FindsJobsOfTheCall'
  BY DEF IInv, FindsJobsOfTheCall, InCall, Alive, JobOfTheCall, Collect, slaves
<1>6. OutputsOfTheCall'
  BY DEF IInv, OutputsOfTheCall, InCall, NoOutput, Collect, slaves
<1>7. Commanded'
  BY DEF IInv, Commanded, Alive, JobOfTheCall, Collect, slaves
<1>8. Preparing'
  BY DEF IInv, Preparing, JobOfTheCall, Collect, slaves
<1>9. Collecting'
  BY DEF IInv, Collecting, Collect, slaves
<1>10. Waiting'
  BY DEF IInv, Waiting, Alive, HasTask, TypeOK, OpenClose, Registered,
       WorksForTheCall, FindsJobsOfTheCall, Collecting, JobOfTheCall, Collect,
       slaves
<1> QED BY <1>1, <1>2, <1>3, <1>4, <1>5, <1>6, <1>7, <1>8, <1>9, <1>10 DEF IInv

LEMMA CloseSlavesKeeps == ASSUME IInv, CloseSlaves PROVE IInv'
<1>1. (/\ TypeOK /\ NoTwins /\ WaitersHaveNoTask /\ OpenClose
       /\ Registered /\ WorksForTheCall /\ FindsJobsOfTheCall /\ OutputsOfTheCall
       /\ Commanded /\ Preparing /\ Collecting)'
  BY DEF IInv, TypeOK, NoTwins, WaitersHaveNoTask, OpenClose, Registered,
       WorksForTheCall, FindsJobsOfTheCall, OutputsOfTheCall, Commanded, Preparing,
       Collecting, Alive, HasTask, JobOfTheCall, CloseSlaves, master, slaves
<1>2. Waiting'
  BY DEF IInv, Waiting, Alive, HasTask, Working, CloseSlaves, master, slaves
<1> QED BY <1>1, <1>2 DEF IInv

LEMMA AbortKeeps == ASSUME IInv, Abort PROVE IInv'
<1>1. (NoTwins /\ WaitersHaveNoTask /\ OpenClose)'
  BY DEF IInv, NoTwins, WaitersHaveNoTask, OpenClose, Alive, HasTask, Abort,
       files, slaves
<1>2. TypeOK'
  BY DEF IInv, TypeOK, InCall, Working, Abort, files, slaves
<1>3. Registered'
  BY DEF IInv, Registered, InCall, Alive, Abort, files, slaves
<1>4. WorksForTheCall'
  BY DEF IInv, WorksForTheCall, InCall, HasTask, Working, Abort, files, slaves
<1>5. FindsJobsOfTheCall'
  BY DEF IInv, FindsJobsOfTheCall, InCall, Alive, JobOfTheCall, Abort, files, slaves
<1>6. OutputsOfTheCall'
  BY DEF IInv, OutputsOfTheCall, InCall, NoOutput, Abort, files, slaves
<1>7. Commanded'
  BY DEF IInv, Commanded, Alive, JobOfTheCall, Abort, files, slaves
<1>8. Preparing'
  BY DEF IInv, Preparing, JobOfTheCall, Abort, files, slaves
<1>9. Collecting'
  BY DEF IInv, Collecting, Abort, files, slaves
<1>10. Waiting'
  BY DEF IInv, Waiting, Alive, HasTask, Working, Abort, files, slaves
<1> QED BY <1>1, <1>2, <1>3, <1>4, <1>5, <1>6, <1>7, <1>8, <1>9, <1>10 DEF IInv

LEMMA BeginKeeps == ASSUME IInv, Patient, NEW k, Begin(k) PROVE IInv'
<1>1. (NoTwins /\ WaitersHaveNoTask /\ OpenClose)'
  BY DEF IInv, NoTwins, WaitersHaveNoTask, OpenClose, Alive, HasTask, Begin, slaves
<1>2. TypeOK'
  <2>1. k \in CPUs /\ k \in 0 .. MaxCPUs
    BY ConstantsAssumption DEF Begin, MayBegin, CPUs
  <2>2. [j \in CPUs |-> NoOutput] \in [CPUs -> [call : Nat, kind : {"none", "ok", "broken", "error"}]]
    BY DEF NoOutput
  <2> QED BY <2>1, <2>2 DEF IInv, TypeOK, InCall, Begin, slaves
<1>3. Registered'
  BY DEF IInv, Registered, Alive, Waiting, Begin, MayBegin, slaves
<1>4. WorksForTheCall'
  BY DEF IInv, WorksForTheCall, HasTask, Working, Waiting, Alive, Begin,
       MayBegin, slaves
<1>5. FindsJobsOfTheCall'
  BY DEF IInv, FindsJobsOfTheCall, Alive, JobOfTheCall, TypeOK, Waiting, Begin,
       MayBegin, slaves
<1>6. OutputsOfTheCall'
  BY DEF IInv, OutputsOfTheCall, InCall, NoOutput, Begin, MayBegin, slaves
<1>7. Commanded'
  BY DEF IInv, Commanded, Alive, JobOfTheCall, Begin, MayBegin, slaves
<1>8. Preparing'
  BY ConstantsAssumption DEF Preparing, Begin, MayBegin, CPUs
<1>9. Collecting'
  BY DEF IInv, Collecting, Begin, MayBegin, slaves
<1>10. Waiting'
  BY DEF IInv, Waiting, Alive, HasTask, Working, Begin, MayBegin, slaves
<1> QED BY <1>1, <1>2, <1>3, <1>4, <1>5, <1>6, <1>7, <1>8, <1>9, <1>10 DEF IInv

LEMMA BootKeeps == ASSUME IInv, NEW p \in Procs, Boot(p) PROVE IInv'
<1>1. (OutputsOfTheCall /\ Preparing /\ Collecting)'
  BY DEF IInv, OutputsOfTheCall, Preparing, Collecting, JobOfTheCall, Boot,
       master, files
<1>2. TypeOK'
  BY DEF IInv, TypeOK, InCall, Working, Boot, Goto, master, files
<1>3. NoTwins'
  BY DEF IInv, NoTwins, Alive, Boot, Goto, master, files
<1>4. WaitersHaveNoTask'
  BY DEF IInv, WaitersHaveNoTask, Alive, HasTask, Working, Boot, Goto, master, files
<1>5. OpenClose'
  BY DEF IInv, OpenClose, Boot, Goto, master, files
<1>6. Registered'
  BY DEF IInv, Registered, InCall, Alive, Boot, Goto, master, files
<1>7. WorksForTheCall'
  BY DEF IInv, WorksForTheCall, InCall, HasTask, Working, Boot, Goto, master, files
<1>8. FindsJobsOfTheCall'
  BY DEF IInv, FindsJobsOfTheCall, InCall, Alive, JobOfTheCall, Boot, Goto,
       master, files
<1>9. Commanded'
  BY DEF IInv, Commanded, Alive, JobOfTheCall, Boot, Goto, master, files
<1>10. Waiting'
  BY DEF IInv, Waiting, Alive, HasTask, Working, Boot, Goto, master, files
<1> QED BY <1>1, <1>2, <1>3, <1>4, <1>5, <1>6, <1>7, <1>8, <1>9, <1>10 DEF IInv

LEMMA LookKeeps == ASSUME IInv, NEW p \in Procs, Look(p) PROVE IInv'
<1>1. (OutputsOfTheCall /\ Preparing /\ Collecting)'
  BY DEF IInv, OutputsOfTheCall, Preparing, Collecting, JobOfTheCall, Look,
       master, files
<1>2. TypeOK'
  BY DEF IInv, TypeOK, InCall, Working, Look, Goto, master, files
<1>3. NoTwins'
  BY DEF IInv, NoTwins, Alive, Look, Goto, master, files
<1>4. WaitersHaveNoTask'
  BY DEF IInv, WaitersHaveNoTask, Alive, HasTask, Working, Look, Goto, master, files
<1>5. OpenClose'
  BY DEF IInv, OpenClose, Look, Goto, master, files
<1>6. Registered'
  BY DEF IInv, Registered, InCall, Alive, Look, Goto, master, files
<1>7. WorksForTheCall'
  BY DEF IInv, WorksForTheCall, InCall, HasTask, Working, Look, Goto, master, files
<1>8. FindsJobsOfTheCall'
  BY DEF IInv, FindsJobsOfTheCall, InCall, Alive, JobOfTheCall, Look, Goto,
       master, files
<1>9. Commanded'
  BY DEF IInv, Commanded, Alive, JobOfTheCall, Look, Goto, master, files
<1>10. Waiting'
  BY DEF IInv, Waiting, Alive, HasTask, Working, Look, Goto, master, files
<1> QED BY <1>1, <1>2, <1>3, <1>4, <1>5, <1>6, <1>7, <1>8, <1>9, <1>10 DEF IInv

LEMMA LoadKeeps == ASSUME IInv, NEW p \in Procs, Load(p) PROVE IInv'
<1>1. (OutputsOfTheCall /\ Collecting)'
  BY DEF IInv, OutputsOfTheCall, Collecting, InCall, NoOutput, Load, Goto, master
<1>2. TypeOK'
  BY CPUsAreNumbers DEF IInv, TypeOK, Working, Load, Goto, master
<1>3. NoTwins'
  BY DEF IInv, NoTwins, Alive, Load, Goto, master
<1>4. WaitersHaveNoTask'
  BY DEF IInv, WaitersHaveNoTask, Alive, HasTask, Working, TypeOK, Load, Goto,
       master
<1>5. OpenClose'
  BY DEF IInv, OpenClose, Load, Goto, master
<1>6. Registered'
  BY DEF IInv, Registered, InCall, Alive, Load, Goto, master
<1>7. WorksForTheCall'
  BY DEF IInv, WorksForTheCall, HasTask, Working, TypeOK, FindsJobsOfTheCall,
       Alive, JobOfTheCall, Load, Goto, master
<1>8. FindsJobsOfTheCall'
  BY DEF IInv, FindsJobsOfTheCall, InCall, Alive, JobOfTheCall, Load, Goto, master
<1>9. Commanded'
  BY DEF IInv, Commanded, Alive, JobOfTheCall, Load, Goto, master
<1>10. Preparing'
  BY DEF IInv, Preparing, JobOfTheCall, Load, Goto, master
<1>11. Waiting'
  BY DEF IInv, Waiting, Alive, HasTask, Working, Load, Goto, master
<1> QED BY <1>1, <1>2, <1>3, <1>4, <1>5, <1>6, <1>7, <1>8, <1>9, <1>10, <1>11
     DEF IInv

LEMMA LeaveKeeps == ASSUME IInv, NEW p \in Procs, Leave(p) PROVE IInv'
<1>1. (OutputsOfTheCall /\ Preparing /\ Collecting)'
  BY DEF IInv, OutputsOfTheCall, Preparing, Collecting, JobOfTheCall, Leave,
       master, files
<1>2. TypeOK'
  BY DEF IInv, TypeOK, InCall, Working, Leave, Goto, master, files
<1>3. NoTwins'
  BY DEF IInv, NoTwins, Alive, Leave, Goto, master, files
<1>4. WaitersHaveNoTask'
  BY DEF IInv, WaitersHaveNoTask, Alive, HasTask, Working, Leave, Goto, master,
       files
<1>5. OpenClose'
  BY DEF IInv, OpenClose, Leave, Goto, master, files
<1>6. Registered'
  BY DEF IInv, Registered, InCall, Alive, Leave, Goto, master, files
<1>7. WorksForTheCall'
  BY DEF IInv, WorksForTheCall, InCall, HasTask, Working, Leave, Goto, master, files
<1>8. FindsJobsOfTheCall'
  BY DEF IInv, FindsJobsOfTheCall, InCall, Alive, JobOfTheCall, Leave, Goto,
       master, files
<1>9. Commanded'
  BY DEF IInv, Commanded, Alive, JobOfTheCall, Leave, Goto, master, files
<1>10. Waiting'
  BY DEF IInv, Waiting, Alive, HasTask, Working, Leave, Goto, master, files
<1> QED BY <1>1, <1>2, <1>3, <1>4, <1>5, <1>6, <1>7, <1>8, <1>9, <1>10 DEF IInv

LEMMA GoneKeeps == ASSUME IInv, NEW p \in Procs, Gone(p) PROVE IInv'
<1>1. (OutputsOfTheCall /\ Preparing /\ Collecting)'
  BY DEF IInv, OutputsOfTheCall, Preparing, Collecting, JobOfTheCall, Gone, master
<1>2. TypeOK'
  BY DEF IInv, TypeOK, InCall, Working, Gone, Goto, master
<1>3. NoTwins'
  BY DEF IInv, NoTwins, Alive, Gone, Goto, master
<1>4. WaitersHaveNoTask'
  BY DEF IInv, WaitersHaveNoTask, Alive, HasTask, Working, Gone, Goto, master
<1>5. OpenClose'
  BY DEF IInv, OpenClose, Gone, Goto, master
<1>6. Registered'
  BY DEF IInv, Registered, Alive, TypeOK, NoTwins, Gone, Goto, master
<1>7. WorksForTheCall'
  BY DEF IInv, WorksForTheCall, InCall, HasTask, Working, Gone, Goto, master
<1>8. FindsJobsOfTheCall'
  BY DEF IInv, FindsJobsOfTheCall, InCall, Alive, JobOfTheCall, Gone, Goto, master
<1>9. Commanded'
  BY DEF IInv, Commanded, Alive, JobOfTheCall, Gone, Goto, master
<1>10. Waiting'
  BY DEF IInv, Waiting, Alive, HasTask, TypeOK, NoTwins, Gone, Goto, master
<1> QED BY <1>1, <1>2, <1>3, <1>4, <1>5, <1>6, <1>7, <1>8, <1>9, <1>10 DEF IInv

LEMMA CompleteKeeps == ASSUME IInv, NEW p \in Procs, Complete(p) PROVE IInv'
<1>1. Preparing'
  BY DEF IInv, Preparing, JobOfTheCall, Complete, Goto, Save, master
<1>2. TypeOK'
  BY DEF IInv, TypeOK, InCall, Working, Complete, Goto, Save, master
<1>3. NoTwins'
  BY DEF IInv, NoTwins, Alive, TypeOK, Complete, Goto
<1>4. WaitersHaveNoTask'
  BY DEF IInv, WaitersHaveNoTask, Alive, HasTask, Working, TypeOK, Complete,
       Goto, master
<1>5. OpenClose'
  BY DEF IInv, OpenClose, TypeOK, InCall, Working, Complete, Goto, Save, master
<1>6. Registered'
  BY DEF IInv, Registered, Alive, TypeOK, Complete, Goto, master
<1>7. WorksForTheCall'
  BY DEF IInv, WorksForTheCall, HasTask, TypeOK, Complete, Goto, master
<1>8. FindsJobsOfTheCall'
  BY DEF IInv, FindsJobsOfTheCall, Alive, JobOfTheCall, TypeOK, Complete, Goto,
       master
<1>9. OutputsOfTheCall'
  BY DEF IInv, OutputsOfTheCall, Working, WorksForTheCall, HasTask, Complete,
       Goto, Save, master
<1>10. Commanded'
  BY DEF IInv, Commanded, Alive, JobOfTheCall, TypeOK, Complete, Goto, master
<1>11. Collecting'
  BY DEF IInv, Collecting, InCall, Working, WorksForTheCall, HasTask, Complete,
       Goto, master
<1>12. Waiting'
  BY DEF IInv, Waiting, Alive, HasTask, TypeOK, Complete, Goto, master
<1> QED BY <1>1, <1>2, <1>3, <1>4, <1>5, <1>6, <1>7, <1>8, <1>9, <1>10, <1>11,
     <1>12 DEF IInv

LEMMA AnnounceKeeps == ASSUME IInv, NEW p \in Procs, Announce(p) PROVE IInv'
<1>1. (OutputsOfTheCall /\ Preparing /\ Collecting)'
  BY DEF IInv, OutputsOfTheCall, Preparing, Collecting, JobOfTheCall, Announce,
       master
<1>2. TypeOK'
  BY DEF IInv, TypeOK, InCall, Working, Announce, Goto, master
<1>3. NoTwins'
  BY DEF IInv, NoTwins, Alive, Announce, Goto, master
<1>4. WaitersHaveNoTask'
  BY DEF IInv, WaitersHaveNoTask, Alive, HasTask, Working, Announce, Goto, master
<1>5. OpenClose'
  BY DEF IInv, OpenClose, Announce, Goto, master
<1>6. Registered'
  BY DEF IInv, Registered, InCall, Alive, Announce, Goto, master
<1>7. WorksForTheCall'
  BY DEF IInv, WorksForTheCall, InCall, HasTask, Working, Announce, Goto, master
<1>8. FindsJobsOfTheCall'
  BY DEF IInv, FindsJobsOfTheCall, InCall, Alive, JobOfTheCall, Announce, Goto,
       master
<1>9. Commanded'
  BY DEF IInv, Commanded, Alive, JobOfTheCall, Announce, Goto, master
<1>10. Waiting'
  BY DEF IInv, Waiting, Alive, HasTask, Working, Announce, Goto, master
<1> QED BY <1>1, <1>2, <1>3, <1>4, <1>5, <1>6, <1>7, <1>8, <1>9, <1>10 DEF IInv

LEMMA BreakKeeps == ASSUME IInv, NEW p \in Procs, Break(p) PROVE IInv'
<1>1. Preparing'
  BY DEF IInv, Preparing, JobOfTheCall, Break, Goto, Save, master
<1>2. TypeOK'
  BY DEF IInv, TypeOK, InCall, Working, Break, Goto, Save, master
<1>3. NoTwins'
  BY DEF IInv, NoTwins, Alive, Break, Goto, Save, master
<1>4. WaitersHaveNoTask'
  BY DEF IInv, WaitersHaveNoTask, Alive, HasTask, Working, Break, Goto, Save, master
<1>5. OpenClose'
  BY DEF IInv, OpenClose, Break, Goto, Save, master
<1>6. Registered'
  BY DEF IInv, Registered, InCall, Alive, Break, Goto, Save, master
<1>7. WorksForTheCall'
  BY DEF IInv, WorksForTheCall, InCall, HasTask, Working, Break, Goto, Save, master
<1>8. FindsJobsOfTheCall'
  BY DEF IInv, FindsJobsOfTheCall, InCall, Alive, JobOfTheCall, Break, Goto,
       Save, master
<1>9. OutputsOfTheCall'
  BY DEF IInv, OutputsOfTheCall, Working, WorksForTheCall, HasTask, Break,
       Goto, Save, master
<1>10. Commanded'
  BY DEF IInv, Commanded, Alive, JobOfTheCall, Break, Goto, Save, master
<1>11. Collecting'
  BY DEF IInv, Collecting, InCall, Working, WorksForTheCall, HasTask, Break,
       Goto, master
<1>12. Waiting'
  BY DEF IInv, Waiting, Alive, HasTask, Working, Break, Goto, Save, master
<1> QED BY <1>1, <1>2, <1>3, <1>4, <1>5, <1>6, <1>7, <1>8, <1>9, <1>10, <1>11,
     <1>12 DEF IInv

LEMMA CrashKeeps == ASSUME IInv, NEW p \in Procs, Crash(p) PROVE IInv'
<1>1. Preparing'
  BY DEF IInv, Preparing, JobOfTheCall, Crash, Goto, Save, master
<1>2. TypeOK'
  BY DEF IInv, TypeOK, InCall, Working, Crash, Goto, Save, master
<1>3. NoTwins'
  BY DEF IInv, NoTwins, Alive, Crash, Goto, Save, master
<1>4. WaitersHaveNoTask'
  BY DEF IInv, WaitersHaveNoTask, Alive, HasTask, Working, Crash, Goto, Save, master
<1>5. OpenClose'
  BY DEF IInv, OpenClose, Crash, Goto, Save, master
<1>6. Registered'
  BY DEF IInv, Registered, InCall, Alive, Crash, Goto, Save, master
<1>7. WorksForTheCall'
  BY DEF IInv, WorksForTheCall, InCall, HasTask, Working, Crash, Goto, Save, master
<1>8. FindsJobsOfTheCall'
  BY DEF IInv, FindsJobsOfTheCall, InCall, Alive, JobOfTheCall, Crash, Goto,
       Save, master
<1>9. OutputsOfTheCall'
  BY DEF IInv, OutputsOfTheCall, Working, WorksForTheCall, HasTask, Crash,
       Goto, Save, master
<1>10. Commanded'
  BY DEF IInv, Commanded, Alive, JobOfTheCall, Crash, Goto, Save, master
<1>11. Collecting'
  BY DEF IInv, Collecting, InCall, Working, WorksForTheCall, HasTask, Crash,
       Goto, master
<1>12. Waiting'
  BY DEF IInv, Waiting, Alive, HasTask, Working, Crash, Goto, Save, master
<1> QED BY <1>1, <1>2, <1>3, <1>4, <1>5, <1>6, <1>7, <1>8, <1>9, <1>10, <1>11,
     <1>12 DEF IInv

LEMMA ReportKeeps == ASSUME IInv, NEW p \in Procs, Report(p) PROVE IInv'
<1>1. (OutputsOfTheCall /\ Preparing /\ Collecting)'
  BY DEF IInv, OutputsOfTheCall, Preparing, Collecting, JobOfTheCall, Report,
       master, files
<1>2. TypeOK'
  BY DEF IInv, TypeOK, InCall, Working, Report, Goto, master, files
<1>3. NoTwins'
  BY DEF IInv, NoTwins, Alive, Report, Goto, master, files
<1>4. WaitersHaveNoTask'
  BY DEF IInv, WaitersHaveNoTask, Alive, HasTask, Working, Report, Goto,
       master, files
<1>5. OpenClose'
  BY DEF IInv, OpenClose, Report, Goto, master, files
<1>6. Registered'
  BY DEF IInv, Registered, InCall, Alive, Report, Goto, master, files
<1>7. WorksForTheCall'
  BY DEF IInv, WorksForTheCall, InCall, HasTask, Working, Report, Goto, master,
       files
<1>8. FindsJobsOfTheCall'
  BY DEF IInv, FindsJobsOfTheCall, InCall, Alive, JobOfTheCall, Report, Goto,
       master, files
<1>9. Commanded'
  BY DEF IInv, Commanded, Alive, JobOfTheCall, Report, Goto, master, files
<1>10. Waiting'
  BY DEF IInv, Waiting, Alive, HasTask, Working, Report, Goto, master, files
<1> QED BY <1>1, <1>2, <1>3, <1>4, <1>5, <1>6, <1>7, <1>8, <1>9, <1>10 DEF IInv

LEMMA FinishKeeps == ASSUME IInv, NEW p \in Procs, Finish(p) PROVE IInv'
<1>1. OutputsOfTheCall'
  BY DEF IInv, OutputsOfTheCall, InCall, NoOutput, Finish, master
<1>2. TypeOK'
  BY DEF IInv, TypeOK, InCall, Working, Finish, master
<1>3. NoTwins'
  BY DEF IInv, NoTwins, Alive, Finish, master
<1>4. WaitersHaveNoTask'
  BY DEF IInv, WaitersHaveNoTask, Alive, HasTask, Working, TypeOK, InCall,
       Finish, master
<1>5. OpenClose'
  BY DEF IInv, OpenClose, Finish, master
<1>6. Registered'
  BY DEF IInv, Registered, InCall, Alive, Finish, master
<1>7. WorksForTheCall'
  BY DEF IInv, WorksForTheCall, HasTask, Working, TypeOK, NoTwins, Alive,
       Finish, master
<1>8. FindsJobsOfTheCall'
  BY DEF IInv, FindsJobsOfTheCall, Alive, JobOfTheCall, Working,
       WorksForTheCall, HasTask, Finish, master
<1>9. Commanded'
  BY DEF IInv, Commanded, Alive, JobOfTheCall, Finish, master
<1>10. Preparing'
  BY DEF IInv, Preparing, JobOfTheCall, InCall, Working, WorksForTheCall,
       HasTask, Finish, master
<1>11. Collecting'
  BY DEF IInv, Collecting, Finish, master
<1>12. Waiting'
  BY DEF IInv, Waiting, Alive, HasTask, Working, Finish, master
<1> QED BY <1>1, <1>2, <1>3, <1>4, <1>5, <1>6, <1>7, <1>8, <1>9, <1>10, <1>11,
     <1>12 DEF IInv

-------------------------------------------------------------------------------
LEMMA InitEstablishes == ASSUME Init PROVE IInv
<1>1. TypeOK
  BY ConstantsAssumption DEF Init, TypeOK, NoOutput
<1>2. \A p \in Procs : pc[p] = "none"
  BY DEF Init
<1>3. NoTwins /\ WaitersHaveNoTask /\ Waiting
  BY <1>2 DEF NoTwins, WaitersHaveNoTask, Waiting, Alive
<1>4. OpenClose
  BY <1>2 DEF Init, OpenClose
<1>5. mpc = "idle"
  BY DEF Init
<1> QED BY <1>1, <1>3, <1>4, <1>5 DEF IInv, Registered, WorksForTheCall,
     FindsJobsOfTheCall,
      OutputsOfTheCall, Commanded, Preparing, Collecting, InCall

LEMMA StutterKeeps == ASSUME IInv, UNCHANGED vars PROVE IInv'
<1>1. (TypeOK /\ NoTwins /\ WaitersHaveNoTask /\ OpenClose)'
  BY DEF IInv, TypeOK, NoTwins, WaitersHaveNoTask, OpenClose, HasTask, Alive,
         vars, master, files, slaves
<1>2. (Registered /\ WorksForTheCall /\ FindsJobsOfTheCall /\ OutputsOfTheCall)'
  BY DEF IInv, Registered, WorksForTheCall, FindsJobsOfTheCall, OutputsOfTheCall,
         HasTask, Alive, JobOfTheCall, vars, master, files, slaves
<1>3. (Commanded /\ Preparing /\ Collecting /\ Waiting)'
  BY DEF IInv, Commanded, Preparing, Collecting, Waiting, HasTask, Alive,
         JobOfTheCall, vars, master, files, slaves
<1> QED BY <1>1, <1>2, <1>3 DEF IInv

LEMMA NextKeeps == ASSUME Patient, IInv, [Next]_vars PROVE IInv'
<1>1. ASSUME MasterStep PROVE IInv'
  BY <1>1, PrepKeeps, CheckKeeps, LaunchKeeps, ClearKeeps, NoticeKeeps,
       PollDoneKeeps,
     CollectKeeps DEF MasterStep
<1>2. ASSUME User PROVE IInv'
  BY <1>2, NewSessionKeeps, CloseSlavesKeeps, AbortKeeps, BeginKeeps DEF User
<1>3. ASSUME NEW p \in Procs, ProcStep(p) PROVE IInv'
  BY <1>3, BootKeeps, LookKeeps, LoadKeeps, LeaveKeeps, GoneKeeps, CompleteKeeps,
     AnnounceKeeps, BreakKeeps, CrashKeeps, ReportKeeps, FinishKeeps DEF ProcStep
<1> QED BY <1>1, <1>2, <1>3, StutterKeeps DEF Next

\* IInv holds in every reachable state: the master, its user and the slaves keep it,
\* for any number of CPUs, calls and sessions and with every fault.
THEOREM Invariance == ASSUME Patient PROVE Spec => []IInv
<1>1. Init => IInv
  BY InitEstablishes
<1>2. IInv /\ [Next]_vars => IInv'
  BY NextKeeps
<1> QED BY <1>1, <1>2, PTL DEF Spec

\* Two slaves never serve the same CPU at the same time.
THEOREM NoTwinsAlways == ASSUME Patient PROVE Spec => []NoTwins
<1>1. IInv => NoTwins
  BY DEF IInv
<1> QED BY <1>1, Invariance, PTL

\* When masterParallel collects, no slave is left that works on the call: who works
\* has its P_ file (WorksForTheCall), and none is left (Collecting).
THEOREM NobodyStillWorksAlways == ASSUME Patient PROVE Spec => []NobodyStillWorks
<1>1. ASSUME IInv, mpc = "collect", NEW p \in Procs, Alive(p) PROVE task[p] # call
  <2>1. ~ HasTask(p)
    BY <1>1 DEF IInv, WorksForTheCall, Collecting, InCall
  <2>2. task[p] = 0
    BY <1>1, <2>1 DEF IInv, WaitersHaveNoTask
  <2> QED BY <1>1, <2>2 DEF IInv, FindsJobsOfTheCall, InCall
<1>2. IInv => NobodyStillWorks
  BY <1>1 DEF NobodyStillWorks
<1> QED BY <1>2, Invariance, PTL

\* The outputs that masterParallel loads were all saved for this call.
THEOREM FreshOutputsAlways == ASSUME Patient PROVE Spec => []FreshOutputs
<1>1. IInv => FreshOutputs
  BY DEF IInv, Collecting, FreshOutputs
<1> QED BY <1>1, Invariance, PTL
===============================================================================
