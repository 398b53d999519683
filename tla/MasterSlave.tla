------------------------------ MODULE MasterSlave ------------------------------
(***************************************************************************)
(* Parallel DYNARE (matlab/parallel): the master process of a session and  *)
(* the slave processes it launches talk through files of one directory     *)
(* (a local cluster; fname, the function that runs, is the same in every   *)
(* call, which is the hardest case).                                       *)
(*                                                                         *)
(*   masterParallel   one call: prepare the files of each CPU, launch what *)
(*                    has to be launched, poll, collect                    *)
(*   fParallel        a slave of strategy 0 (Open-Close): one job, exit    *)
(*   slaveParallel    a slave of strategy 1 (Always-Open): job after job,  *)
(*                    until it has been idle for 20 minutes or the file    *)
(*                    slaveParallel_input is gone                          *)
(*                                                                         *)
(* Each access to a file is a step of its own where another process could  *)
(* come in between.  Outputs and job files carry the number of the call    *)
(* they belong to: the program has no such number, the properties need it. *)
(***************************************************************************)
EXTENDS Integers, FiniteSets

CONSTANTS MaxCPUs,      \* CPUs of the cluster
          MaxCalls,     \* bound: calls of masterParallel
          MaxSessions,  \* bound: DYNARE sessions run in the same directory
          Strategies,   \* values of leaveSlaveOpen, a subset of {0, 1}
          Faults,       \* what may happen: "timeout" of an idle slave, "crash"
                        \* of a job, "close" (a job asks for the end of all
                        \* others), "abort" of the master by its user
          Patient       \* a call begins only when the slaves of earlier
                        \* sessions have noticed that they should leave

ASSUME ConstantsAssumption == MaxCPUs \in Nat /\ Strategies \subseteq {0, 1}

CPUs == 1 .. MaxCPUs

\* At most two processes of a CPU are alive at once (bound).
Procs == CPUs \X {1, 2}

VARIABLES strategy, session, call,
          mpc,      \* where masterParallel is
          n,        \* totCPU of the call
          next,     \* the CPU of the loop over j
          newInst,  \* newInstance, as the last turn of that loop left it
          cmds,     \* CPUs with a command in ConcurrentCommand1.bat
          flag,     \* flag_CloseAllSlaves
          who,      \* whoiamCloseAllSlaves
          pfile,    \* CPUs with a P_fname_jEnd.txt: the job is not finished
          job,      \* slaveJobj.mat: the call it belongs to, 0 if there is none
          input,    \* CPUs with a slaveParallel_inputj.mat
          pslave,   \* CPUs with a P_slave_jEnd.txt: a slave is alive
          output,   \* fname_output_j.mat
          closing,  \* CPUs whose comp_status file says CloseAllSlaves
          brk,      \* slaveParallel_break.mat exists
          pc,       \* where each slave process is; "found": the job file was seen;
                    \* "saved" and "abandon": the output is saved and P_fname_jEnd.txt
                    \* still there; "stuck": an error nobody catches, at the prompt
          task      \* the call whose job each process has taken, or 0

master == <<strategy, session, call, mpc, n, next, newInst, cmds, flag, who>>
files  == <<pfile, job, input, pslave, output, closing, brk>>
slaves == <<pc, task>>
vars   == <<master, files, slaves>>

InCall == {"prep", "check", "launch", "clear", "poll", "collect"}

NoOutput == [call |-> 0, kind |-> "none"]

Alive(p) == pc[p] \notin {"none", "stuck"}

\* The process that the command of CPU j starts.
FreeSlots(j) == {p \in Procs : p[1] = j /\ ~ Alive(p)}
Slot(j) == CHOOSE p \in FreeSlots(j) : \A q \in FreeSlots(j) : p[2] =< q[2]

Init == /\ strategy \in Strategies
        /\ session = 1 /\ call = 0
        /\ mpc = "idle"
        /\ n = 0 /\ next = 1
        /\ newInst = FALSE /\ cmds = {}
        /\ flag = FALSE /\ who = 0
        /\ pfile = {} /\ input = {} /\ pslave = {} /\ closing = {}
        /\ job = [j \in CPUs |-> 0]
        /\ output = [j \in CPUs |-> NoOutput]
        /\ brk = FALSE
        /\ pc = [p \in Procs |-> "none"]
        /\ task = [p \in Procs |-> 0]

-------------------------------------------------------------------------------
(***************************************************************************)
(* The master: a session and its calls of masterParallel                   *)
(***************************************************************************)

\* Mutant of NewSession: the files of the last session stay.
NewSession_Keeps ==
    /\ mpc \in {"idle", "ended"}
    /\ session < MaxSessions
    /\ session' = session + 1
    /\ mpc' = "idle"
    /\ pslave' = {}
    /\ UNCHANGED <<strategy, call, n, next, newInst, cmds, flag, who, pfile, job,
                   input, output, closing, brk, slaves>>

\* InitializeComputationalEnvironment, and masterParallel with initialize = 1.
NewSession ==
    /\ mpc \in {"idle", "ended"}
    /\ session < MaxSessions
    /\ session' = session + 1
    /\ mpc' = "idle"
    /\ pslave' = {}
    /\ input' = {}
    /\ UNCHANGED <<strategy, call, n, next, newInst, cmds, flag, who, pfile, job,
                   output, closing, brk, slaves>>

\* A call for the jobs of k CPUs may begin.
MayBegin(k) == /\ mpc = "idle"
               /\ call < MaxCalls
               /\ k \in CPUs
               /\ Patient => \A p \in Procs : Alive(p) => p[1] \in input

\* Inputs are saved, the break file is deleted by strategy 1 only, and the
\* remnants of earlier calls are cleaned up.
Begin(k) ==
    /\ MayBegin(k)
    /\ call' = call + 1
    /\ n' = k /\ next' = 1
    /\ newInst' = FALSE /\ cmds' = {} /\ flag' = FALSE /\ who' = 0
    /\ mpc' = "prep"
    /\ brk' = (brk /\ strategy = 0)
    /\ closing' = {} /\ pfile' = {} /\ output' = [j \in CPUs |-> NoOutput]
    /\ UNCHANGED <<strategy, session, job, input, pslave, slaves>>

\* To the next turn of the loop over the CPUs, or out of it.
NextCPU == /\ next' = next + 1
           /\ mpc' = IF next = n THEN "launch" ELSE "prep"

\* P_fname_jEnd.txt and, with strategy 1, the job file of CPU j.
Prep ==
    /\ mpc = "prep"
    /\ pfile' = pfile \cup {next}
    /\ \/ /\ strategy = 1
          /\ job' = [job EXCEPT ![next] = call]
          /\ mpc' = "check"
          /\ UNCHANGED <<next, cmds, input>>
       \/ /\ strategy = 0
          /\ input' = input \cup {next}
          /\ cmds' = cmds \cup {next}
          /\ NextCPU
          /\ UNCHANGED job
    /\ UNCHANGED <<strategy, session, call, n, newInst, flag, who, pslave, output,
                   closing, brk, slaves>>

\* pause(1) is enough for a slave that saw no job to leave: it is not between its
\* last look and the deletion of its P_slave file when the master goes on.
Paused(j) == \A p \in Procs : p[1] = j => pc[p] # "leaving"

\* Mutant of Check: a slave is launched for every job.
Check_Launches ==
    /\ mpc = "check"
    /\ Paused(next)
    /\ newInst' = TRUE
    /\ pslave' = pslave \cup {next}
    /\ input' = input \cup {next}
    /\ cmds' = cmds \cup {next}
    /\ NextCPU
    /\ UNCHANGED <<strategy, session, call, n, flag, who, pfile, job, output,
                   closing, brk, slaves>>

\* Strategy 1: a slave is launched for CPU j unless one is alive.
Check ==
    /\ mpc = "check"
    /\ Paused(next)
    /\ IF next \in pslave
       THEN /\ newInst' = FALSE
            /\ UNCHANGED <<pslave, input, cmds>>
       ELSE /\ newInst' = TRUE
            /\ pslave' = pslave \cup {next}
            /\ input' = input \cup {next}
            /\ cmds' = cmds \cup {next}
    /\ NextCPU
    /\ UNCHANGED <<strategy, session, call, n, flag, who, pfile, job, output,
                   closing, brk, slaves>>

\* The commands are run if newInstance, the value for the last CPU, says so.
Launch ==
    /\ mpc = "launch"
    /\ mpc' = "clear"
    /\ IF strategy = 0 \/ newInst
       THEN /\ \A j \in cmds : FreeSlots(j) # {}
            /\ pc' = [p \in Procs |->
                 IF p[1] \in cmds /\ p = Slot(p[1]) THEN "boot" ELSE pc[p]]
            /\ task' = [p \in Procs |->
                 IF p[1] \in cmds /\ p = Slot(p[1])
                 THEN IF strategy = 0 THEN call ELSE 0 ELSE task[p]]
       ELSE UNCHANGED slaves
    /\ UNCHANGED <<strategy, session, call, n, next, newInst, cmds, flag, who, files>>

\* The comp_status files are deleted once more before the master starts to poll.
Clear == /\ mpc = "clear"
         /\ mpc' = "poll"
         /\ closing' = {}
         /\ UNCHANGED <<strategy, session, call, n, next, newInst, cmds, flag, who,
                        pfile, job, input, pslave, output, brk, slaves>>

\* A job has asked that all the others stop: closeSlave(.., 1), once.
Notice == /\ mpc = "poll"
          /\ ~ flag
          /\ \E j \in closing \cap 1 .. n : who' = j
          /\ flag' = TRUE
          /\ brk' = TRUE
          /\ UNCHANGED <<strategy, session, call, mpc, n, next, newInst, cmds,
                         pfile, job, input, pslave, output, closing, slaves>>

HaveAllOutputs == \A j \in 1 .. n : output[j] # NoOutput

\* Mutant of PollDone: the P_ files are not looked at.
PollDone_OutputsOnly ==
    /\ mpc = "poll"
    /\ HaveAllOutputs
    /\ mpc' = "collect"
    /\ closing' = {}
    /\ UNCHANGED <<strategy, session, call, n, next, newInst, cmds, flag, who,
                   pfile, job, input, pslave, output, brk, slaves>>

\* No P_ file is left and the output of every CPU is there.
PollDone == /\ mpc = "poll"
            /\ pfile = {}
            /\ HaveAllOutputs
            /\ mpc' = "collect"
            /\ closing' = {}
            /\ UNCHANGED <<strategy, session, call, n, next, newInst, cmds, flag, who,
                           pfile, job, input, pslave, output, brk, slaves>>

\* The outputs are loaded and deleted, the break file with them if this call had
\* made it; a job that crashed makes the master end its session with an error.
Collect == /\ mpc = "collect"
           /\ mpc' = IF \E j \in 1 .. n : output[j].kind = "error" THEN "ended" ELSE "idle"
           /\ output' = [j \in CPUs |-> IF j =< n THEN NoOutput ELSE output[j]]
           /\ brk' = (brk /\ ~ flag)
           /\ UNCHANGED <<strategy, session, call, n, next, newInst, cmds, flag, who,
                          pfile, job, input, pslave, closing, slaves>>

\* closeSlave with two arguments, at the end of a strategy-1 sequence of calls.
CloseSlaves == /\ mpc = "idle"
               /\ strategy = 1
               /\ input # {}
               /\ input' = {}
               /\ UNCHANGED <<master, pfile, job, pslave, output, closing, brk, slaves>>

\* The user interrupts the master; the slaves know nothing of it.
Abort == /\ "abort" \in Faults
         /\ mpc \in InCall
         /\ mpc' = "ended"
         /\ UNCHANGED <<strategy, session, call, n, next, newInst, cmds, flag, who,
                        files, slaves>>

-------------------------------------------------------------------------------
(***************************************************************************)
(* A slave process p of CPU p[1]                                           *)
(***************************************************************************)

Goto(p, from, to) == /\ pc[p] = from
                     /\ pc' = [pc EXCEPT ![p] = to]

\* fParallel has its job in its arguments; slaveParallel loads its input file,
\* outside any try.
Boot(p) == /\ Goto(p, "boot", IF strategy = 0 THEN "running"
                              ELSE IF p[1] \in input THEN "idle" ELSE "stuck")
           /\ UNCHANGED <<master, files, task>>

\* dir finds a job file.
Look(p) == /\ Goto(p, "idle", "found")
           /\ job[p[1]] # 0
           /\ UNCHANGED <<master, files, task>>

\* A second later the job is loaded and its file deleted.
Load(p) == /\ Goto(p, "found", IF job[p[1]] # 0 THEN "running" ELSE "stuck")
           /\ task' = [task EXCEPT ![p] = job[p[1]]]
           /\ job' = [job EXCEPT ![p[1]] = 0]
           /\ UNCHANGED <<master, pfile, input, pslave, output, closing, brk>>

\* No job, and the input file is gone or the 20 minutes are over.
Leave(p) == /\ Goto(p, "idle", "leaving")
            /\ job[p[1]] = 0
            /\ p[1] \notin input \/ "timeout" \in Faults
            /\ UNCHANGED <<master, files, task>>

Gone(p) == /\ Goto(p, "leaving", "none")
           /\ pslave' = pslave \ {p[1]}
           /\ task' = [task EXCEPT ![p] = 0]
           /\ UNCHANGED <<master, pfile, job, input, output, closing, brk>>

Save(p, kind) == output' = [output EXCEPT ![p[1]] = [call |-> task[p], kind |-> kind]]

\* The function returns.  It may have asked for the end of all the other jobs.
Complete(p) ==
    /\ \/ Goto(p, "running", "saved")
       \/ "close" \in Faults /\ Goto(p, "running", "announce")
    /\ Save(p, "ok")
    /\ UNCHANGED <<master, pfile, job, input, pslave, closing, brk, task>>

Announce(p) == /\ Goto(p, "announce", "saved")
               /\ closing' = closing \cup {p[1]}
               /\ UNCHANGED <<master, pfile, job, input, pslave, output, brk, task>>

\* What fMessageStatus tells the slave: to break its job.
AskedToBreak(p) == p[1] \notin input \/ brk

\* fMessageStatus, called by the function, throws "Master asked to break the job".
Break(p) == /\ Goto(p, "running", "saved")
            /\ AskedToBreak(p)
            /\ Save(p, "broken")
            /\ UNCHANGED <<master, pfile, job, input, pslave, closing, brk, task>>

Crash(p) == /\ "crash" \in Faults
            /\ Goto(p, "running", "failed")
            /\ Save(p, "error")
            /\ UNCHANGED <<master, pfile, job, input, pslave, closing, brk, task>>

\* The handler of a crash calls fMessageStatus, which may throw again.
Report(p) == /\ Goto(p, "failed", IF AskedToBreak(p) THEN "stuck" ELSE "abandon")
             /\ UNCHANGED <<master, files, task>>

\* Mutant of Finish: the P_ file of a crashed job is not deleted.
Finish_NotAfterCrash(p) ==
    /\ \/ pc[p] = "saved" /\ pfile' = pfile \ {p[1]}
       \/ pc[p] = "abandon" /\ UNCHANGED pfile
    /\ pc' = [pc EXCEPT ![p] = IF strategy = 0 THEN "none"
                               ELSE IF pc[p] = "saved" THEN "idle" ELSE "leaving"]
    /\ task' = [task EXCEPT ![p] = 0]
    /\ UNCHANGED <<master, job, input, pslave, output, closing, brk>>

\* P_fname_jEnd.txt is deleted; fParallel exits, slaveParallel goes on unless the
\* job has crashed.
Finish(p) ==
    /\ pc[p] \in {"saved", "abandon"}
    /\ pfile' = pfile \ {p[1]}
    /\ pc' = [pc EXCEPT ![p] = IF strategy = 0 THEN "none"
                               ELSE IF pc[p] = "saved" THEN "idle" ELSE "leaving"]
    /\ task' = [task EXCEPT ![p] = 0]
    /\ UNCHANGED <<master, job, input, pslave, output, closing, brk>>

-------------------------------------------------------------------------------

\* The steps masterParallel takes by itself once it is called.
MasterStep == Prep \/ Check \/ Launch \/ Clear \/ Notice \/ PollDone \/ Collect

User == NewSession \/ CloseSlaves \/ Abort \/ \E k \in CPUs : Begin(k)

ProcStep(p) == \/ Boot(p) \/ Look(p) \/ Load(p) \/ Leave(p) \/ Gone(p)
               \/ Complete(p) \/ Announce(p) \/ Break(p) \/ Crash(p) \/ Report(p)
               \/ Finish(p)

Next == MasterStep \/ User \/ \E p \in Procs : ProcStep(p)

Spec == Init /\ [][Next]_vars

\* Every process is scheduled and every job ends in some way.  The user owes
\* nobody a call, a session or an interruption.
FairSpec == Spec /\ WF_vars(MasterStep) /\ \A p \in Procs : WF_vars(ProcStep(p))

-------------------------------------------------------------------------------
(***************************************************************************)
(* Properties                                                              *)
(***************************************************************************)

\* The results that the master is about to load were computed for this call, not
\* left by a slave of an earlier one ("Clean up remnants of previous runs").
FreshOutputs == mpc = "collect" => \A j \in 1 .. n : output[j].call = call

\* When the master collects, nobody works on the call any more: no slave is left
\* that could still save an output or delete a P_ file of the next call.
NobodyStillWorks ==
    mpc = "collect" => \A p \in Procs : Alive(p) => task[p] # call

\* P_slave files keep two slaves from serving the same CPU: they would take each
\* other's jobs and files.
NoTwins == \A p, q \in Procs : p[1] = q[1] /\ Alive(p) /\ Alive(q) => p = q

\* Jobs that nobody will ever do: their slave was never launched, or it died in the
\* handler of a crash while it was asked to break.
Skipped == \E j \in pfile : job[j] # 0 /\ \A p \in Procs : p[1] = j => ~ Alive(p)
Stuck == \E p \in Procs : pc[p] = "stuck" /\ task[p] = call

\* A call ends, unless one of its jobs was lost in one of these two ways.
CallsEndUnlessLost == mpc \in InCall ~> (mpc \notin InCall \/ Skipped \/ Stuck)

===============================================================================
