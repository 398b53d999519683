---------------------------- MODULE DistributeJobs ----------------------------
(***************************************************************************)
(* distributeJobs.m and the ranges of masterParallel.m: how the jobs       *)
(* fBlock .. nBlock of one parallel call are dealt to the nodes of the     *)
(* cluster, in proportion to their weights, and then to their CPUs.        *)
(*                                                                         *)
(* The shares are computed in floating point and rounded up.  A share that *)
(* is a whole number may come out just above it and be rounded up to the   *)
(* next one: Share allows both.                                            *)
(***************************************************************************)
EXTENDS Integers, Sequences, FiniteSets, Functions

CONSTANTS MaxNodes, MaxCPUs, MaxWeight,  \* bounds of the cluster: nodes, CPUs of
                                         \* a node, weight of a CPU of a node
          MaxFirst, MaxJobs              \* bounds of fBlock and of the jobs

ASSUME BoundsAssumption == {MaxNodes, MaxCPUs, MaxWeight, MaxFirst, MaxJobs} \subseteq Nat

VARIABLES pc,      \* "share", "trim", "serve", "done"
          ncpu,    \* CPUs of each node (nCPUoriginal)
          weight,  \* NodeWeight of each node
          fBlock, nBlock,
          jobsForNode, jobsForCpu,
          slow,    \* VerySlow, the node that loses jobs
          node     \* the node whose CPUs are served next

vars == <<pc, ncpu, weight, fBlock, nBlock, jobsForNode, jobsForCpu, slow, node>>

SumOf(f) == FoldFunction(LAMBDA x, y : x + y, 0, f)

SmallestOf(S) == CHOOSE x \in S : \A y \in S : x =< y

Nodes == 1 .. Len(ncpu)

\* cumsum(nCPU): the CPUs of the nodes up to i.
UpTo(i) == SumOf(SubSeq(ncpu, 1, i))

NumberOfJobs == nBlock - fBlock + 1

\* InitializeComputationalEnvironment has sorted the nodes by weight.
Descending(s) == \A i \in 1 .. Len(s) - 1 : s[i] >= s[i + 1]

Init == /\ \E n \in 1 .. MaxNodes :
             /\ ncpu \in [1 .. n -> 1 .. MaxCPUs]
             /\ weight \in {w \in [1 .. n -> 1 .. MaxWeight] : Descending(w)}
        /\ fBlock \in 1 .. MaxFirst
        /\ nBlock \in fBlock .. fBlock + MaxJobs - 1
        /\ pc = "share"
        /\ jobsForNode = [i \in Nodes |-> 0]
        /\ jobsForCpu = [j \in 1 .. UpTo(Len(ncpu)) |-> 0]
        /\ slow = Len(ncpu)
        /\ node = 1

\* The share of a node is Weighted(i) / TotalWeight of the jobs.
Weighted(i) == weight[i] * ncpu[i] * NumberOfJobs
TotalWeight == SumOf([i \in Nodes |-> weight[i] * ncpu[i]])
Rounded(i) == (Weighted(i) + TotalWeight - 1) \div TotalWeight
Exact(i) == Weighted(i) % TotalWeight = 0

\* Mutant of Share: the shares are rounded down.
Share_Floor ==
    /\ pc = "share"
    /\ jobsForNode' = [i \in Nodes |-> Weighted(i) \div TotalWeight]
    /\ pc' = "trim"
    /\ UNCHANGED <<ncpu, weight, fBlock, nBlock, jobsForCpu, slow, node>>

Share == /\ pc = "share"
         /\ \E up \in SUBSET {i \in Nodes : Exact(i)} :
              jobsForNode' = [i \in Nodes |-> Rounded(i) + IF i \in up THEN 1 ELSE 0]
         /\ pc' = "trim"
         /\ UNCHANGED <<ncpu, weight, fBlock, nBlock, jobsForCpu, slow, node>>

\* Mutant of Trim: the search for a node with a job starts over and over.
Trim_NoMove ==
    /\ pc = "trim"
    /\ SumOf(jobsForNode) > NumberOfJobs
    /\ jobsForNode[slow] # 0
    /\ jobsForNode' = [jobsForNode EXCEPT ![slow] = @ - 1]
    /\ UNCHANGED <<pc, ncpu, weight, fBlock, nBlock, jobsForCpu, slow, node>>

\* One turn of the loop that takes the excess jobs from the slowest nodes.
Trim == /\ pc = "trim"
        /\ SumOf(jobsForNode) > NumberOfJobs
        /\ \/ /\ jobsForNode[slow] = 0
              /\ slow' = slow - 1
              /\ UNCHANGED jobsForNode
           \/ /\ jobsForNode[slow] # 0
              /\ jobsForNode' = [jobsForNode EXCEPT ![slow] = @ - 1]
              /\ UNCHANGED slow
        /\ UNCHANGED <<pc, ncpu, weight, fBlock, nBlock, jobsForCpu, node>>

Trimmed == /\ pc = "trim"
           /\ SumOf(jobsForNode) =< NumberOfJobs
           /\ pc' = "serve"
           /\ UNCHANGED <<ncpu, weight, fBlock, nBlock, jobsForNode, jobsForCpu, slow, node>>

\* The CPUs of a node get the same number of jobs each, but one at least, until
\* the jobs of the node are given out.
Quota(i) == IF jobsForNode[i] < ncpu[i] THEN 1 ELSE jobsForNode[i] \div ncpu[i]
Filled(i) == SmallestOf({k \in 1 .. ncpu[i] : k * Quota(i) >= jobsForNode[i]} \cup {ncpu[i]})

\* Mutant of Serve: what remains after the division is not given to anybody.
Serve_NoRemainder ==
    /\ pc = "serve"
    /\ jobsForCpu' = [j \in DOMAIN jobsForCpu |->
         IF j \in UpTo(node - 1) + 1 .. UpTo(node)
         THEN IF j - UpTo(node - 1) =< Filled(node) THEN Quota(node) ELSE 0
         ELSE jobsForCpu[j]]
    /\ node' = node + 1
    /\ pc' = IF node = Len(ncpu) THEN "done" ELSE "serve"
    /\ UNCHANGED <<ncpu, weight, fBlock, nBlock, jobsForNode, slow>>

\* The last CPU of the node takes what is left, or gives back what is too much.
Serve == /\ pc = "serve"
         /\ jobsForCpu' = [j \in DOMAIN jobsForCpu |->
              IF j \in UpTo(node - 1) + 1 .. UpTo(node)
              THEN   (IF j - UpTo(node - 1) =< Filled(node) THEN Quota(node) ELSE 0)
                   + (IF j = UpTo(node)
                      THEN jobsForNode[node] - Filled(node) * Quota(node) ELSE 0)
              ELSE jobsForCpu[j]]
         /\ node' = node + 1
         /\ pc' = IF node = Len(ncpu) THEN "done" ELSE "serve"
         /\ UNCHANGED <<ncpu, weight, fBlock, nBlock, jobsForNode, slow>>

Next == Share \/ Trim \/ Trimmed \/ Serve

Spec == Init /\ [][Next]_vars

\* A sequential program runs on.
FairSpec == Spec /\ WF_vars(Next)

-------------------------------------------------------------------------------
(***************************************************************************)
(* What distributeJobs returns, and what masterParallel makes of it        *)
(***************************************************************************)

nBlockPerCPU ==
    LET busy[j \in 0 .. Len(jobsForCpu)] ==
            IF j = 0 THEN << >>
            ELSE IF jobsForCpu[j] = 0 THEN busy[j - 1]
            ELSE Append(busy[j - 1], jobsForCpu[j])
    IN  busy[Len(jobsForCpu)]
totCPU == Len(nBlockPerCPU)

\* The jobs that CPU j is told to run, fblck .. nblck: the first is counted from
\* fBlock, the last from 1.
Range1(j) == SumOf(SubSeq(nBlockPerCPU, 1, j - 1)) + (fBlock - 1) + 1
Range2(j) == SumOf(SubSeq(nBlockPerCPU, 1, j))
JobsOf(j) == Range1(j) .. Range2(j)
-------------------------------------------------------------------------------
(***************************************************************************)
(* Properties                                                              *)
(***************************************************************************)

\* The rounded shares are never too few for the jobs, so that the branch of
\* distributeJobs.m:120 that hands out missing jobs is dead code, and the trim
\* ends with exactly the jobs of the call.
NeverShort == /\ pc = "trim" => SumOf(jobsForNode) >= NumberOfJobs
              /\ pc \in {"serve", "done"} => SumOf(jobsForNode) = NumberOfJobs

\* Every job of the call is in the range of exactly one CPU, and no other job is
\* in a range.
PartitionsJobs ==
    /\ UNION {JobsOf(j) : j \in 1 .. totCPU} = fBlock .. nBlock
    /\ \A j, k \in 1 .. totCPU : j # k => JobsOf(j) \cap JobsOf(k) = {}

\* Each node has a job, or a single CPU.
NobodyStarves == \A i \in Nodes : jobsForNode[i] = 0 => ncpu[i] = 1

\* When the jobs are counted from 1 and no node with several CPUs is left without
\* a job, the ranges the master sends out partition the jobs of the call.
EachJobOnce == pc = "done" /\ fBlock = 1 /\ NobodyStarves => PartitionsJobs

\* The distribution ends: the search for a node that can lose a job does not go on
\* for ever.
Ends == <>(pc = "done")

===============================================================================
