------------------------- MODULE DistributeJobsProofs -------------------------
(***************************************************************************)
(* Theorems about DistributeJobs, for clusters and calls of any size: the  *)
(* jobs given to the nodes are those of the call, and the ranges of the    *)
(* CPUs partition them where they can.                                     *)
(***************************************************************************)
EXTENDS DistributeJobs, DataLemmas, SequenceTheorems

\* Numbers of processors and of blocks.
Positive == Nat \ {0}

\* Each node served has given its jobs to its CPUs, and they are none of them
\* negative unless a node with several CPUs was left without a job.
Served ==
    LET served == 1 .. UpTo(node - 1)
    IN  /\ SumFunctionOnSet(jobsForCpu, served) = SumFunctionOnSet(jobsForNode, 1 .. node - 1)
        /\ NobodyStarves => \A j \in served : jobsForCpu[j] \in Nat

\* The types of the variables.
TypeOK ==
    /\ pc \in {"share", "trim", "serve", "done"}
    /\ ncpu \in Seq(Positive) /\ Len(ncpu) \in Positive
    /\ weight \in [Nodes -> Positive]
    /\ fBlock \in Positive /\ nBlock \in Positive /\ fBlock =< nBlock
    /\ jobsForNode \in [Nodes -> Nat]
    /\ jobsForCpu \in [1 .. UpTo(Len(ncpu)) -> Int]
    /\ slow \in Nodes
    /\ node \in 1 .. Len(ncpu) + 1

\* The nodes after VerySlow have no jobs left to lose.
Trimming == /\ pc = "share" => slow = Len(ncpu)
            /\ pc = "trim" => \A i \in Nodes : i > slow => jobsForNode[i] = 0

\* The node that is served next.
Serving ==
    /\ pc \in {"share", "trim"} => node = 1
    /\ pc = "serve" => node =< Len(ncpu)
    /\ pc = "done" => node = Len(ncpu) + 1

\* The inductive invariant.
IInv == TypeOK /\ NeverShort /\ Trimming /\ Serving /\ Served

-------------------------------------------------------------------------------
\* The sums of the model are those of the lemmas.
LEMMA SumOfIsSum == ASSUME NEW f PROVE SumOf(f) = SumFunctionOnSet(f, DOMAIN f)
BY DEF SumOf, FoldFunction, SumFunctionOnSet

\* The sums of the first values of a sequence of positive numbers grow.
LEMMA PrefixSums ==
    ASSUME NEW s \in Seq(Positive), NEW i \in 0 .. Len(s)
    PROVE  /\ SumOf(SubSeq(s, 1, i)) = SumFunctionOnSet(s, 1 .. i)
           /\ SumOf(SubSeq(s, 1, i)) \in Nat
           /\ i = 0 => SumOf(SubSeq(s, 1, i)) = 0
           /\ i > 0 => SumOf(SubSeq(s, 1, i)) = SumOf(SubSeq(s, 1, i - 1)) + s[i]
           /\ \A k \in i .. Len(s) : SumOf(SubSeq(s, 1, i)) =< SumOf(SubSeq(s, 1, k))
<1>. DEFINE S(k) == SumFunctionOnSet(s, 1 .. k)
<1>1. ASSUME NEW k \in 0 .. Len(s) PROVE SumOf(SubSeq(s, 1, k)) = S(k) /\ S(k) \in Nat
  <2>1. SubSeq(s, 1, k) \in Seq(Positive) /\ DOMAIN SubSeq(s, 1, k) = 1 .. k
    OBVIOUS
  <2>2. \A j \in 1 .. k : SubSeq(s, 1, k)[j] = s[j] /\ s[j] \in Positive
    OBVIOUS
  <2>3. IsFiniteSet(1 .. k)
    BY FS_Interval
  <2>4. SumOf(SubSeq(s, 1, k)) = SumFunctionOnSet(SubSeq(s, 1, k), 1 .. k)
    BY <2>1, SumOfIsSum
  <2>5. SumFunctionOnSet(SubSeq(s, 1, k), 1 .. k) = S(k)
    BY <2>2, <2>3, SumEqual
  <2>6. S(k) \in Nat
    BY <2>2, <2>3, SumNat DEF Positive
  <2> QED BY <2>4, <2>5, <2>6
<1>2. S(0) = 0
  BY SumEmpty, 1 .. 0 = {}
<1>3. ASSUME NEW k \in 0 .. Len(s) - 1 PROVE S(k + 1) = S(k) + s[k + 1]
  BY SumNext DEF Positive
<1>. DEFINE Above == {n \in Nat : i + n =< Len(s) => S(i) =< S(i + n)}
<1>4. 0 \in Above
  BY <1>1, i + 0 = i
<1>5. ASSUME NEW n \in Nat, n \in Above PROVE n + 1 \in Above
  <2>. SUFFICES ASSUME i + (n + 1) =< Len(s) PROVE S(i) =< S(i + (n + 1))
    OBVIOUS
  <2>1. S(i) =< S(i + n)
    BY <1>5
  <2>2. i + n \in 0 .. Len(s) - 1 /\ i + (n + 1) = (i + n) + 1
    OBVIOUS
  <2>3. S((i + n) + 1) = S(i + n) + s[(i + n) + 1] /\ s[(i + n) + 1] \in Nat
    BY <1>3, <2>2 DEF Positive
  <2>4. S(i) \in Nat /\ S(i + n) \in Nat
    BY <1>1, <2>2
  <2>. HIDE DEF S
  <2> QED BY <2>1, <2>2, <2>3, <2>4
<1>. HIDE DEF Above
<1>6. \A n \in Nat : n \in Above
  BY <1>4, <1>5, Induction
<1>7. ASSUME NEW k \in i .. Len(s) PROVE S(i) =< S(k)
  <2>1. k - i \in Above /\ i + (k - i) = k
    BY <1>6
  <2> QED BY <2>1 DEF Above
<1>. HIDE DEF S
<1>8. i > 0 => S(i) = S(i - 1) + s[i]
  BY <1>3
<1>9. \A k \in 0 .. Len(s) : SumOf(SubSeq(s, 1, k)) = S(k) /\ S(k) \in Nat
  BY <1>1
<1>10. SumFunctionOnSet(s, 1 .. i) = S(i)
  BY DEF S
<1> QED BY <1>2, <1>7, <1>8, <1>9, <1>10

\* The CPUs of the first i nodes, counted one node after the other.
LEMMA UpToNext ==
    ASSUME ncpu \in Seq(Positive), NEW i \in 0 .. Len(ncpu)
    PROVE  /\ UpTo(i) \in Nat
           /\ i = 0 => UpTo(i) = 0
           /\ i > 0 => UpTo(i) = UpTo(i - 1) + ncpu[i]
           /\ UpTo(i) =< UpTo(Len(ncpu))
BY PrefixSums DEF UpTo

\* Every cluster and every call that DistributeJobs starts from.
LEMMA InitEstablishes == Init => IInv
<1>. SUFFICES ASSUME Init PROVE IInv
  OBVIOUS
<1>1. PICK n \in 1 .. MaxNodes : /\ ncpu \in [1 .. n -> 1 .. MaxCPUs]
                                 /\ weight \in [1 .. n -> 1 .. MaxWeight]
  BY DEF Init
<1>2. ncpu \in Seq(Positive) /\ Len(ncpu) = n /\ n \in Positive
  BY <1>1, SeqDef, BoundsAssumption, SMTT(30) DEF Positive
<1>3. weight \in [Nodes -> Positive] /\ Nodes = 1 .. n
  BY <1>1, <1>2, BoundsAssumption DEF Positive, Nodes
<1>4. UpTo(0) = 0 /\ UpTo(Len(ncpu)) \in Nat
  BY <1>2, UpToNext DEF Positive
<1>5. TypeOK
  BY <1>2, <1>3, <1>4, BoundsAssumption DEF Init, TypeOK, Positive
<1>6. Trimming /\ Serving /\ NeverShort
  BY <1>2 DEF Init, Trimming, Serving, NeverShort, Positive
<1>7. Served
  <2>1. 1 .. UpTo(node - 1) = {} /\ 1 .. node - 1 = {}
    BY <1>4 DEF Init
  <2> QED BY <2>1, SumEmpty DEF Served
<1> QED BY <1>5, <1>6, <1>7 DEF IInv

\* The sums over the nodes are sums of numbers.
LEMMA Numbers ==
    ASSUME TypeOK
    PROVE  /\ IsFiniteSet(Nodes) /\ NumberOfJobs \in Positive /\ TotalWeight \in Positive
           /\ \A i \in Nodes : Weighted(i) \in Nat
           /\ SumFunctionOnSet([i \in Nodes |-> Weighted(i)], Nodes) = NumberOfJobs * TotalWeight
<1>. DEFINE w == [i \in Nodes |-> weight[i] * ncpu[i]]
<1>1. IsFiniteSet(Nodes) /\ NumberOfJobs \in Positive
  BY FS_Interval DEF TypeOK, NumberOfJobs, Nodes, Positive
<1>2. \A i \in Nodes : w[i] \in Positive
  <2>. SUFFICES ASSUME NEW i \in Nodes PROVE w[i] \in Positive
    OBVIOUS
  <2>1. weight[i] \in Positive /\ ncpu[i] \in Positive
    BY DEF TypeOK, Nodes
  <2> QED BY <2>1 DEF Positive
<1>3. TotalWeight = SumFunctionOnSet(w, Nodes)
  BY SumOfIsSum DEF TotalWeight
<1>4. SumFunctionOnSet(w, Nodes) \in Positive
  <2>1. 1 \in Nodes
    BY DEF TypeOK, Nodes, Positive
  <2>2. SumFunctionOnSet(w, Nodes) = w[1] + SumFunctionOnSet(w, Nodes \ {1})
    BY <1>1, <1>2, <2>1, SumRemove DEF Positive
  <2>3. SumFunctionOnSet(w, Nodes \ {1}) \in Nat
    BY <1>1, <1>2, SumNat, FS_Subset DEF Positive
  <2> QED BY <1>2, <2>1, <2>2, <2>3 DEF Positive
<1>5. \A i \in Nodes : Weighted(i) = NumberOfJobs * w[i] /\ Weighted(i) \in Nat
  <2>. SUFFICES ASSUME NEW i \in Nodes
                PROVE Weighted(i) = NumberOfJobs * w[i] /\ Weighted(i) \in Nat
    OBVIOUS
  <2>1. Weighted(i) = w[i] * NumberOfJobs
    BY DEF Weighted
  <2> QED BY <1>1, <1>2, <2>1 DEF Positive
<1>6. SumFunctionOnSet([i \in Nodes |-> Weighted(i)], Nodes) = NumberOfJobs * SumFunctionOnSet(w, Nodes)
  BY <1>1, <1>2, <1>5, SumScale DEF Positive
<1> QED BY <1>1, <1>3, <1>4, <1>5, <1>6

\* Before the first node is served there is nothing to say.
LEMMA NothingServed == ASSUME TypeOK, node = 1, UNCHANGED <<node, ncpu>> PROVE Served'
<1>1. UpTo(0)' = UpTo(0) /\ UpTo(0) = 0
  BY UpToNext DEF TypeOK, Positive, UpTo
<1>2. (1 .. UpTo(node - 1))' = {} /\ (1 .. node - 1)' = {}
  BY <1>1
<1> QED BY <1>2, SumEmpty DEF Served

\* Rounded up, the shares are as many as the jobs, or more.
LEMMA ShareKeeps == ASSUME IInv, Share PROVE IInv'
<1>. DEFINE N == NumberOfJobs
            T == TotalWeight
<1>1. PICK up \in SUBSET {i \in Nodes : Exact(i)} :
        jobsForNode' = [i \in Nodes |-> Rounded(i) + IF i \in up THEN 1 ELSE 0]
  BY DEF Share
<1>2. \A i \in Nodes : Rounded(i) \in Nat /\ Weighted(i) =< T * Rounded(i)
  <2>. SUFFICES ASSUME NEW i \in Nodes PROVE Rounded(i) \in Nat /\ Weighted(i) =< T * Rounded(i)
    OBVIOUS
  <2>1. Weighted(i) \in Nat /\ T \in Positive
    BY Numbers DEF IInv
  <2>2. Rounded(i) \in Int /\ Weighted(i) =< T * Rounded(i)
    <3>. DEFINE q == (Weighted(i) + T - 1) \div T
    <3>1. q \in Int /\ Weighted(i) =< T * q
      <4>1. Weighted(i) \in Int /\ T \in Nat \ {0}
        BY <2>1 DEF Positive
      <4> HIDE DEF T
      <4> QED BY <4>1, CeilDiv
    <3>2. Rounded(i) = q
      BY DEF Rounded
    <3>. HIDE DEF q
    <3> QED BY <3>1, <3>2
  <2>3. 0 * T =< Rounded(i) * T
    BY <2>1, <2>2 DEF Positive
  <2> QED BY <2>1, <2>2, <2>3, CancelFactor DEF Positive
<1>3. jobsForNode' \in [Nodes -> Nat]
  BY <1>1, <1>2
<1>4. SumOf(jobsForNode') >= N
  <2>. DEFINE f == [i \in Nodes |-> Weighted(i)]
              g == [i \in Nodes |-> T * jobsForNode'[i]]
              s == SumFunctionOnSet(jobsForNode', Nodes)
  <2>1. IsFiniteSet(Nodes) /\ T \in Positive /\ N \in Positive
    BY Numbers DEF IInv
  <2>2. \A i \in Nodes : f[i] \in Int /\ g[i] \in Int /\ f[i] =< g[i]
    <3>. SUFFICES ASSUME NEW i \in Nodes PROVE f[i] \in Int /\ g[i] \in Int /\ f[i] =< g[i]
      OBVIOUS
    <3>1. Weighted(i) \in Nat
      BY Numbers DEF IInv
    <3>2. Rounded(i) =< jobsForNode'[i]
      BY <1>1, <1>2
    <3>3. Rounded(i) * T =< jobsForNode'[i] * T
      BY <1>2, <1>3, <2>1, <3>2, TimesMonotone DEF Positive
    <3> QED BY <1>2, <1>3, <2>1, <3>1, <3>3 DEF Positive
  <2>3. SumFunctionOnSet(f, Nodes) =< SumFunctionOnSet(g, Nodes)
    BY <2>1, <2>2, SumMonotone
  <2>4. SumFunctionOnSet(g, Nodes) = T * s
    BY <1>3, <2>1, SumScale DEF Positive
  <2>5. SumFunctionOnSet(f, Nodes) = N * T
    BY Numbers DEF IInv
  <2>6. s \in Int /\ SumOf(jobsForNode') = s
    BY <1>3, <2>1, SumType, SumOfIsSum
  <2>7. N * T =< s * T
    BY <2>1, <2>3, <2>4, <2>5, <2>6 DEF Positive
  <2> QED BY <2>1, <2>6, <2>7, CancelFactor DEF Positive
<1>5. TypeOK'
  BY <1>3 DEF IInv, TypeOK, Share, Nodes, UpTo
<1>6. NeverShort'
  BY <1>4 DEF NeverShort, Share, NumberOfJobs
<1>7. Trimming' /\ Serving'
  BY DEF IInv, Trimming, Serving, Share, Nodes
<1>8. Served'
  BY NothingServed DEF IInv, Share, Serving
<1> QED BY <1>5, <1>6, <1>7, <1>8 DEF IInv

\* A node after VerySlow has no job, and if VerySlow had none either when it is the
\* first there would be none in excess.
LEMMA TrimKeeps == ASSUME IInv, Trim PROVE IInv'
<1>1. IsFiniteSet(Nodes) /\ NumberOfJobs \in Positive /\ DOMAIN jobsForNode = Nodes
  BY Numbers DEF IInv, TypeOK
<1>2. SumOf(jobsForNode) = SumFunctionOnSet(jobsForNode, Nodes)
  BY <1>1, SumOfIsSum
<1>3. slow \in Nodes /\ slow \in 1 .. Len(ncpu) /\ Len(ncpu) \in Positive
  BY DEF IInv, TypeOK, Nodes
<1>4. CASE jobsForNode[slow] = 0
  <2>1. slow' = slow - 1 /\ UNCHANGED jobsForNode
    BY <1>4 DEF Trim
  <2>2. \A i \in Nodes : i >= slow => jobsForNode[i] = 0
    BY <1>3, <1>4 DEF IInv, Trimming, Trim, Nodes
  <2>3. slow # 1
    <3>. SUFFICES ASSUME slow = 1 PROVE FALSE
      OBVIOUS
    <3>1. \A i \in Nodes : jobsForNode[i] \in Int /\ jobsForNode[i] =< 0
      BY <2>2 DEF Nodes
    <3>2. SumFunctionOnSet(jobsForNode, Nodes) =< 0 * Cardinality(Nodes)
      BY <1>1, <3>1, SumBound, 0 \in Int
    <3>3. Cardinality(Nodes) \in Nat /\ SumFunctionOnSet(jobsForNode, Nodes) \in Int
      BY <1>1, <3>1, FS_CardinalityType, SumType
    <3> QED BY <1>1, <1>2, <3>2, <3>3 DEF Trim, Positive
  <2>4. TypeOK'
    BY <1>3, <2>1, <2>3 DEF IInv, TypeOK, Trim, Nodes, UpTo
  <2>5. NeverShort'
    BY <2>1 DEF IInv, NeverShort, Trim, NumberOfJobs
  <2>6. Trimming' /\ Serving'
    BY <1>3, <2>1, <2>2 DEF IInv, Trimming, Serving, Trim, Nodes
  <2>7. Served'
    BY NothingServed DEF IInv, Trim, Serving
  <2> QED BY <2>4, <2>5, <2>6, <2>7 DEF IInv
<1>5. CASE jobsForNode[slow] # 0
  <2>1. slow' = slow /\ jobsForNode' = [jobsForNode EXCEPT ![slow] = @ - 1]
    BY <1>5 DEF Trim
  <2>2. jobsForNode \in [Nodes -> Nat] /\ jobsForNode' \in [Nodes -> Nat]
    BY <1>3, <1>5, <2>1 DEF IInv, TypeOK
  <2>3. SumOf(jobsForNode') = SumOf(jobsForNode) - 1
    <3>. DEFINE rest == Nodes \ {slow}
    <3>1. /\ SumFunctionOnSet(jobsForNode, Nodes) = jobsForNode[slow] + SumFunctionOnSet(jobsForNode, rest)
          /\ SumFunctionOnSet(jobsForNode', Nodes) = jobsForNode'[slow] + SumFunctionOnSet(jobsForNode', rest)
      <4>1. \A i \in Nodes : jobsForNode[i] \in Int /\ jobsForNode'[i] \in Int
        BY <2>2
      <4> QED BY <1>1, <1>3, <4>1, SumRemove, ZenonT(30)
    <3>2. SumFunctionOnSet(jobsForNode', rest) = SumFunctionOnSet(jobsForNode, rest)
      BY <1>1, <2>1, <2>2, SumEqual, FS_Subset
    <3>3. SumFunctionOnSet(jobsForNode, rest) \in Int
      BY <1>1, <2>2, SumType, FS_Subset
    <3>4. SumOf(jobsForNode') = SumFunctionOnSet(jobsForNode', Nodes)
      BY <2>2, SumOfIsSum
    <3> QED BY <1>2, <1>3, <2>1, <2>2, <3>1, <3>2, <3>3, <3>4
  <2>4. SumOf(jobsForNode) \in Int
    BY <1>1, <1>2, <2>2, SumType
  <2>5. TypeOK'
    BY <2>1, <2>2 DEF IInv, TypeOK, Trim, Nodes, UpTo
  <2>6. NeverShort'
    BY <1>1, <2>3, <2>4 DEF IInv, NeverShort, Trim, NumberOfJobs, Positive
  <2>7. Trimming' /\ Serving'
    BY <1>3, <2>1, <2>2 DEF IInv, Trimming, Serving, Trim, Nodes
  <2>8. Served'
    BY NothingServed DEF IInv, Trim, Serving
  <2> QED BY <2>5, <2>6, <2>7, <2>8 DEF IInv
<1> QED BY <1>4, <1>5

\* Nothing is left to take away when the search ends.
LEMMA TrimmedKeeps == ASSUME IInv, Trimmed PROVE IInv'
<1>1. IsFiniteSet(Nodes) /\ NumberOfJobs \in Positive /\ DOMAIN jobsForNode = Nodes
  BY Numbers DEF IInv, TypeOK
<1>2. SumOf(jobsForNode) \in Int
  BY <1>1, SumOfIsSum, SumType DEF IInv, TypeOK
<1>3. TypeOK'
  BY DEF IInv, TypeOK, Trimmed, Nodes, UpTo
<1>4. NeverShort'
  BY <1>1, <1>2 DEF IInv, NeverShort, Trimmed, NumberOfJobs, Positive
<1>5. Trimming' /\ Serving'
  BY DEF IInv, TypeOK, Trimming, Serving, Trimmed, Positive
<1>6. Served'
  BY DEF IInv, Served, Trimmed, UpTo, NobodyStarves, Nodes
<1> QED BY <1>3, <1>4, <1>5, <1>6 DEF IInv

\* Of the n CPUs after a the first F have the quota q each, the others nothing.
GivenQuotas(f, a, n, q, F) ==
    /\ \A j \in 1 .. a + n : f[j] \in Int
    /\ \A j \in 1 .. n : f[a + j] = IF j =< F THEN q ELSE 0

\* The jobs of the CPUs of a node are those of the node.
LEMMA SumOfQuotas ==
    ASSUME NEW f, NEW a \in Nat, NEW q \in Int, NEW F \in Nat, NEW n \in Nat,
           GivenQuotas(f, a, n, q, F)
    PROVE  /\ n =< F => SumFunctionOnSet(f, 1 .. a + n) = SumFunctionOnSet(f, 1 .. a) + n * q
           /\ n > F => SumFunctionOnSet(f, 1 .. a + n) = SumFunctionOnSet(f, 1 .. a) + F * q
<1>. DEFINE S(k) == SumFunctionOnSet(f, 1 .. k)
            Given(k) == IF k =< F THEN k * q ELSE F * q
            Right == {k \in Nat : k =< n => S(a + k) = S(a) + Given(k)}
<1>1. S(a) \in Int
  <2>1. IsFiniteSet(1 .. a) /\ \A j \in 1 .. a : f[j] \in Int
    BY FS_Interval DEF GivenQuotas
  <2> QED BY <2>1, SumType
<1>2. 0 \in Right
  BY <1>1, a + 0 = a, 0 * q = 0
<1>3. ASSUME NEW k \in Nat, k \in Right PROVE k + 1 \in Right
  <2>. SUFFICES ASSUME k + 1 =< n PROVE S(a + (k + 1)) = S(a) + Given(k + 1)
    OBVIOUS
  <2>1. S(a + k) = S(a) + Given(k)
    BY <1>3
  <2>2. S((a + k) + 1) = S(a + k) + f[(a + k) + 1]
    <3>1. a + k \in Nat /\ \A j \in 1 .. (a + k) + 1 : f[j] \in Int
      BY DEF GivenQuotas
    <3> QED BY <3>1, SumNext
  <2>3. (a + k) + 1 = a + (k + 1) /\ k + 1 \in 1 .. n
    OBVIOUS
  <2>4. f[a + (k + 1)] = IF k + 1 =< F THEN q ELSE 0
    BY <2>3 DEF GivenQuotas
  <2>5. Given(k + 1) = Given(k) + (IF k + 1 =< F THEN q ELSE 0) /\ Given(k) \in Int
    <3>1. CASE k + 1 =< F
      BY <3>1, (k + 1) * q = k * q + q
    <3>2. CASE k = F
      BY <3>2
    <3>3. CASE k > F
      BY <3>3
    <3> QED BY <3>1, <3>2, <3>3
  <2>. HIDE DEF S, Given
  <2> QED BY <1>1, <2>1, <2>2, <2>3, <2>4, <2>5
<1>. HIDE DEF Right
<1>4. \A k \in Nat : k \in Right
  BY <1>2, <1>3, Induction
<1> QED BY <1>4 DEF Right

\* How many CPUs of a node are served, and how much each is given.
LEMMA QuotaAndFilled ==
    ASSUME TypeOK, NEW i \in Nodes
    PROVE  /\ Quota(i) \in Positive /\ Filled(i) \in 1 .. ncpu[i]
           /\ jobsForNode[i] < ncpu[i] =>
                Quota(i) = 1 /\ Filled(i) = IF jobsForNode[i] = 0 THEN 1 ELSE jobsForNode[i]
           /\ jobsForNode[i] >= ncpu[i] =>
                Filled(i) = ncpu[i] /\ ncpu[i] * Quota(i) =< jobsForNode[i]
<1>. DEFINE m == jobsForNode[i]
            c == ncpu[i]
            q == Quota(i)
            K == {k \in 1 .. c : k * q >= m} \cup {c}
<1>1. m \in Nat /\ c \in Positive
  BY DEF TypeOK, Nodes
<1>2. ASSUME NEW k \in K, \A l \in K : k =< l PROVE Filled(i) = k
  BY <1>1, <1>2 DEF Filled, SmallestOf, Positive
<1>3. CASE m < c
  <2>1. q = 1
    BY <1>3 DEF Quota
  <2>. DEFINE k == IF m = 0 THEN 1 ELSE m
  <2>2. k \in K /\ k \in 1 .. c /\ \A l \in K : k =< l
    BY <1>1, <1>3, <2>1 DEF Positive
  <2>3. Filled(i) = k
    BY <1>2, <2>2
  <2> QED BY <1>1, <1>3, <2>1, <2>2, <2>3 DEF Positive
<1>4. CASE m >= c
  <2>1. q = m \div c
    BY <1>1, <1>4 DEF Quota, Positive
  <2>2. q \in Int /\ m % c \in 0 .. c - 1 /\ m = c * q + (m % c)
    <3>1. m \in Int /\ c \in Nat \ {0}
      BY <1>1 DEF Positive
    <3>. HIDE DEF m, c, q
    <3>2. m \div c \in Int /\ m % c \in 0 .. c - 1 /\ m = c * (m \div c) + (m % c)
      BY <3>1, DivMod
    <3> QED BY <2>1, <3>2
  <2>3. c * q =< m /\ q \in Positive
    <3>1. q > 0
      <4>. SUFFICES ASSUME q =< 0 PROVE FALSE
        BY <2>2
      <4>1. q * c =< 0 * c
        BY <1>1, <2>2, TimesMonotone DEF Positive
      <4> HIDE DEF q
      <4> QED BY <1>1, <1>4, <2>2, <4>1 DEF Positive
    <3> QED BY <1>1, <2>2, <3>1 DEF Positive
  <2>4. \A k \in 1 .. c : k * q >= m => k = c
    <3>. SUFFICES ASSUME NEW k \in 1 .. c, k * q >= m, k # c PROVE FALSE
      OBVIOUS
    <3>. HIDE DEF q
    <3>1. k * q =< (c - 1) * q
      BY <1>1, <2>3, TimesMonotone DEF Positive
    <3>2. (c - 1) * q = c * q - q
      BY <1>1, <2>2 DEF Positive
    <3> QED BY <1>1, <2>2, <2>3, <3>1, <3>2 DEF Positive
  <2>5. c \in K /\ \A l \in K : c =< l
    BY <1>1, <2>4 DEF Positive
  <2>6. Filled(i) = c
    BY <1>2, <2>5
  <2> QED BY <1>1, <1>4, <2>3, <2>6 DEF Positive
<1> QED BY <1>1, <1>3, <1>4 DEF Positive

\* The CPUs of a node are given the jobs of the node.
LEMMA ServeKeeps == ASSUME IInv, Serve PROVE IInv'
<1>. DEFINE a == UpTo(node - 1)
            b == UpTo(node)
            c == ncpu[node]
            m == jobsForNode[node]
            q == Quota(node)
            F == Filled(node)
            f == jobsForCpu'
<1>1. node \in 1 .. Len(ncpu) /\ node \in Nodes /\ node \in Positive /\ Len(ncpu) \in Positive
  BY DEF IInv, TypeOK, Serving, Serve, Nodes, Positive
<1>2. a \in Nat /\ b \in Nat /\ b = a + c /\ c \in Positive /\ m \in Nat
      /\ b =< UpTo(Len(ncpu)) /\ UpTo(Len(ncpu)) \in Nat
  <2>1. c \in Positive /\ m \in Nat /\ node - 1 \in 0 .. Len(ncpu) /\ node > 0
    BY <1>1 DEF IInv, TypeOK, Positive
  <2>2. ncpu \in Seq(Positive)
    BY DEF IInv, TypeOK
  <2>3. UpTo(Len(ncpu)) \in Nat
    BY <1>1, <2>2, UpToNext DEF Positive
  <2> QED BY <1>1, <2>1, <2>2, <2>3, UpToNext DEF Positive
<1>3. /\ q \in Positive /\ F \in 1 .. c
      /\ m < c => q = 1 /\ F = IF m = 0 THEN 1 ELSE m
      /\ m >= c => F = c /\ c * q =< m
  BY <1>1, QuotaAndFilled DEF IInv
<1>. HIDE DEF a, b, c, m, q, F
<1>4. q \in Int /\ F * q \in Int /\ c * q \in Int
  BY <1>2, <1>3 DEF Positive
<1>5. f = [j \in 1 .. UpTo(Len(ncpu)) |->
             IF j \in a + 1 .. b
             THEN (IF j - a =< F THEN q ELSE 0) + (IF j = b THEN m - F * q ELSE 0)
             ELSE jobsForCpu[j]]
  BY DEF IInv, TypeOK, Serve, a, b, m, q, F
<1>6. f \in [1 .. UpTo(Len(ncpu)) -> Int]
  BY <1>2, <1>3, <1>4, <1>5 DEF IInv, TypeOK, Positive
<1>7. /\ \A j \in 1 .. a : f[j] = jobsForCpu[j]
      /\ \A j \in 1 .. c - 1 : f[a + j] = IF j =< F THEN q ELSE 0
      /\ f[b] = (IF c =< F THEN q ELSE 0) + (m - F * q)
  <2>1. c >= 1 /\ a \in Int /\ b \in Int /\ c \in Int
    BY <1>2 DEF Positive
  <2>2. ASSUME NEW j \in 1 .. a PROVE f[j] = jobsForCpu[j]
    BY <1>2, <1>5, <2>1
  <2>3. ASSUME NEW j \in 1 .. c - 1 PROVE f[a + j] = IF j =< F THEN q ELSE 0
    <3>1. /\ a + j \in 1 .. UpTo(Len(ncpu)) /\ a + j \in a + 1 .. b /\ a + j # b
          /\ (a + j) - a = j
      BY <1>2, <2>1
    <3>2. f[a + j] = (IF (a + j) - a =< F THEN q ELSE 0)
                   + (IF a + j = b THEN m - F * q ELSE 0)
      BY <1>5, <3>1
    <3> QED BY <1>4, <3>1, <3>2
  <2>4. f[b] = (IF c =< F THEN q ELSE 0) + (m - F * q)
    <3>1. b \in 1 .. UpTo(Len(ncpu)) /\ b \in a + 1 .. b /\ b - a = c
      BY <1>2, <2>1
    <3>2. f[b] = (IF b - a =< F THEN q ELSE 0) + (m - F * q)
      BY <1>5, <3>1
    <3> QED BY <3>1, <3>2
  <2> QED BY <2>2, <2>3, <2>4
<1>. HIDE DEF f
<1>8. SumFunctionOnSet(f, 1 .. b) = SumFunctionOnSet(jobsForCpu, 1 .. a) + m
  <2>. DEFINE S == SumFunctionOnSet(f, 1 .. a)
  <2>1. S = SumFunctionOnSet(jobsForCpu, 1 .. a)
    <3>1. IsFiniteSet(1 .. a) /\ \A j \in 1 .. a : f[j] = jobsForCpu[j]
      BY <1>2, <1>7, FS_Interval
    <3> QED BY <3>1, SumEqual
  <2>2. S \in Int
    <3>1. IsFiniteSet(1 .. a)
      BY <1>2, FS_Interval
    <3>2. a =< UpTo(Len(ncpu))
      BY <1>2 DEF Positive
    <3>3. \A j \in 1 .. a : f[j] \in Int
      BY <1>2, <1>6, <3>2
    <3> QED BY <3>1, <3>3, SumType
  <2>3. SumFunctionOnSet(f, 1 .. a + (c - 1)) =
          S + (IF c - 1 =< F THEN (c - 1) * q ELSE F * q)
    <3>1. c - 1 \in Nat /\ F \in Nat /\ \A j \in 1 .. a + (c - 1) : f[j] \in Int
      BY <1>2, <1>3, <1>6 DEF Positive
    <3>2. PICK n \in Nat : n = c - 1
      BY <3>1
    <3>3. GivenQuotas(f, a, n, q, F)
      BY <1>7, <3>1, <3>2 DEF GivenQuotas
    <3>4. SumFunctionOnSet(f, 1 .. a + n) = S + (IF n =< F THEN n * q ELSE F * q)
      <4>1. a \in Nat /\ q \in Int /\ F \in Nat
        BY <1>2, <1>4, <3>1
      <4>2. /\ n =< F => SumFunctionOnSet(f, 1 .. a + n) = S + n * q
            /\ n > F => SumFunctionOnSet(f, 1 .. a + n) = S + F * q
        BY <4>1, <3>3, SumOfQuotas
      <4> HIDE DEF S
      <4> QED BY <4>1, <4>2
    <3> QED BY <3>2, <3>4
  <2>4. SumFunctionOnSet(f, 1 .. b) = SumFunctionOnSet(f, 1 .. a + (c - 1)) + f[b]
    <3>1. a + (c - 1) \in Nat /\ b = (a + (c - 1)) + 1 /\ \A j \in 1 .. b : f[j] \in Int
      BY <1>2, <1>6 DEF Positive
    <3> QED BY <3>1, SumNext
  <2>5. (c - 1) * q = c * q - q
    BY <1>2, <1>4 DEF Positive
  <2>. HIDE DEF S
  <2>6. CASE F = c
    BY <1>2, <1>3, <1>4, <1>7, <2>1, <2>2, <2>3, <2>4, <2>5, <2>6 DEF Positive
  <2>7. CASE F = c - 1
    BY <1>2, <1>3, <1>4, <1>7, <2>1, <2>2, <2>3, <2>4, <2>5, <2>7 DEF Positive
  <2>8. CASE F < c - 1
    BY <1>2, <1>3, <1>4, <1>7, <2>1, <2>2, <2>3, <2>4, <2>8, SMTT(30) DEF Positive
  <2> QED BY <1>2, <1>3, <2>6, <2>7, <2>8 DEF Positive
<1>9. SumFunctionOnSet(jobsForNode, 1 .. node) = SumFunctionOnSet(jobsForNode, 1 .. node - 1) + m
  <2>1. node - 1 \in Nat /\ node = (node - 1) + 1 /\ \A i \in 1 .. node : jobsForNode[i] \in Int
    BY <1>1, SMTT(30) DEF IInv, TypeOK, Nodes, Positive
  <2> QED BY <2>1, SumNext DEF m
<1>10. ASSUME NobodyStarves, NEW j \in 1 .. b PROVE f[j] \in Nat
  <2>1. CASE j =< a
    <3>1. jobsForCpu[j] \in Nat
      BY <1>2, <1>10, <2>1 DEF IInv, Served, a
    <3> QED BY <1>2, <1>7, <2>1, <3>1
  <2>2. CASE j > a /\ j < b
    BY <1>2, <1>3, <1>5, <2>2 DEF Positive
  <2>3. CASE j = b
    <3>1. CASE m >= c
      BY <1>2, <1>3, <1>4, <1>7, <2>3, <3>1 DEF Positive
    <3>2. CASE m < c
      <4>1. m = 0 => c = 1
        BY <1>1, <1>10 DEF NobodyStarves, m, c
      <4>2. F * q = F
        BY <1>3, <3>2 DEF Positive
      <4> QED BY <1>2, <1>3, <1>7, <2>3, <3>2, <4>1, <4>2 DEF Positive
    <3> QED BY <1>2, <3>1, <3>2 DEF Positive
  <2> QED BY <1>2, <2>1, <2>2, <2>3
<1>11. TypeOK'
  BY <1>1, <1>6 DEF IInv, TypeOK, Serve, Nodes, UpTo, f
<1>12. NeverShort'
  BY DEF IInv, NeverShort, Serve, NumberOfJobs
<1>13. Trimming' /\ Serving'
  BY <1>1 DEF IInv, Trimming, Serving, Serve, Nodes, Positive
<1>14. Served'
  <2>1. node' = node + 1 /\ node' - 1 = node /\ UpTo(node - 1)' = b
    BY <1>1 DEF Serve, UpTo, b, Positive
  <2>2. UNCHANGED <<jobsForNode, NobodyStarves>>
    BY DEF Serve, NobodyStarves, Nodes
  <2>3. SumFunctionOnSet(jobsForCpu, 1 .. a) = SumFunctionOnSet(jobsForNode, 1 .. node - 1)
    BY DEF IInv, Served, a
  <2>4. SumFunctionOnSet(f, 1 .. b) = SumFunctionOnSet(jobsForNode, 1 .. node)
    BY <1>8, <1>9, <2>3
  <2> QED BY <1>10, <2>1, <2>2, <2>4 DEF Served, f
<1> QED BY <1>11, <1>12, <1>13, <1>14 DEF IInv

-------------------------------------------------------------------------------
\* A step that changes nothing.
LEMMA StutterKeeps == ASSUME IInv, UNCHANGED vars PROVE IInv'
<1>1. TypeOK'
  BY DEF IInv, TypeOK, vars, Nodes, UpTo
<1>2. NeverShort' /\ Trimming' /\ Serving'
  BY DEF IInv, NeverShort, NumberOfJobs, Trimming, Serving, Nodes, vars
<1>3. Served'
  BY DEF IInv, Served, NobodyStarves, Nodes, UpTo, vars
<1> QED BY <1>1, <1>2, <1>3 DEF IInv

\* IInv holds in every reachable state, for clusters and calls of any size.
THEOREM Invariance == Spec => []IInv
<1>1. IInv /\ [Next]_vars => IInv'
  BY ShareKeeps, TrimKeeps, TrimmedKeeps, ServeKeeps, StutterKeeps DEF Next
<1> QED BY <1>1, InitEstablishes, PTL DEF Spec

\* The rounded shares are never too few, so that the branch of distributeJobs.m:120 that
\* hands out missing jobs is dead code, and the nodes are given the jobs of the call.
THEOREM NeverShortAlways == Spec => []NeverShort
<1>1. IInv => NeverShort
  BY DEF IInv
<1> QED BY <1>1, Invariance, PTL

\* The search for the node that loses a job never runs off the first node.
THEOREM SearchStaysInCluster == Spec => [](slow \in Nodes)
<1>1. IInv => slow \in Nodes
  BY DEF IInv, TypeOK
<1> QED BY <1>1, Invariance, PTL

-------------------------------------------------------------------------------
\* The CPUs with jobs among the first n: busy of nBlockPerCPU.
IsBusy(b, n) ==
    b = [j \in 0 .. n |-> IF j = 0 THEN << >>
                          ELSE IF jobsForCpu[j] = 0 THEN b[j - 1]
                          ELSE Append(b[j - 1], jobsForCpu[j])]

\* There is a function that the recursion of nBlockPerCPU describes.
LEMMA BusyExists == \A n \in Nat : \E b : IsBusy(b, n)
<1>. DEFINE Has == {n \in Nat : \E b : IsBusy(b, n)}
<1>1. 0 \in Has
  <2>. DEFINE b == [j \in 0 .. 0 |-> << >>]
  <2>1. \A j \in 0 .. 0 : j = 0
    OBVIOUS
  <2>2. IsBusy(b, 0)
    BY <2>1 DEF IsBusy
  <2> QED BY <2>2
<1>2. ASSUME NEW n \in Nat, n \in Has PROVE n + 1 \in Has
  <2>1. PICK b : IsBusy(b, n)
    BY <1>2
  <2>. DEFINE h == [j \in 0 .. n + 1 |-> IF j = 0 THEN << >>
                                        ELSE IF jobsForCpu[j] = 0 THEN b[j - 1]
                                        ELSE Append(b[j - 1], jobsForCpu[j])]
  <2>2. ASSUME NEW j \in 0 .. n PROVE h[j] = b[j]
    <3>1. b[j] = IF j = 0 THEN << >> ELSE IF jobsForCpu[j] = 0 THEN b[j - 1]
                 ELSE Append(b[j - 1], jobsForCpu[j])
      BY <2>1 DEF IsBusy
    <3>2. j \in 0 .. n + 1
      OBVIOUS
    <3> QED BY <3>1, <3>2
  <2>3. ASSUME NEW j \in 0 .. n + 1, j # 0 PROVE h[j - 1] = b[j - 1]
    <3>1. j - 1 \in 0 .. n
      BY <2>3
    <3>. HIDE DEF h
    <3> QED BY <2>2, <3>1
  <2>4. h = [j \in 0 .. n + 1 |-> IF j = 0 THEN << >>
                                 ELSE IF jobsForCpu[j] = 0 THEN h[j - 1]
                                 ELSE Append(h[j - 1], jobsForCpu[j])]
    BY <2>3
  <2>. HIDE DEF h
  <2>5. IsBusy(h, n + 1)
    BY <2>4 DEF IsBusy
  <2> QED BY <2>5
<1>. HIDE DEF Has
<1>3. \A n \in Nat : n \in Has
  BY <1>1, <1>2, Induction
<1> QED BY <1>3 DEF Has

\* The CPUs that are kept have jobs, all the jobs that were given out.
LEMMA BusyCPUs ==
    ASSUME jobsForCpu \in Seq(Nat)
    PROVE  /\ nBlockPerCPU \in Seq(Positive)
           /\ SumFunctionOnSet(nBlockPerCPU, 1 .. Len(nBlockPerCPU)) =
                SumFunctionOnSet(jobsForCpu, 1 .. Len(jobsForCpu))
<1>. DEFINE L == Len(jobsForCpu)
            b == CHOOSE b : b = [j \in 0 .. L |-> IF j = 0 THEN << >>
                                                 ELSE IF jobsForCpu[j] = 0 THEN b[j - 1]
                                                 ELSE Append(b[j - 1], jobsForCpu[j])]
            Total(s) == SumFunctionOnSet(s, 1 .. Len(s))
            Kept == {j \in Nat : j =< L =>
                       /\ b[j] \in Seq(Positive)
                       /\ Total(b[j]) = SumFunctionOnSet(jobsForCpu, 1 .. j)}
<1>1. nBlockPerCPU = b[L]
  BY DEF nBlockPerCPU
<1>2. L \in Nat
  OBVIOUS
<1>3. IsBusy(b, L)
  <2>1. \E x : IsBusy(x, L)
    BY <1>2, BusyExists
  <2> QED BY <2>1 DEF IsBusy
<1>. HIDE DEF b, L
<1>4. 0 \in Kept
  <2>1. b[0] = << >>
    BY <1>2, <1>3 DEF IsBusy
  <2>2. 1 .. Len(<< >>) = {} /\ 1 .. 0 = {}
    OBVIOUS
  <2>3. Total(b[0]) = SumFunctionOnSet(jobsForCpu, 1 .. 0)
    BY <2>1, <2>2, SumEmpty
  <2>4. b[0] \in Seq(Positive)
    BY <2>1
  <2>. HIDE DEF Total
  <2> QED BY <2>3, <2>4
<1>5. ASSUME NEW j \in Nat, j \in Kept PROVE j + 1 \in Kept
  <2>. SUFFICES ASSUME j + 1 =< L
                PROVE  /\ b[j + 1] \in Seq(Positive)
                       /\ Total(b[j + 1]) = SumFunctionOnSet(jobsForCpu, 1 .. j + 1)
    OBVIOUS
  <2>1. b[j] \in Seq(Positive) /\ Total(b[j]) = SumFunctionOnSet(jobsForCpu, 1 .. j)
    BY <1>2, <1>5
  <2>2. b[j + 1] = IF jobsForCpu[j + 1] = 0 THEN b[j] ELSE Append(b[j], jobsForCpu[j + 1])
    <3>1. j + 1 \in 0 .. L /\ j + 1 # 0 /\ (j + 1) - 1 = j
      BY <1>2
    <3> QED BY <1>3, <3>1 DEF IsBusy
  <2>3. \A i \in 1 .. L : jobsForCpu[i] \in Nat
    BY DEF L
  <2>4. /\ SumFunctionOnSet(jobsForCpu, 1 .. j) \in Int /\ jobsForCpu[j + 1] \in Nat
        /\ SumFunctionOnSet(jobsForCpu, 1 .. j + 1) =
             SumFunctionOnSet(jobsForCpu, 1 .. j) + jobsForCpu[j + 1]
    BY <1>2, <2>3, SumNext
  <2>5. CASE jobsForCpu[j + 1] = 0
    BY <2>1, <2>2, <2>4, <2>5
  <2>6. CASE jobsForCpu[j + 1] # 0
    <3>. DEFINE s == b[j]
                x == jobsForCpu[j + 1]
                t == Append(s, x)
    <3>1. t \in Seq(Positive) /\ Len(t) = Len(s) + 1 /\ Len(s) \in Nat /\ t[Len(s) + 1] = x
      BY <2>1, <2>4, <2>6, SMTT(30) DEF Positive
    <3>2. \A i \in 1 .. Len(s) : t[i] = s[i]
      BY <2>1, <2>4, <2>6 DEF Positive
    <3>3. \A i \in 1 .. Len(s) + 1 : t[i] \in Int
      BY <3>1 DEF Positive
    <3>. HIDE DEF t, s
    <3>4. SumFunctionOnSet(t, 1 .. Len(s) + 1) = SumFunctionOnSet(t, 1 .. Len(s)) + x
      BY <3>1, <3>3, SumNext
    <3>5. SumFunctionOnSet(t, 1 .. Len(s)) = Total(s)
      <4>1. IsFiniteSet(1 .. Len(s))
        BY <3>1, FS_Interval
      <4> QED BY <3>2, <4>1, SumEqual
    <3> QED BY <2>1, <2>2, <2>4, <2>6, <3>1, <3>4, <3>5 DEF s, t
  <2> QED BY <2>5, <2>6
<1>. HIDE DEF Kept, Total
<1>6. \A j \in Nat : j \in Kept
  BY <1>4, <1>5, Induction
<1>7. L \in Kept
  BY <1>2, <1>6
<1> QED BY <1>1, <1>2, <1>7 DEF Kept, Total, L

\* The first j CPUs with jobs run the jobs up to Range2(j).
LEMMA Ranges ==
    ASSUME nBlockPerCPU \in Seq(Positive), fBlock = 1
    PROVE  /\ totCPU \in Nat
           /\ \A j \in 1 .. totCPU : Range1(j) = SumOf(SubSeq(nBlockPerCPU, 1, j - 1)) + 1
           /\ \A j \in 0 .. totCPU : Range2(j) \in Nat
           /\ Range2(0) = 0
           /\ \A j \in 1 .. totCPU : Range2(j - 1) < Range2(j) /\ Range1(j) = Range2(j - 1) + 1
           /\ \A j \in 0 .. totCPU : \A k \in j .. totCPU : Range2(j) =< Range2(k)
<1>. DEFINE P(j) == SumOf(SubSeq(nBlockPerCPU, 1, j))
<1>1. totCPU \in Nat /\ totCPU = Len(nBlockPerCPU)
  BY DEF totCPU
<1>2. /\ \A j \in 0 .. totCPU : P(j) \in Nat
      /\ P(0) = 0
      /\ \A j \in 1 .. totCPU : P(j) = P(j - 1) + nBlockPerCPU[j]
      /\ \A j \in 0 .. totCPU : \A k \in j .. totCPU : P(j) =< P(k)
  BY <1>1, PrefixSums
<1>3. \A j \in 1 .. totCPU : nBlockPerCPU[j] \in Nat /\ nBlockPerCPU[j] > 0
  BY <1>1 DEF Positive
<1>4. \A j : Range2(j) = P(j)
  BY DEF Range2
<1>5. \A j : Range1(j) = P(j - 1) + (fBlock - 1) + 1
  BY DEF Range1
<1>. HIDE DEF P
<1>6. ASSUME NEW j \in 1 .. totCPU
      PROVE  Range1(j) = P(j - 1) + 1 /\ P(j - 1) < P(j)
  <2>1. P(j - 1) \in Nat /\ P(j) \in Nat
    BY <1>1, <1>2, j \in 0 .. totCPU, j - 1 \in 0 .. totCPU
  <2> QED BY <1>2, <1>3, <1>5, <2>1
<1> QED BY <1>1, <1>2, <1>4, <1>6 DEF P

\* When the jobs are counted from 1 and no node with several CPUs is left without a job,
\* every job of the call is in the range of exactly one CPU.
THEOREM EachJobOnceAlways == Spec => []EachJobOnce
<1>1. ASSUME IInv, pc = "done", fBlock = 1, NobodyStarves PROVE PartitionsJobs
  <2>. DEFINE L == UpTo(Len(ncpu))
  <2>1. L \in Nat /\ UpTo(node - 1) = L /\ node - 1 = Len(ncpu)
    BY <1>1, UpToNext DEF IInv, TypeOK, Serving, Positive
  <2>2. jobsForCpu \in Seq(Nat) /\ Len(jobsForCpu) = L
    <3>1. jobsForCpu \in [1 .. L -> Nat]
      BY <1>1, <2>1 DEF IInv, TypeOK, Served
    <3> QED BY <2>1, <3>1, SeqDef
  <2>3. SumFunctionOnSet(jobsForCpu, 1 .. L) = nBlock
    <3>1. SumFunctionOnSet(jobsForCpu, 1 .. L) = SumFunctionOnSet(jobsForNode, Nodes)
      BY <1>1, <2>1 DEF IInv, Served, Nodes
    <3>2. SumOf(jobsForNode) = SumFunctionOnSet(jobsForNode, Nodes)
      BY <1>1, SumOfIsSum DEF IInv, TypeOK
    <3> QED BY <1>1, <3>1, <3>2 DEF IInv, TypeOK, NeverShort, NumberOfJobs, Positive
  <2>4. nBlockPerCPU \in Seq(Positive) /\ SumFunctionOnSet(nBlockPerCPU, 1 .. totCPU) = nBlock
    BY <2>2, <2>3, BusyCPUs DEF totCPU
  <2>5. totCPU \in Nat /\ Range2(totCPU) = nBlock
    BY <2>4, PrefixSums DEF totCPU, Range2
  <2>. HIDE DEF L
  <2>6. ASSUME NEW j \in 1 .. totCPU PROVE JobsOf(j) \subseteq 1 .. nBlock
    <3>1. Range1(j) = Range2(j - 1) + 1 /\ Range2(j - 1) \in Nat
      BY <1>1, <2>4, Ranges
    <3>2. Range2(j) =< Range2(totCPU) /\ Range2(j) \in Nat
      BY <1>1, <2>4, <2>5, Ranges
    <3>3. nBlock \in Nat
      BY <1>1 DEF IInv, TypeOK, Positive
    <3> QED BY <2>5, <3>1, <3>2, <3>3 DEF JobsOf
  <2>7. ASSUME NEW x \in 1 .. nBlock PROVE \E j \in 1 .. totCPU : x \in JobsOf(j)
    <3>. DEFINE Found == {n \in Nat : n =< totCPU /\ x =< Range2(n) =>
                            \E j \in 1 .. totCPU : x \in JobsOf(j)}
    <3>1. 0 \in Found
      BY <1>1, <2>4, Ranges
    <3>2. ASSUME NEW n \in Nat, n \in Found PROVE n + 1 \in Found
      <4>. SUFFICES ASSUME n + 1 =< totCPU, x =< Range2(n + 1)
                    PROVE  \E j \in 1 .. totCPU : x \in JobsOf(j)
        OBVIOUS
      <4>1. n + 1 \in 1 .. totCPU /\ (n + 1) - 1 = n
        BY <2>5
      <4>2. Range1(n + 1) = Range2(n) + 1 /\ Range2(n) \in Nat /\ Range2(n + 1) \in Nat
        BY <1>1, <2>4, <4>1, Ranges
      <4>3. CASE x =< Range2(n)
        BY <2>5, <3>2, <4>3
      <4>4. CASE x > Range2(n)
        BY <4>1, <4>2, <4>4 DEF JobsOf
      <4> QED BY <4>2, <4>3, <4>4
    <3>. HIDE DEF Found
    <3>3. \A n \in Nat : n \in Found
      BY <3>1, <3>2, Induction
    <3>4. totCPU \in Found
      BY <2>5, <3>3
    <3> QED BY <2>5, <3>4 DEF Found
  <2>8. ASSUME NEW j \in 1 .. totCPU, NEW k \in 1 .. totCPU, j < k
        PROVE  JobsOf(j) \cap JobsOf(k) = {}
    <3>1. Range2(j) =< Range2(k - 1) /\ Range2(j) \in Nat /\ Range2(k - 1) \in Nat
      <4>1. j \in 0 .. totCPU /\ k - 1 \in j .. totCPU /\ k - 1 \in 0 .. totCPU
        BY <2>5, <2>8
      <4> QED BY <1>1, <2>4, <4>1, Ranges
    <3>2. Range1(k) = Range2(k - 1) + 1
      BY <1>1, <2>4, Ranges
    <3> QED BY <3>1, <3>2 DEF JobsOf
  <2>9. \A j, k \in 1 .. totCPU : j # k => JobsOf(j) \cap JobsOf(k) = {}
    <3>. SUFFICES ASSUME NEW j \in 1 .. totCPU, NEW k \in 1 .. totCPU, j # k
                  PROVE  JobsOf(j) \cap JobsOf(k) = {}
      OBVIOUS
    <3>1. CASE j < k
      BY <2>8, <3>1
    <3>2. CASE k < j
      BY <2>8, <3>2
    <3> QED BY <2>5, <3>1, <3>2
  <2>10. UNION {JobsOf(j) : j \in 1 .. totCPU} = fBlock .. nBlock
    BY <1>1, <2>6, <2>7
  <2> QED BY <2>9, <2>10 DEF PartitionsJobs
<1>2. IInv => EachJobOnce
  BY <1>1 DEF EachJobOnce
<1> QED BY <1>2, Invariance, PTL

===============================================================================
