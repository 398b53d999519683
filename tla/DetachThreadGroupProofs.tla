------------------------ MODULE DetachThreadGroupProofs ------------------------
(***************************************************************************)
(* Proofs about DetachThreadGroup for any number of jobs, any              *)
(* max_parallel_threads and any set of jobs that throw or find no thread.  *)
(*                                                                         *)
(* run() decides on res, which is old when it acts. What makes the         *)
(* decision right is that the slots in use only become fewer until main    *)
(* itself creates the next thread: res was exact when it was read, under   *)
(* the mutex that a thread keeps until it has left decrease().             *)
(***************************************************************************)
EXTENDS DetachThreadGroup, FiniteSetTheorems, TLAPS

\* The mutex of the counter belongs to whoever is between its lock and unlock.
MutexOwned == /\ mpc \in {"check", "read", "incd"} <=> mut = Main
              /\ \A j \in Jobs : tpc[j] \in {"dec", "bcast", "unlock"} <=> mut = j

\* The jobs in front of the iterator have been started and no others.
Started == /\ \A j \in Jobs : tpc[j] # "none" <=> j < it
           /\ mpc \in {"inc", "incd", "create"} => it =< size

\* What main has read is still a bound on the slots in use.
ReadBounds == mpc \in {"test", "inc", "incd", "create"} =>
    /\ Cardinality(Occupied) =< res
    /\ mpc # "test" => res < MaxParallel

\* run() has returned: it has started every job and no slot is in use.
AllOver == mpc \in {"returned", "destroyed"} => it > size /\ Occupied = {}

IInv == /\ TypeOK
        /\ MutexOwned
        /\ Started
        /\ CounterExact
        /\ ReadBounds
        /\ AtMostMaxParallel
        /\ AllOver

-------------------------------------------------------------------------------

LEMMA SlotsFinite ==
    /\ IsFiniteSet(Counted) /\ Cardinality(Counted) \in Nat
    /\ IsFiniteSet(Occupied) /\ Cardinality(Occupied) \in Nat
<1>1. IsFiniteSet(Jobs)
  BY MaxJobsAssumption, FS_Interval DEF Jobs
<1>2. QED
  BY <1>1, FS_Subset, FS_CardinalityType DEF Counted, Occupied

LEMMA InitIInv == Init => IInv
<1>1. SUFFICES ASSUME Init PROVE IInv
  OBVIOUS
<1>2. TypeOK
  BY <1>1, MaxJobsAssumption DEF Init, TypeOK, MainPC, ThreadPC
<1>3. Counted = {} /\ Occupied = {}
  BY <1>1 DEF Init, Counted, Occupied
<1>4. MutexOwned /\ Started
  BY <1>1, OwnersAssumption DEF Init, MutexOwned, Started, Jobs
<1>5. CounterExact /\ ReadBounds /\ AtMostMaxParallel /\ AllOver
  BY <1>1, <1>3, FS_EmptySet DEF Init, CounterExact, ReadBounds, AtMostMaxParallel, AllOver
<1>6. QED
  BY <1>2, <1>4, <1>5 DEF IInv

\* The steps of main that leave the threads alone leave the slots alone.
LEMMA SlotsSame ==
    ASSUME tpc' = tpc
    PROVE  Counted' = Counted /\ Occupied' = Occupied
  BY DEF Counted, Occupied

LEMMA InsertKeepsIInv == ASSUME IInv, Insert PROVE IInv'
<1>1. TypeOK'
  BY MaxJobsAssumption DEF IInv, TypeOK, Insert
<1>2. Counted' = Counted /\ Occupied' = Occupied
  BY SlotsSame DEF Insert
<1>3. MutexOwned' /\ Started'
  BY DEF IInv, Insert, MutexOwned, Started
<1>4. CounterExact' /\ ReadBounds' /\ AtMostMaxParallel' /\ AllOver'
  BY <1>2 DEF IInv, Insert, CounterExact, ReadBounds, AtMostMaxParallel, AllOver
<1>5. QED
  BY <1>1, <1>3, <1>4 DEF IInv

LEMMA RunKeepsIInv == ASSUME IInv, Run PROVE IInv'
<1>1. TypeOK'
  BY DEF IInv, TypeOK, Run, MainGoto, MainPC
<1>2. Counted' = Counted /\ Occupied' = Occupied
  BY SlotsSame DEF Run
<1>3. MutexOwned' /\ Started'
  BY DEF IInv, Run, MainGoto, MutexOwned, Started
<1>4. CounterExact' /\ ReadBounds' /\ AtMostMaxParallel' /\ AllOver'
  BY <1>2 DEF IInv, Run, MainGoto, CounterExact, ReadBounds, AtMostMaxParallel,
     AllOver
<1>5. QED
  BY <1>1, <1>3, <1>4 DEF IInv

LEMMA MainLockKeepsIInv == ASSUME IInv, MainLock PROVE IInv'
<1>1. /\ mpc \in {"wfc", "woken", "inc"} /\ mpc' \in {"check", "read", "incd"}
      /\ mpc' = "incd" <=> mpc = "inc"
      /\ mut = Free /\ mut' = Main
      /\ UNCHANGED <<size, it, res, tpc, counter, changed>>
  BY DEF MainLock, MainGoto
<1>2. TypeOK'
  BY <1>1 DEF IInv, TypeOK, MainPC
<1>3. Counted' = Counted /\ Occupied' = Occupied
  BY <1>1, SlotsSame
<1>4. MutexOwned' /\ Started'
  BY <1>1, OwnersAssumption DEF IInv, MutexOwned, Started
<1>5. CounterExact' /\ ReadBounds' /\ AtMostMaxParallel' /\ AllOver'
  BY <1>1, <1>3 DEF IInv, CounterExact, ReadBounds, AtMostMaxParallel, AllOver
<1>6. QED
  BY <1>2, <1>4, <1>5 DEF IInv

LEMMA CheckChangedKeepsIInv == ASSUME IInv, CheckChanged PROVE IInv'
<1>1. /\ mpc = "check"
      /\ (mpc' = "read" /\ mut' = mut) \/ (mpc' = "blocked" /\ mut' = Free)
      /\ UNCHANGED <<size, it, res, tpc, counter, changed>>
  <2>1. UNCHANGED <<size, it, res, tpc, counter, changed>>
    BY Zenon DEF CheckChanged
  <2>2. /\ mpc = "check"
        /\ (mpc' = "read" /\ mut' = mut) \/ (mpc' = "blocked" /\ mut' = Free)
    BY Zenon DEF CheckChanged, MainGoto
  <2>3. QED
    BY <2>1, <2>2
<1>2. TypeOK'
  BY <1>1 DEF IInv, TypeOK, MainPC
<1>3. Counted' = Counted /\ Occupied' = Occupied
  BY <1>1, SlotsSame
<1>4. MutexOwned' /\ Started'
  BY <1>1, OwnersAssumption DEF IInv, MutexOwned, Started
<1>5. CounterExact' /\ ReadBounds' /\ AtMostMaxParallel' /\ AllOver'
  BY <1>1, <1>3 DEF IInv, CounterExact, ReadBounds, AtMostMaxParallel, AllOver
<1>6. QED
  BY <1>2, <1>4, <1>5 DEF IInv

LEMMA SpuriousWakeupKeepsIInv == ASSUME IInv, SpuriousWakeup PROVE IInv'
<1>1. TypeOK'
  BY DEF IInv, TypeOK, SpuriousWakeup, MainGoto, MainPC
<1>2. Counted' = Counted /\ Occupied' = Occupied
  BY SlotsSame DEF SpuriousWakeup
<1>3. MutexOwned' /\ Started'
  BY DEF IInv, SpuriousWakeup, MainGoto, MutexOwned, Started
<1>4. CounterExact' /\ ReadBounds' /\ AtMostMaxParallel' /\ AllOver'
  BY <1>2 DEF IInv, SpuriousWakeup, MainGoto, CounterExact, ReadBounds,
     AtMostMaxParallel, AllOver
<1>5. QED
  BY <1>1, <1>3, <1>4 DEF IInv

\* The value is exact and covers every slot: the mutex is main's, so no thread is
\* between its decrement and its end.
LEMMA ReadKeepsIInv == ASSUME IInv, Read PROVE IInv'
<1>1. /\ mpc = "read" /\ mpc' = "test" /\ res' = counter /\ mut' = Free
      /\ changed' = FALSE /\ UNCHANGED <<size, it, tpc, counter>>
  BY DEF Read, MainGoto
<1>2. mut = Main
  BY <1>1 DEF IInv, MutexOwned
<1>3. TypeOK'
  BY <1>1 DEF IInv, TypeOK, MainPC
<1>4. Counted' = Counted /\ Occupied' = Occupied
  BY <1>1, SlotsSame
<1>5. \A j \in Jobs : tpc[j] \notin {"dec", "bcast", "unlock"}
  BY <1>2, OwnersAssumption DEF IInv, MutexOwned
<1>6. Occupied = Counted
  BY <1>5 DEF IInv, TypeOK, ThreadPC, Occupied, Counted
<1>7. MutexOwned' /\ Started'
  BY <1>1, <1>5, OwnersAssumption DEF IInv, MutexOwned, Started
<1>8. ReadBounds'
  BY <1>1, <1>4, <1>6, SlotsFinite DEF IInv, CounterExact, ReadBounds
<1>9. CounterExact' /\ AtMostMaxParallel' /\ AllOver'
  BY <1>1, <1>4 DEF IInv, CounterExact, AtMostMaxParallel, AllOver
<1>10. QED
  BY <1>3, <1>7, <1>8, <1>9 DEF IInv

LEMMA TestKeepsIInv == ASSUME IInv, Test PROVE IInv'
<1>1. /\ mpc = "test" /\ mpc' \in {"inc", "wfc", "returned"}
      /\ mpc' = "inc" => it =< size /\ res < MaxParallel
      /\ mpc' = "returned" => ~ (it =< size) /\ ~ (res > 0)
      /\ UNCHANGED <<size, it, res, tpc, counter, changed, mut>>
  BY DEF Test
<1>2. TypeOK'
  BY <1>1 DEF IInv, TypeOK, MainPC
<1>3. Counted' = Counted /\ Occupied' = Occupied
  BY <1>1, SlotsSame
<1>4. MutexOwned' /\ Started'
  BY <1>1 DEF IInv, MutexOwned, Started
<1>5. ReadBounds'
  BY <1>1, <1>3 DEF IInv, ReadBounds
<1>6. AllOver'
  <2>1. Cardinality(Occupied) =< res
    BY <1>1 DEF IInv, ReadBounds
  <2>2. ASSUME mpc' = "returned" PROVE it > size /\ Occupied = {}
    <3>1. it > size /\ res = 0
      BY <1>1, <2>2, MaxJobsAssumption DEF IInv, TypeOK
    <3>2. Cardinality(Occupied) = 0
      BY <2>1, <3>1, SlotsFinite
    <3>3. QED
      BY <3>1, <3>2, SlotsFinite, FS_EmptySet
  <2>3. QED
    BY <1>1, <1>3, <2>2 DEF AllOver
<1>7. CounterExact' /\ AtMostMaxParallel'
  BY <1>1, <1>3 DEF IInv, CounterExact, AtMostMaxParallel
<1>8. QED
  BY <1>2, <1>4, <1>5, <1>6, <1>7 DEF IInv

LEMMA IncreaseKeepsIInv == ASSUME IInv, Increase PROVE IInv'
<1>1. /\ mpc = "incd" /\ mpc' = "create" /\ counter' = counter + 1
      /\ changed' = TRUE /\ mut' = Free /\ UNCHANGED <<size, it, res, tpc>>
  BY DEF Increase, MainGoto
<1>2. TypeOK'
  BY <1>1 DEF IInv, TypeOK, MainPC
<1>3. Counted' = Counted /\ Occupied' = Occupied
  BY <1>1, SlotsSame
<1>4. MutexOwned' /\ Started'
  BY <1>1, OwnersAssumption DEF IInv, MutexOwned, Started
<1>5. CounterExact'
  BY <1>1, <1>3, SlotsFinite DEF IInv, CounterExact
<1>6. ReadBounds' /\ AtMostMaxParallel' /\ AllOver'
  BY <1>1, <1>3 DEF IInv, ReadBounds, AtMostMaxParallel, AllOver
<1>7. QED
  BY <1>2, <1>4, <1>5, <1>6 DEF IInv

\* The one step that takes a slot.
LEMMA CreateKeepsIInv == ASSUME IInv, Create PROVE IInv'
<1>1. PICK to \in {"running", "lost"} : Goto(it, "none", to)
  BY DEF Create
<1>2. /\ mpc = "create" /\ mpc' = "wfc" /\ it' = it + 1
      /\ UNCHANGED <<size, res, counter, changed, mut>>
  BY DEF Create, MainGoto
<1>3. it =< size /\ it \in Jobs
  BY <1>2, MaxJobsAssumption DEF IInv, TypeOK, Started, Jobs
<1>4. /\ tpc[it] = "none" /\ tpc' = [tpc EXCEPT ![it] = to] /\ tpc'[it] = to
      /\ \A j \in Jobs \ {it} : tpc'[j] = tpc[j]
  BY <1>1, <1>3 DEF IInv, TypeOK, Goto
<1>5. TypeOK'
  <2>1. it' \in 1 .. (size' + 1)
    BY <1>2, <1>3, MaxJobsAssumption DEF IInv, TypeOK
  <2>2. tpc' \in [Jobs -> ThreadPC]
    BY <1>3, <1>4 DEF IInv, TypeOK, ThreadPC
  <2>3. QED
    BY <1>2, <2>1, <2>2 DEF IInv, TypeOK, MainPC
<1>6. /\ Counted' = Counted \cup {it} /\ it \notin Counted
      /\ Occupied' = Occupied \cup {it} /\ it \notin Occupied
  BY <1>3, <1>4 DEF Counted, Occupied
<1>7. /\ Cardinality(Counted') = Cardinality(Counted) + 1
      /\ Cardinality(Occupied') = Cardinality(Occupied) + 1
  BY <1>6, SlotsFinite, FS_AddElement
<1>8. MutexOwned'
  BY <1>2, <1>4 DEF IInv, MutexOwned
<1>9. Started'
  BY <1>2, <1>3, <1>4, MaxJobsAssumption DEF IInv, TypeOK, Started, Jobs
<1>10. CounterExact'
  BY <1>2, <1>7, SlotsFinite DEF IInv, CounterExact
<1>11. AtMostMaxParallel'
  BY <1>2, <1>7, SlotsFinite, MaxParallelAssumption
     DEF IInv, TypeOK, ReadBounds, AtMostMaxParallel
<1>12. ReadBounds' /\ AllOver'
  BY <1>2 DEF ReadBounds, AllOver
<1>13. QED
  BY <1>5, <1>8, <1>9, <1>10, <1>11, <1>12 DEF IInv

LEMMA DestroyKeepsIInv == ASSUME IInv, Destroy PROVE IInv'
<1>1. TypeOK'
  BY DEF IInv, TypeOK, Destroy, MainGoto, MainPC
<1>2. Counted' = Counted /\ Occupied' = Occupied
  BY SlotsSame DEF Destroy
<1>3. MutexOwned' /\ Started'
  BY DEF IInv, Destroy, MainGoto, MutexOwned, Started
<1>4. CounterExact' /\ ReadBounds' /\ AtMostMaxParallel' /\ AllOver'
  BY <1>2 DEF IInv, Destroy, MainGoto, CounterExact, ReadBounds, AtMostMaxParallel,
     AllOver
<1>5. QED
  BY <1>1, <1>3, <1>4 DEF IInv

-------------------------------------------------------------------------------

\* Steps of a thread that stays counted and keeps its slot.
LEMMA FinishKeepsIInv == ASSUME IInv, NEW j \in Jobs, Finish(j) PROVE IInv'
<1>1. /\ tpc[j] = "running" /\ tpc' = [tpc EXCEPT ![j] = "ending"]
      /\ UNCHANGED <<size, it, mpc, res, counter, changed, mut>>
  BY DEF Finish, Goto
<1>2. tpc'[j] = "ending" /\ \A i \in Jobs \ {j} : tpc'[i] = tpc[i]
  BY <1>1 DEF IInv, TypeOK
<1>3. TypeOK'
  BY <1>1 DEF IInv, TypeOK, ThreadPC
<1>4. Counted' = Counted /\ Occupied' = Occupied
  BY <1>1, <1>2 DEF Counted, Occupied
<1>5. MutexOwned' /\ Started'
  BY <1>1, <1>2 DEF IInv, MutexOwned, Started
<1>6. CounterExact' /\ ReadBounds' /\ AtMostMaxParallel' /\ AllOver'
  BY <1>1, <1>4 DEF IInv, CounterExact, ReadBounds, AtMostMaxParallel, AllOver
<1>7. QED
  BY <1>3, <1>5, <1>6 DEF IInv

LEMMA ThrowKeepsIInv == ASSUME IInv, NEW j \in Jobs, Throw(j) PROVE IInv'
<1>1. /\ tpc[j] = "running" /\ tpc' = [tpc EXCEPT ![j] = "exited"]
      /\ UNCHANGED <<size, it, mpc, res, counter, changed, mut>>
  BY DEF Throw, Goto
<1>2. tpc'[j] = "exited" /\ \A i \in Jobs \ {j} : tpc'[i] = tpc[i]
  BY <1>1 DEF IInv, TypeOK
<1>3. TypeOK'
  BY <1>1 DEF IInv, TypeOK, ThreadPC
<1>4. Counted' = Counted /\ Occupied' = Occupied
  BY <1>1, <1>2 DEF Counted, Occupied
<1>5. MutexOwned' /\ Started'
  BY <1>1, <1>2 DEF IInv, MutexOwned, Started
<1>6. CounterExact' /\ ReadBounds' /\ AtMostMaxParallel' /\ AllOver'
  BY <1>1, <1>4 DEF IInv, CounterExact, ReadBounds, AtMostMaxParallel, AllOver
<1>7. QED
  BY <1>3, <1>5, <1>6 DEF IInv

LEMMA LockCounterKeepsIInv ==
    ASSUME IInv, NEW j \in Jobs, LockCounter(j) PROVE IInv'
<1>1. /\ tpc[j] = "ending" /\ tpc' = [tpc EXCEPT ![j] = "dec"]
      /\ mut = Free /\ mut' = j
      /\ UNCHANGED <<size, it, mpc, res, counter, changed>>
  BY DEF LockCounter, Goto
<1>2. tpc'[j] = "dec" /\ \A i \in Jobs \ {j} : tpc'[i] = tpc[i]
  BY <1>1 DEF IInv, TypeOK
<1>3. TypeOK'
  BY <1>1 DEF IInv, TypeOK, ThreadPC
<1>4. Counted' = Counted /\ Occupied' = Occupied
  BY <1>1, <1>2 DEF Counted, Occupied
<1>5. MutexOwned' /\ Started'
  BY <1>1, <1>2, OwnersAssumption DEF IInv, MutexOwned, Started
<1>6. CounterExact' /\ ReadBounds' /\ AtMostMaxParallel' /\ AllOver'
  BY <1>1, <1>4 DEF IInv, CounterExact, ReadBounds, AtMostMaxParallel, AllOver
<1>7. QED
  BY <1>3, <1>5, <1>6 DEF IInv

\* The thread gives notice but keeps its slot.
LEMMA DecreaseKeepsIInv == ASSUME IInv, NEW j \in Jobs, Decrease(j) PROVE IInv'
<1>1. /\ tpc[j] = "dec" /\ tpc' = [tpc EXCEPT ![j] = "bcast"]
      /\ counter' = counter - 1 /\ changed' = TRUE
      /\ UNCHANGED <<size, it, mpc, res, mut>>
  BY DEF Decrease, Goto
<1>2. tpc'[j] = "bcast" /\ \A i \in Jobs \ {j} : tpc'[i] = tpc[i]
  BY <1>1 DEF IInv, TypeOK
<1>3. Occupied' = Occupied
  BY <1>1, <1>2 DEF Occupied
<1>4. Counted' = Counted \ {j} /\ j \in Counted
  BY <1>1, <1>2 DEF Counted
<1>5. /\ Cardinality(Counted') = Cardinality(Counted) - 1
      /\ Cardinality(Counted') \in Nat
  BY <1>4, SlotsFinite, FS_RemoveElement, FS_CardinalityType
<1>6. CounterExact'
  BY <1>1, <1>5, SlotsFinite DEF IInv, CounterExact
<1>7. counter' \in Nat
  BY <1>5, <1>6 DEF CounterExact
<1>8. TypeOK'
  BY <1>1, <1>7 DEF IInv, TypeOK, ThreadPC
<1>9. MutexOwned' /\ Started'
  BY <1>1, <1>2 DEF IInv, MutexOwned, Started
<1>10. ReadBounds' /\ AtMostMaxParallel' /\ AllOver'
  BY <1>1, <1>3 DEF IInv, ReadBounds, AtMostMaxParallel, AllOver
<1>11. QED
  BY <1>6, <1>8, <1>9, <1>10 DEF IInv

LEMMA BroadcastKeepsIInv == ASSUME IInv, NEW j \in Jobs, Broadcast(j) PROVE IInv'
<1>1. /\ tpc[j] = "bcast" /\ tpc' = [tpc EXCEPT ![j] = "unlock"]
      /\ mpc' = IF mpc = "blocked" THEN "woken" ELSE mpc
      /\ UNCHANGED <<size, it, res, counter, changed, mut>>
  BY DEF Broadcast, Goto
<1>2. tpc'[j] = "unlock" /\ \A i \in Jobs \ {j} : tpc'[i] = tpc[i]
  BY <1>1 DEF IInv, TypeOK
<1>3. TypeOK'
  BY <1>1 DEF IInv, TypeOK, MainPC, ThreadPC
<1>4. Counted' = Counted /\ Occupied' = Occupied
  BY <1>1, <1>2 DEF Counted, Occupied
<1>5. MutexOwned' /\ Started'
  BY <1>1, <1>2 DEF IInv, MutexOwned, Started
<1>6. CounterExact' /\ ReadBounds' /\ AtMostMaxParallel' /\ AllOver'
  BY <1>1, <1>4 DEF IInv, CounterExact, ReadBounds, AtMostMaxParallel, AllOver
<1>7. QED
  BY <1>3, <1>5, <1>6 DEF IInv

\* The last step of a thread gives its slot back.
LEMMA UnlockCounterKeepsIInv ==
    ASSUME IInv, NEW j \in Jobs, UnlockCounter(j) PROVE IInv'
<1>1. /\ tpc[j] = "unlock" /\ tpc' = [tpc EXCEPT ![j] = "ended"]
      /\ mut' = Free
      /\ UNCHANGED <<size, it, mpc, res, counter, changed>>
  BY DEF UnlockCounter, Goto
<1>2. tpc'[j] = "ended" /\ \A i \in Jobs \ {j} : tpc'[i] = tpc[i]
  BY <1>1 DEF IInv, TypeOK
<1>3. mut = j
  BY <1>1 DEF IInv, MutexOwned
<1>4. TypeOK'
  BY <1>1 DEF IInv, TypeOK, ThreadPC
<1>5. Counted' = Counted /\ Occupied' = Occupied \ {j} /\ j \in Occupied
  BY <1>1, <1>2 DEF Counted, Occupied
<1>6. Cardinality(Occupied') = Cardinality(Occupied) - 1
  BY <1>5, SlotsFinite, FS_RemoveElement
<1>7. MutexOwned' /\ Started'
  BY <1>1, <1>2, <1>3, OwnersAssumption DEF IInv, MutexOwned, Started
<1>8. ReadBounds' /\ AtMostMaxParallel'
  BY <1>1, <1>5, <1>6, SlotsFinite, MaxParallelAssumption
     DEF IInv, TypeOK, ReadBounds, AtMostMaxParallel
<1>9. CounterExact' /\ AllOver'
  BY <1>1, <1>5 DEF IInv, CounterExact, AllOver
<1>10. QED
  BY <1>4, <1>7, <1>8, <1>9 DEF IInv

LEMMA NextKeepsIInv == IInv /\ [Next]_vars => IInv'
<1>1. SUFFICES ASSUME IInv, [Next]_vars PROVE IInv'
  OBVIOUS
<1>2. CASE MainStep
  BY <1>1, <1>2, InsertKeepsIInv, RunKeepsIInv, MainLockKeepsIInv,
     CheckChangedKeepsIInv, ReadKeepsIInv, TestKeepsIInv, IncreaseKeepsIInv,
     CreateKeepsIInv, DestroyKeepsIInv DEF MainStep
<1>3. CASE SpuriousWakeup
  BY <1>1, <1>3, SpuriousWakeupKeepsIInv
<1>4. ASSUME NEW j \in Jobs, ThreadStep(j) PROVE IInv'
  BY <1>1, <1>4, FinishKeepsIInv, ThrowKeepsIInv, LockCounterKeepsIInv,
     DecreaseKeepsIInv, BroadcastKeepsIInv, UnlockCounterKeepsIInv DEF ThreadStep
<1>5. CASE UNCHANGED vars
  <2>1. Counted' = Counted /\ Occupied' = Occupied
    BY <1>5, SlotsSame DEF vars
  <2>2. QED
    BY <1>1, <1>5, <2>1 DEF vars, IInv, TypeOK, MutexOwned, Started, CounterExact,
       ReadBounds, AtMostMaxParallel, AllOver
<1>6. QED
  BY <1>1, <1>2, <1>3, <1>4, <1>5 DEF Next

THEOREM Invariance == Spec => []IInv
  BY InitIInv, NextKeepsIInv, PTL DEF Spec

-------------------------------------------------------------------------------

\* Every variable stays in its range; in particular the counter of a group is
\* never negative.
THEOREM TypeCorrect == Spec => []TypeOK
<1>1. IInv => TypeOK
  BY DEF IInv
<1>2. QED
  BY <1>1, Invariance, PTL

\* The counter is the number of threads that were announced and have not given
\* notice, at every moment of run().
THEOREM CounterIsExact == Spec => []CounterExact
<1>1. IInv => CounterExact
  BY DEF IInv
<1>2. QED
  BY <1>1, Invariance, PTL

\* run() never lets more than max_parallel_threads threads exist at once.
THEOREM BoundedParallelism == Spec => []AtMostMaxParallel
<1>1. IInv => AtMostMaxParallel
  BY DEF IInv
<1>2. QED
  BY <1>1, Invariance, PTL

\* When run() has returned, every thread of the group has left decrease(): the
\* counter and the jobs can go.
THEOREM SafeDestruction == Spec => []NoUseAfterDestroy
<1>1. ASSUME IInv PROVE NoUseAfterDestroy
  <2>1. SUFFICES ASSUME mpc \in {"returned", "destroyed"}, NEW j \in 1 .. size
                 PROVE  tpc[j] = "ended"
    BY DEF NoUseAfterDestroy
  <2>2. j \in Jobs /\ j < it
    BY <1>1, <2>1, MaxJobsAssumption DEF IInv, TypeOK, AllOver, Jobs
  <2>3. tpc[j] # "none"
    BY <1>1, <2>2 DEF IInv, Started
  <2>4. j \notin Occupied
    BY <1>1, <2>1 DEF IInv, AllOver
  <2>5. QED
    BY <2>2, <2>3, <2>4 DEF Occupied
<1>2. QED
  BY <1>1, Invariance, PTL

-------------------------------------------------------------------------------

\* The steps that the callers of the group do not see.
LEMMA Invisible ==
    ASSUME size' = size, \A j \in Jobs : Status(j)' = Status(j), Returned' = Returned
    PROVE  UNCHANGED <<JobStatus, Returned>>
  BY DEF JobStatus

\* A step that changes the status of one job.
LEMMA OneJob ==
    ASSUME NEW i \in Jobs, NEW to, Status(i)' = to,
           \A j \in Jobs \ {i} : Status(j)' = Status(j)
    PROVE  JobStatus' = [JobStatus EXCEPT ![i] = to]
  BY DEF JobStatus

LEMMA InsertSubmits == ASSUME IInv, Insert PROVE Promise!Next
<1>1. mpc = "filling" /\ size' = size + 1 /\ tpc' = tpc /\ mpc' = mpc
  BY DEF Insert
<1>2. PICK i \in Jobs : i = size + 1
  BY MaxJobsAssumption DEF IInv, TypeOK, Insert, Jobs
<1>3. tpc[i] = "none"
  BY <1>2 DEF IInv, TypeOK, Started
<1>4. Status(i) = "absent" /\ Status(i)' = "pending"
  BY <1>1, <1>2, <1>3, MaxJobsAssumption DEF IInv, TypeOK, Status
<1>5. \A j \in Jobs \ {i} : Status(j)' = Status(j)
  BY <1>1, <1>2, MaxJobsAssumption DEF IInv, TypeOK, Status, Jobs
<1>6. JobStatus[i] = "absent" /\ JobStatus' = [JobStatus EXCEPT ![i] = "pending"]
  BY <1>4, <1>5, OneJob DEF JobStatus
<1>7. ~ Returned /\ UNCHANGED Returned
  BY <1>1 DEF Returned
<1>8. QED
  BY <1>6, <1>7 DEF Promise!Next, Promise!Submit

LEMMA CreateStarts ==
    ASSUME IInv, Create PROVE Promise!Next \/ UNCHANGED <<JobStatus, Returned>>
<1>1. PICK to \in {"running", "lost"} : Goto(it, "none", to)
  BY DEF Create
<1>2. mpc = "create" /\ mpc' = "wfc" /\ size' = size
  BY DEF Create, MainGoto
<1>3. PICK i \in Jobs : i = it /\ i =< size
  BY <1>2, MaxJobsAssumption DEF IInv, TypeOK, Started, Jobs
<1>4. tpc[i] = "none" /\ tpc'[i] = to /\ \A j \in Jobs \ {i} : tpc'[j] = tpc[j]
  BY <1>1, <1>3 DEF IInv, TypeOK, Goto
<1>5. \A j \in Jobs \ {i} : Status(j)' = Status(j)
  BY <1>2, <1>4 DEF Status
<1>6. ~ Returned /\ UNCHANGED Returned
  BY <1>2 DEF Returned
<1>7. ~ (i > size)
  BY <1>3, MaxJobsAssumption DEF IInv, TypeOK, Jobs
<1>8. CASE to = "lost"
  <2>1. Status(i)' = Status(i)
    BY <1>2, <1>4, <1>7, <1>8 DEF Status
  <2>2. QED
    BY <1>2, <1>5, <1>6, <2>1, Invisible
<1>9. CASE to = "running"
  <2>1. Status(i) = "pending" /\ Status(i)' = "running"
    BY <1>2, <1>4, <1>7, <1>9 DEF Status
  <2>2. JobStatus[i] = "pending" /\ JobStatus' = [JobStatus EXCEPT ![i] = "running"]
    BY <1>5, <2>1, OneJob DEF JobStatus
  <2>3. Promise!Running \subseteq Occupied
    BY DEF Promise!Running, Occupied, JobStatus, Status
  <2>4. /\ Cardinality(Promise!Running) =< Cardinality(Occupied)
        /\ Cardinality(Promise!Running) \in Nat
    BY <2>3, SlotsFinite, FS_Subset, FS_CardinalityType
  <2>5. Cardinality(Occupied) =< res /\ res < MaxParallel
    BY <1>2 DEF IInv, ReadBounds
  <2>6. Cardinality(Promise!Running) < MaxParallel
    BY <2>4, <2>5, SlotsFinite, MaxParallelAssumption DEF IInv, TypeOK
  <2>7. Promise!Start(i)
    <3>1. UNCHANGED Returned
      BY <1>6
    <3>2. Promise!Cardinality(Promise!Running) = Cardinality(Promise!Running)
      BY DEF Cardinality, Promise!Cardinality, IsFiniteSet, Promise!IsFiniteSet
    <3>3. QED
      BY <2>2, <2>6, <3>1, <3>2 DEF Promise!Start
  <2>8. QED
    BY <1>6, <2>7 DEF Promise!Next
<1>10. QED
  BY <1>8, <1>9

LEMMA FinishFinishes ==
    ASSUME IInv, NEW j \in Jobs, Finish(j) PROVE Promise!Next
<1>1. tpc[j] = "running" /\ size' = size /\ mpc' = mpc
  BY DEF Finish, Goto
<1>2. tpc'[j] = "ending" /\ \A i \in Jobs \ {j} : tpc'[i] = tpc[i]
  BY DEF IInv, TypeOK, Finish, Goto
<1>3. ~ (j > size)
  BY <1>1, MaxJobsAssumption DEF IInv, TypeOK, Started, Jobs
<1>4. Status(j) = "running" /\ Status(j)' = "done"
  BY <1>1, <1>2, <1>3 DEF Status
<1>5. \A i \in Jobs \ {j} : Status(i)' = Status(i)
  BY <1>1, <1>2 DEF Status
<1>6. JobStatus[j] = "running" /\ JobStatus' = [JobStatus EXCEPT ![j] = "done"]
  BY <1>4, <1>5, OneJob DEF JobStatus
<1>7. j \in Occupied
  BY <1>1 DEF Occupied
<1>8. ~ Returned /\ UNCHANGED Returned
  BY <1>1, <1>7 DEF IInv, AllOver, Returned
<1>9. QED
  BY <1>6, <1>8 DEF Promise!Next, Promise!Finish

LEMMA TestReturns ==
    ASSUME IInv, IInv', Test PROVE Promise!Next \/ UNCHANGED <<JobStatus, Returned>>
<1>1. mpc = "test" /\ mpc' \in {"inc", "wfc", "returned"} /\ UNCHANGED <<size, tpc>>
  BY DEF Test
<1>2. \A j \in Jobs : Status(j)' = Status(j)
  BY <1>1 DEF Status
<1>3. ~ Returned
  BY <1>1 DEF Returned
<1>4. CASE mpc' # "returned"
  BY <1>1, <1>2, <1>3, <1>4, Invisible DEF Returned
<1>5. CASE mpc' = "returned"
  <2>1. it' > size' /\ Occupied' = {}
    BY <1>5 DEF IInv, AllOver
  <2>2. \A j \in Jobs : tpc[j] \in {"none", "ended"} /\ (tpc[j] # "none" <=> j < it')
    BY <1>1, <2>1 DEF Occupied, IInv, Started
  <2>3. \A j \in Jobs : Status(j) \in {"absent", "done"}
    BY <1>1, <2>1, <2>2, MaxJobsAssumption DEF Status, IInv, TypeOK, Jobs
  <2>4. \A j \in Jobs : JobStatus[j] \in {"absent", "done"}
    BY <2>3 DEF JobStatus
  <2>5. JobStatus' = JobStatus
    BY <1>2 DEF JobStatus
  <2>6. Returned'
    BY <1>5 DEF Returned
  <2>7. Returned' = TRUE
    BY <2>6 DEF Returned
  <2>8. QED
    BY <1>3, <2>4, <2>5, <2>7 DEF Promise!Next, Promise!Return
<1>6. QED
  BY <1>4, <1>5

\* The group implements the job pool: inserting a job submits it, creating its
\* thread starts it, the end of its operator() finishes it, and run() returns as
\* the pool allows. A job that exits or is lost is never done.
THEOREM Refinement == Spec => ImplementsJobPool
<1>1. Init => Promise!Init
  <2>1. SUFFICES ASSUME Init PROVE Promise!Init
    OBVIOUS
  <2>2. \A j \in Jobs : Status(j) = "absent"
    BY <2>1, MaxJobsAssumption DEF Init, Status, Jobs
  <2>3. Returned = FALSE
    BY <2>1 DEF Init, Returned
  <2>4. QED
    BY <2>2, <2>3 DEF Promise!Init, JobStatus
<1>2. ASSUME IInv, IInv', [Next]_vars
      PROVE  [Promise!Next]_<<JobStatus, Returned>>
  <2>1. CASE Insert
    BY <1>2, <2>1, InsertSubmits
  <2>2. CASE Create
    BY <1>2, <2>2, CreateStarts
  <2>3. CASE Test
    BY <1>2, <2>3, TestReturns
  <2>4. ASSUME NEW j \in Jobs, Finish(j)
        PROVE  [Promise!Next]_<<JobStatus, Returned>>
    BY <1>2, <2>4, FinishFinishes
  <2>5. CASE Run \/ MainLock \/ CheckChanged \/ SpuriousWakeup \/ Read \/ Increase
             \/ Destroy \/ UNCHANGED vars
    <3>1. UNCHANGED <<size, tpc>>
      BY <2>5 DEF Run, MainLock, CheckChanged, SpuriousWakeup, Read, Increase,
         Destroy, vars
    <3>2. Returned' = Returned
      <4>1. CASE CheckChanged
        <5>1. mpc = "check" /\ (mpc' = "read" \/ mpc' = "blocked")
          BY <4>1, Zenon DEF CheckChanged, MainGoto
        <5>2. QED
          BY <5>1 DEF Returned
      <4>2. CASE ~ CheckChanged
        BY <2>5, <4>2 DEF Run, MainLock, SpuriousWakeup, Read, Increase, Destroy, vars,
           MainGoto, Returned
      <4>3. QED
        BY <4>1, <4>2
    <3>3. \A j \in Jobs : Status(j)' = Status(j)
      BY <3>1 DEF Status
    <3>4. QED
      BY <3>1, <3>2, <3>3, Invisible
  <2>6. ASSUME NEW j \in Jobs,
               Throw(j) \/ LockCounter(j) \/ Decrease(j) \/ Broadcast(j) \/ UnlockCounter(j)
        PROVE  [Promise!Next]_<<JobStatus, Returned>>
    <3>1. PICK to \in {"exited", "dec", "bcast", "unlock", "ended"} :
            /\ tpc' = [tpc EXCEPT ![j] = to]
            /\ tpc[j] = CASE to = "exited" -> "running"
                          [] to = "dec"    -> "ending"
                          [] to = "bcast"  -> "dec"
                          [] to = "unlock" -> "bcast"
                          [] to = "ended"  -> "unlock"
      BY <2>6 DEF Throw, LockCounter, Decrease, Broadcast, UnlockCounter, Goto
    <3>2. size' = size /\ Returned' = Returned
      BY <2>6 DEF Throw, LockCounter, Decrease, Broadcast, UnlockCounter, Returned
    <3>3. \A i \in Jobs : Status(i)' = Status(i)
      BY <1>2, <3>1, <3>2 DEF IInv, TypeOK, Status
    <3>4. QED
      BY <3>2, <3>3, Invisible
  <2>7. QED
    BY <1>2, <2>1, <2>2, <2>3, <2>4, <2>5, <2>6 DEF Next, MainStep, ThreadStep
<1>3. QED
  BY <1>1, <1>2, Invariance, PTL DEF Spec, ImplementsJobPool, Promise!Spec, Promise!vars
===============================================================================
