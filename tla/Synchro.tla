-------------------------------- MODULE Synchro --------------------------------
(***************************************************************************)
(* SYNCHRO of dynare++ (tl/cc/sthread.hweb): the POSIX build of            *)
(* synchro::lock and synchro::unlock over the process-wide mutex_map.      *)
(*                                                                         *)
(* The map takes a key to a node: a mutex and the number of threads that   *)
(* refer to it. A node is created when the first thread asks for the key   *)
(* and erased when the last one has left.  Nodes are heap objects: a       *)
(* thread that waits for a mutex holds the address of a node, and the node *)
(* may be erased, and its memory used again, by other threads meanwhile.   *)
(*                                                                         *)
(* lock() looks its node up a second time after it has released the map's  *)
(* mutex.  That lookup races with the insertion and the erasure of other   *)
(* keys, which rebalance the tree: it finds the node or misses it, and a   *)
(* missed lookup is the dereference of a null pointer (segv).              *)
(***************************************************************************)
EXTENDS Integers, FiniteSets

CONSTANTS Threads,      \* the worker threads
          Keys,         \* pairs of an address and an entry point
          Nodes,        \* addresses at which a map node can be allocated
          NoThread,     \* nobody: the owner of a free mutex
          Null,         \* the null pointer
          MaxSections   \* synchronized sections each worker goes through

ASSUME ThreadsAssumption == IsFiniteSet(Threads) /\ NoThread \notin Threads
ASSUME NodesAssumption == Null \notin Nodes
ASSUME SectionsAssumption == MaxSections \in Nat

VARIABLES pc,      \* where each thread is in synchro::lock or synchro::unlock
          left,    \* the synchronized sections each thread has still to enter
          key,     \* the caller and iden of each thread's SYNCHRO object
          node,    \* the node whose mutex the thread locks, once looked up
          mapm,    \* the owner of the map's own mutex, mutex_map::m
          mutmap,  \* the map: the node of each key, Null when there is none
          owner,   \* the owner of the mutex of each node
          refs,    \* the reference count of each node
          segv     \* a lookup missed its node and the program is gone

vars == <<pc, left, key, node, mapm, mutmap, owner, refs, segv>>

\* Where a thread can be: the steps of lock(), the protected code, unlock().
Locking   == {"lock", "ref", "inserting", "find", "wait"}
Unlocking == {"unlock", "release", "deref", "erasing", "unlockmap"}
PC        == {"idle", "inside"} \cup Locking \cup Unlocking

\* Threads that hold the map's mutex, and those that are changing the tree.
HoldsMap == {"ref", "inserting", "release", "deref", "erasing", "unlockmap"}
Modifies == {"inserting", "erasing"}

\* Between its increment and its decrement a thread counts as a reference.
Registered == {"find", "wait", "inside", "unlock", "release", "deref"}

\* Between locking and unlocking the mutex of its node.
Owning == {"inside", "unlock", "release"}

Init == /\ pc = [t \in Threads |-> "idle"]
        /\ left = [t \in Threads |-> MaxSections]
        /\ key \in [Threads -> Keys]
        /\ node = [t \in Threads |-> Null]
        /\ mapm = NoThread
        /\ mutmap = [k \in Keys |-> Null]
        /\ owner = [n \in Nodes |-> NoThread]
        /\ refs = [n \in Nodes |-> 0]
        /\ segv = FALSE

Goto(t, from, to) == /\ pc[t] = from
                     /\ pc' = [pc EXCEPT ![t] = to]

InMap(n) == \E k \in Keys : mutmap[k] = n

\* The node of the thread's key, as check and get see it under the map's mutex.
NodeOf(t) == mutmap[key[t]]

-------------------------------------------------------------------------------
(***************************************************************************)
(* synchro::lock                                                           *)
(***************************************************************************)

\* The constructor of a SYNCHRO object for key k calls lock().
Construct(t, k) ==
    /\ Goto(t, "idle", "lock")
    /\ left[t] > 0
    /\ left' = [left EXCEPT ![t] = @ - 1]
    /\ key' = [key EXCEPT ![t] = k]
    /\ UNCHANGED <<node, mapm, mutmap, owner, refs, segv>>

\* lock_map, from lock() and from unlock().
LockMap(t) ==
    /\ mapm = NoThread
    /\ mapm' = t
    /\ Goto(t, "lock", "ref") \/ Goto(t, "unlock", "release")
    /\ UNCHANGED <<left, key, node, mutmap, owner, refs, segv>>

\* The key is not in the map: insert starts to change the tree.
BeginInsert(t) ==
    /\ Goto(t, "ref", "inserting")
    /\ NodeOf(t) = Null
    /\ UNCHANGED <<left, key, node, mapm, mutmap, owner, refs, segv>>

\* The new node is linked, with an unlocked mutex and no reference.
EndInsert(t) ==
    /\ Goto(t, "inserting", "ref")
    /\ \E n \in Nodes :
         /\ ~ InMap(n)
         /\ mutmap' = [mutmap EXCEPT ![key[t]] = n]
         /\ owner' = [owner EXCEPT ![n] = NoThread]
         /\ refs' = [refs EXCEPT ![n] = 0]
    /\ UNCHANGED <<left, key, node, mapm, segv>>

\* Mutant of AddRef: the count is set to one, not increased.
AddRef_Sets(t) ==
    /\ Goto(t, "ref", "find")
    /\ NodeOf(t) # Null
    /\ refs' = [refs EXCEPT ![NodeOf(t)] = 1]
    /\ mapm' = NoThread
    /\ UNCHANGED <<left, key, node, mutmap, owner, segv>>

\* The thread registers with the node and releases the map.
AddRef(t) ==
    /\ Goto(t, "ref", "find")
    /\ NodeOf(t) # Null
    /\ refs' = [refs EXCEPT ![NodeOf(t)] = @ + 1]
    /\ mapm' = NoThread
    /\ UNCHANGED <<left, key, node, mutmap, owner, segv>>

\* The second lookup, without the map's mutex.
Find(t) ==
    /\ Goto(t, "find", "wait")
    /\ node' = [node EXCEPT ![t] = NodeOf(t)]
    /\ segv' = (NodeOf(t) = Null)
    /\ UNCHANGED <<left, key, mapm, mutmap, owner, refs>>

\* The second lookup while another thread changes the tree: it is missed.
FindMisses(t) ==
    /\ pc[t] = "find"
    /\ \E u \in Threads : pc[u] \in Modifies
    /\ segv' = TRUE
    /\ UNCHANGED <<pc, left, key, node, mapm, mutmap, owner, refs>>

\* pthread_mutex_lock on the node found.
LockMutex(t) ==
    /\ Goto(t, "wait", "inside")
    /\ owner[node[t]] = NoThread
    /\ owner' = [owner EXCEPT ![node[t]] = t]
    /\ UNCHANGED <<left, key, node, mapm, mutmap, refs, segv>>

-------------------------------------------------------------------------------
(***************************************************************************)
(* synchro::unlock                                                         *)
(***************************************************************************)

\* The protected code ends: the destructor calls unlock().
Destruct(t) ==
    /\ Goto(t, "inside", "unlock")
    /\ UNCHANGED <<left, key, node, mapm, mutmap, owner, refs, segv>>

\* Mutant of UnlockMutex: the mutex of the node stays locked.
UnlockMutex_Keeps(t) ==
    /\ IF NodeOf(t) # Null THEN Goto(t, "release", "deref")
                           ELSE Goto(t, "release", "unlockmap")
    /\ UNCHANGED <<left, key, node, mapm, mutmap, owner, refs, segv>>

\* The mutex is released before the reference is dropped.
UnlockMutex(t) ==
    /\ IF NodeOf(t) # Null
       THEN /\ Goto(t, "release", "deref")
            /\ owner' = [owner EXCEPT ![NodeOf(t)] = NoThread]
       ELSE /\ Goto(t, "release", "unlockmap")
            /\ UNCHANGED owner
    /\ UNCHANGED <<left, key, node, mapm, mutmap, refs, segv>>

\* Mutant of DropRef: the node is erased one reference too early.
DropRef_TooEarly(t) ==
    /\ Goto(t, "deref", IF refs[NodeOf(t)] =< 2 THEN "erasing" ELSE "unlockmap")
    /\ refs' = [refs EXCEPT ![NodeOf(t)] = @ - 1]
    /\ UNCHANGED <<left, key, node, mapm, mutmap, owner, segv>>

\* The reference is dropped; the last one makes unlock() erase the node.
DropRef(t) ==
    /\ Goto(t, "deref", IF refs[NodeOf(t)] = 1 THEN "erasing" ELSE "unlockmap")
    /\ refs' = [refs EXCEPT ![NodeOf(t)] = @ - 1]
    /\ UNCHANGED <<left, key, node, mapm, mutmap, owner, segv>>

Erase(t) ==
    /\ Goto(t, "erasing", "unlockmap")
    /\ mutmap' = [mutmap EXCEPT ![key[t]] = Null]
    /\ UNCHANGED <<left, key, node, mapm, owner, refs, segv>>

UnlockMap(t) ==
    /\ Goto(t, "unlockmap", "idle")
    /\ mapm' = NoThread
    /\ node' = [node EXCEPT ![t] = Null]
    /\ UNCHANGED <<left, key, mutmap, owner, refs, segv>>

-------------------------------------------------------------------------------

Step(t) == \/ \E k \in Keys : Construct(t, k)
           \/ LockMap(t) \/ BeginInsert(t) \/ EndInsert(t) \/ AddRef(t)
           \/ Find(t) \/ FindMisses(t) \/ LockMutex(t)
           \/ Destruct(t) \/ UnlockMutex(t) \/ DropRef(t) \/ Erase(t)
           \/ UnlockMap(t)

\* A segmentation fault ends the process with all its threads.
Next == ~ segv /\ \E t \in Threads : Step(t)

Spec == Init /\ [][Next]_vars

\* The kernel schedules every runnable thread. Nothing is assumed about the
\* order in which a mutex is handed to the threads that wait for it.
FairSpec == Spec /\ \A t \in Threads : WF_vars(~ segv /\ Step(t))

-------------------------------------------------------------------------------
(***************************************************************************)
(* Properties                                                              *)
(***************************************************************************)

\* Every variable stays in its range; no reference count is negative.
TypeOK == /\ pc \in [Threads -> PC]
          /\ left \in [Threads -> 0 .. MaxSections]
          /\ key \in [Threads -> Keys]
          /\ node \in [Threads -> Nodes \cup {Null}]
          /\ mapm \in Threads \cup {NoThread}
          /\ mutmap \in [Keys -> Nodes \cup {Null}]
          /\ owner \in [Nodes -> Threads \cup {NoThread}]
          /\ refs \in [Nodes -> Nat]
          /\ segv \in BOOLEAN

Referrers(k) == {t \in Threads : pc[t] \in Registered /\ key[t] = k}

\* The count of a node in the map is the number of threads that have asked for
\* its key and not yet left: the decision of unlock() to erase rests on it.
RefCountExact == \A k \in Keys :
    mutmap[k] # Null => refs[mutmap[k]] = Cardinality(Referrers(k))

\* "The implementation must not remove a referenced mutex" (mutex_map::remove):
\* what a thread waits for or owns is still the mutex that the map publishes for
\* its key, never an erased node, nor one that now serves another key.
NoDanglingMutex == \A t \in Threads :
    (pc[t] \in {"wait"} \cup Owning /\ ~ segv) =>
        node[t] # Null /\ node[t] = NodeOf(t)

\* The map does not grow: when nobody holds the map's mutex, it has exactly the
\* keys that some thread refers to.
MapIsMinimal == mapm = NoThread =>
    \A k \in Keys : mutmap[k] # Null <=> Referrers(k) # {}

\* Inside the code protected by a key there is at most one thread, from the
\* moment it locks the mutex to the moment it unlocks it.
Inside == [k \in Keys |-> {t \in Threads : pc[t] \in Owning /\ key[t] = k}]

Promise == INSTANCE KeyedMutex WITH inside <- Inside

ImplementsKeyedMutex == Promise!Spec

\* Every thread gets through all its synchronized sections: no thread waits for
\* a mutex that nobody will release, and no thread keeps the map's mutex.
EveryoneGetsThrough == <>(segv \/ \A t \in Threads : pc[t] = "idle" /\ left[t] = 0)

===============================================================================
