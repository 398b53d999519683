----------------------------- MODULE SynchroProofs -----------------------------
(***************************************************************************)
(* Proofs about Synchro for any threads, keys, nodes and sections.         *)
(*                                                                         *)
(* Mutual exclusion is not inductive. It rests on the node being the same  *)
(* for all who refer to a key, which rests on no referenced node being     *)
(* erased, which rests on the reference counts being exact, which rests on *)
(* the map's mutex being held wherever the map or a count is changed.      *)
(***************************************************************************)
EXTENDS Synchro, FiniteSetTheorems, TLAPS

\* The map's mutex belongs to the one thread that is at work on the map.
MapOwned == \A t \in Threads : pc[t] \in HoldsMap <=> mapm = t

\* No two keys share a node.
NodesApart == \A k, l \in Keys : mutmap[k] = mutmap[l] /\ mutmap[k] # Null => k = l

\* The node of a key is there as long as a thread refers to it, and it is absent
\* while it is being inserted.
Published == \A t \in Threads :
    /\ pc[t] \in Registered => NodeOf(t) # Null
    /\ pc[t] = "inserting" => NodeOf(t) = Null
    /\ pc[t] = "erasing" => NodeOf(t) # Null /\ Referrers(key[t]) = {}

\* A node that nobody refers to is about to be referred to, or to be erased.
Accounted == \A k \in Keys : mutmap[k] # Null /\ Referrers(k) = {} =>
    \E t \in Threads : pc[t] \in {"ref", "erasing"} /\ key[t] = k

\* The address that a thread has looked up is still the one of its key.
NodeKnown == \A t \in Threads :
    pc[t] \in {"wait"} \cup Owning => node[t] = NodeOf(t)

\* Who is in the protected code of a key owns the mutex of the key's node.
OwnsNode == \A t \in Threads : pc[t] \in Owning => owner[NodeOf(t)] = t

IInv == /\ TypeOK
        /\ MapOwned
        /\ NodesApart
        /\ Published
        /\ RefCountExact
        /\ Accounted
        /\ NodeKnown
        /\ OwnsNode

-------------------------------------------------------------------------------

\* The threads that refer to a key are finitely many.
LEMMA ReferrersFinite ==
    ASSUME NEW k \in Keys
    PROVE  /\ IsFiniteSet(Referrers(k))
           /\ Cardinality(Referrers(k)) \in Nat
  BY ThreadsAssumption, FS_Subset, FS_CardinalityType DEF Referrers

\* A step after which the same threads are registered, with the same keys,
\* leaves the references to every key as they were.
LEMMA ReferrersSame ==
    ASSUME TypeOK, NEW t \in Threads, NEW to \in PC,
           pc[t] \in Registered <=> to \in Registered,
           pc' = [pc EXCEPT ![t] = to], key' = key
    PROVE  \A k \in Keys : Referrers(k)' = Referrers(k)
  BY DEF TypeOK, Referrers

\* A thread that registers or leaves is one reference more or less to its key,
\* and none to the others.
LEMMA ReferrersAdded ==
    ASSUME TypeOK, NEW t \in Threads, Goto(t, "ref", "find"), key' = key
    PROVE  /\ \A k \in Keys \ {key[t]} : Referrers(k)' = Referrers(k)
           /\ Referrers(key[t])' = Referrers(key[t]) \cup {t}
           /\ Cardinality(Referrers(key[t])') = Cardinality(Referrers(key[t])) + 1
<1>1. \A k \in Keys \ {key[t]} : Referrers(k)' = Referrers(k)
  BY DEF TypeOK, Referrers, Goto, Registered
<1>2. Referrers(key[t])' = Referrers(key[t]) \cup {t}
  BY DEF TypeOK, Referrers, Goto, Registered
<1>3. t \notin Referrers(key[t])
  BY DEF Referrers, Goto, Registered
<1>4. key[t] \in Keys
  BY DEF TypeOK
<1>5. QED
  BY <1>1, <1>2, <1>3, <1>4, ReferrersFinite, FS_AddElement

LEMMA ReferrersRemoved ==
    ASSUME TypeOK, NEW t \in Threads, NEW to \in {"erasing", "unlockmap"},
           Goto(t, "deref", to), key' = key
    PROVE  /\ \A k \in Keys \ {key[t]} : Referrers(k)' = Referrers(k)
           /\ Referrers(key[t])' = Referrers(key[t]) \ {t}
           /\ Cardinality(Referrers(key[t])') = Cardinality(Referrers(key[t])) - 1
           /\ t \in Referrers(key[t])
           /\ Cardinality(Referrers(key[t])) \in Nat \ {0}
           /\ Cardinality(Referrers(key[t])) = 1 <=> Referrers(key[t])' = {}
<1>1. \A k \in Keys \ {key[t]} : Referrers(k)' = Referrers(k)
  BY DEF TypeOK, Referrers, Goto, Registered
<1>2. Referrers(key[t])' = Referrers(key[t]) \ {t}
  BY DEF TypeOK, Referrers, Goto, Registered
<1>3. t \in Referrers(key[t])
  BY DEF Referrers, Goto, Registered
<1>4. key[t] \in Keys
  BY DEF TypeOK
<1>5. /\ IsFiniteSet(Referrers(key[t]) \ {t})
      /\ Cardinality(Referrers(key[t]) \ {t}) = Cardinality(Referrers(key[t])) - 1
  BY <1>3, <1>4, ReferrersFinite, FS_RemoveElement
<1>6. Cardinality(Referrers(key[t]) \ {t}) = 0 <=> Referrers(key[t]) \ {t} = {}
  BY <1>5, FS_EmptySet
<1>7. /\ Cardinality(Referrers(key[t])) \in Nat
      /\ Cardinality(Referrers(key[t]) \ {t}) \in Nat
  BY <1>4, <1>5, ReferrersFinite, FS_CardinalityType
<1>8. QED
  BY <1>1, <1>2, <1>3, <1>5, <1>6, <1>7

-------------------------------------------------------------------------------

LEMMA InitIInv == Init => IInv
<1>1. SUFFICES ASSUME Init PROVE IInv
  OBVIOUS
<1>2. TypeOK
  <2>1. pc \in [Threads -> PC]
    BY <1>1 DEF Init, PC
  <2>2. left \in [Threads -> 0 .. MaxSections]
    BY <1>1, SectionsAssumption DEF Init
  <2>3. node \in [Threads -> Nodes \cup {Null}] /\ mutmap \in [Keys -> Nodes \cup {Null}]
    BY <1>1 DEF Init
  <2>4. owner \in [Nodes -> Threads \cup {NoThread}] /\ refs \in [Nodes -> Nat]
    BY <1>1 DEF Init
  <2>5. segv \in BOOLEAN
    BY <1>1 DEF Init
  <2>6. QED
    BY <1>1, <2>1, <2>2, <2>3, <2>4, <2>5 DEF Init, TypeOK
<1>3. \A t \in Threads : pc[t] = "idle"
  BY <1>1 DEF Init
<1>4. MapOwned
  BY <1>1, <1>3, ThreadsAssumption DEF Init, MapOwned, HoldsMap
<1>5. NodesApart /\ RefCountExact /\ Accounted
  BY <1>1 DEF Init, NodesApart, RefCountExact, Accounted
<1>6. Published /\ NodeKnown /\ OwnsNode
  BY <1>3 DEF Published, NodeKnown, OwnsNode, Registered, Owning
<1>7. QED
  BY <1>2, <1>4, <1>5, <1>6 DEF IInv

\* A step that leaves the map, its mutex, the nodes and the registrations alone.
LEMMA ConstructKeepsIInv ==
    ASSUME IInv, NEW t \in Threads, NEW k \in Keys, Construct(t, k)
    PROVE  IInv'
<1>1. TypeOK'
  <2>1. pc' \in [Threads -> PC]
    BY DEF IInv, TypeOK, Construct, Goto, PC, Locking
  <2>2. left' \in [Threads -> 0 .. MaxSections]
    BY SectionsAssumption DEF IInv, TypeOK, Construct
  <2>3. QED
    BY <2>1, <2>2 DEF IInv, TypeOK, Construct
<1>2. \A l \in Keys : Referrers(l)' = Referrers(l)
  BY DEF IInv, TypeOK, Construct, Goto, Referrers, Registered
<1>3. \A u \in Threads \ {t} : NodeOf(u)' = NodeOf(u) /\ key'[u] = key[u] /\ pc'[u] = pc[u]
  BY DEF IInv, TypeOK, Construct, Goto, NodeOf
<1>4. pc'[t] = "lock" /\ pc[t] = "idle"
  BY DEF IInv, TypeOK, Construct, Goto
<1>5. MapOwned'
  BY <1>3, <1>4 DEF IInv, MapOwned, Construct, HoldsMap
<1>6. NodesApart' /\ RefCountExact'
  BY <1>2 DEF IInv, NodesApart, RefCountExact, Construct
<1>7. Published'
  BY <1>2, <1>3, <1>4 DEF IInv, TypeOK, Published, Registered
<1>8. Accounted'
  BY <1>2, <1>3, <1>4 DEF IInv, Accounted, Construct
<1>9. NodeKnown' /\ OwnsNode'
  BY <1>3, <1>4 DEF IInv, NodeKnown, OwnsNode, Owning, Construct
<1>10. QED
  BY <1>1, <1>5, <1>6, <1>7, <1>8, <1>9 DEF IInv

LEMMA LockMapKeepsIInv ==
    ASSUME IInv, NEW t \in Threads, LockMap(t)
    PROVE  IInv'
<1>1. PICK to \in {"ref", "release"} :
        /\ pc[t] = IF to = "ref" THEN "lock" ELSE "unlock"
        /\ pc' = [pc EXCEPT ![t] = to]
        /\ pc'[t] = to
  <2>1. CASE Goto(t, "lock", "ref")
    BY <2>1 DEF IInv, TypeOK, Goto
  <2>2. CASE Goto(t, "unlock", "release")
    BY <2>2 DEF IInv, TypeOK, Goto
  <2>3. QED
    BY <2>1, <2>2 DEF LockMap
<1>2. TypeOK'
  BY <1>1 DEF IInv, TypeOK, LockMap, PC, Locking, Unlocking
<1>3. \A l \in Keys : Referrers(l)' = Referrers(l)
  BY <1>1, ReferrersSame DEF IInv, LockMap, Registered, PC, Locking, Unlocking
<1>4. \A u \in Threads : NodeOf(u)' = NodeOf(u)
  BY DEF LockMap, NodeOf
<1>5. \A u \in Threads \ {t} : pc'[u] = pc[u]
  BY <1>1 DEF IInv, TypeOK
<1>6. MapOwned'
  BY <1>1, <1>5, ThreadsAssumption DEF IInv, MapOwned, LockMap, HoldsMap
<1>7. NodesApart' /\ RefCountExact'
  BY <1>3 DEF IInv, NodesApart, RefCountExact, LockMap
<1>8. Published'
  BY <1>1, <1>3, <1>4, <1>5 DEF IInv, TypeOK, Published, Registered, LockMap
<1>9. Accounted'
  BY <1>1, <1>3, <1>5 DEF IInv, Accounted, LockMap
<1>10. NodeKnown' /\ OwnsNode'
  BY <1>1, <1>4, <1>5 DEF IInv, NodeKnown, OwnsNode, Owning, LockMap
<1>11. QED
  BY <1>2, <1>6, <1>7, <1>8, <1>9, <1>10 DEF IInv

LEMMA BeginInsertKeepsIInv ==
    ASSUME IInv, NEW t \in Threads, BeginInsert(t)
    PROVE  IInv'
<1>1. pc[t] = "ref" /\ pc' = [pc EXCEPT ![t] = "inserting"] /\ pc'[t] = "inserting"
  BY DEF IInv, TypeOK, BeginInsert, Goto
<1>2. TypeOK'
  BY <1>1 DEF IInv, TypeOK, BeginInsert, PC, Locking
<1>3. \A l \in Keys : Referrers(l)' = Referrers(l)
  BY <1>1, ReferrersSame DEF IInv, BeginInsert, Registered, PC, Locking
<1>4. \A u \in Threads : NodeOf(u)' = NodeOf(u)
  BY DEF BeginInsert, NodeOf
<1>5. \A u \in Threads \ {t} : pc'[u] = pc[u]
  BY <1>1 DEF IInv, TypeOK
<1>6. MapOwned'
  BY <1>1, <1>5 DEF IInv, MapOwned, BeginInsert, HoldsMap
<1>7. NodesApart' /\ RefCountExact'
  BY <1>3 DEF IInv, NodesApart, RefCountExact, BeginInsert
<1>8. Published'
  BY <1>1, <1>3, <1>4, <1>5 DEF IInv, TypeOK, Published, Registered, BeginInsert
<1>9. Accounted'
  BY <1>1, <1>3, <1>5 DEF IInv, TypeOK, Accounted, BeginInsert, NodeOf
<1>10. NodeKnown' /\ OwnsNode'
  BY <1>1, <1>4, <1>5 DEF IInv, NodeKnown, OwnsNode, Owning, BeginInsert
<1>11. QED
  BY <1>2, <1>6, <1>7, <1>8, <1>9, <1>10 DEF IInv

LEMMA EndInsertKeepsIInv ==
    ASSUME IInv, NEW t \in Threads, EndInsert(t)
    PROVE  IInv'
<1>1. PICK n \in Nodes :
        /\ ~ InMap(n)
        /\ mutmap' = [mutmap EXCEPT ![key[t]] = n]
        /\ owner' = [owner EXCEPT ![n] = NoThread]
        /\ refs' = [refs EXCEPT ![n] = 0]
  BY DEF EndInsert
<1>2. pc[t] = "inserting" /\ pc' = [pc EXCEPT ![t] = "ref"] /\ pc'[t] = "ref"
  BY DEF IInv, TypeOK, EndInsert, Goto
<1>3. UNCHANGED <<left, key, node, mapm, segv>>
  BY DEF EndInsert
<1>4. TypeOK'
  BY <1>1, <1>2, <1>3 DEF IInv, TypeOK, PC, Locking
<1>5. \A l \in Keys : Referrers(l)' = Referrers(l)
  BY <1>2, <1>3, ReferrersSame DEF IInv, Registered, PC, Locking
<1>6. \A u \in Threads \ {t} : pc'[u] = pc[u]
  BY <1>2 DEF IInv, TypeOK
<1>7. /\ key[t] \in Keys /\ mutmap[key[t]] = Null /\ mutmap'[key[t]] = n
      /\ \A l \in Keys \ {key[t]} : mutmap'[l] = mutmap[l] /\ mutmap[l] # n
  BY <1>1, <1>2 DEF IInv, TypeOK, Published, NodeOf, InMap
<1>8. Referrers(key[t]) = {}
  BY <1>7 DEF IInv, Published, Referrers, NodeOf
<1>9. MapOwned'
  BY <1>2, <1>3, <1>6 DEF IInv, MapOwned, HoldsMap
<1>10. NodesApart'
  BY <1>7 DEF IInv, NodesApart
<1>11. RefCountExact'
  <2>1. refs'[n] = 0 /\ \A m \in Nodes \ {n} : refs'[m] = refs[m]
    BY <1>1 DEF IInv, TypeOK
  <2>2. SUFFICES ASSUME NEW l \in Keys, mutmap'[l] # Null
                 PROVE  refs'[mutmap'[l]] = Cardinality(Referrers(l)')
    BY DEF RefCountExact
  <2>3. CASE l = key[t]
    BY <1>5, <1>7, <1>8, <2>1, <2>3, FS_EmptySet
  <2>4. CASE l # key[t]
    BY <1>5, <1>7, <2>1, <2>2, <2>4 DEF IInv, TypeOK, RefCountExact
  <2>5. QED
    BY <2>3, <2>4
<1>12. Published'
  <2>1. SUFFICES ASSUME NEW u \in Threads
                 PROVE /\ pc'[u] \in Registered => mutmap'[key[u]] # Null
                       /\ pc'[u] = "inserting" => mutmap'[key[u]] = Null
                       /\ pc'[u] = "erasing" => mutmap'[key[u]] # Null
                                                /\ Referrers(key[u])' = {}
    BY <1>3 DEF Published, NodeOf
  <2>2. key[u] \in Keys /\ n # Null
    BY NodesAssumption DEF IInv, TypeOK
  <2>3. CASE u = t
    BY <1>2, <2>3 DEF Registered
  <2>4. CASE u # t
    <3>1. pc[u] # "inserting" /\ pc[u] # "erasing"
      BY <1>2, <2>4 DEF IInv, MapOwned, HoldsMap
    <3>2. QED
      BY <1>6, <1>7, <2>2, <2>4, <3>1 DEF IInv, Published, NodeOf
  <2>5. QED
    BY <2>3, <2>4
<1>13. Accounted'
  BY <1>2, <1>3, <1>5, <1>6, <1>7 DEF IInv, Accounted
<1>14. \A u \in Threads : pc'[u] \in {"wait"} \cup Owning =>
         /\ pc[u] = pc'[u]
         /\ NodeOf(u)' = NodeOf(u)
         /\ NodeOf(u) # n /\ NodeOf(u) \in Nodes
  BY <1>2, <1>3, <1>6, <1>7 DEF IInv, TypeOK, Published, NodeOf, Registered, Owning
<1>15. NodeKnown'
  BY <1>3, <1>14 DEF IInv, NodeKnown
<1>16. OwnsNode'
  BY <1>1, <1>14 DEF IInv, TypeOK, OwnsNode
<1>17. QED
  BY <1>4, <1>9, <1>10, <1>11, <1>12, <1>13, <1>15, <1>16 DEF IInv

LEMMA AddRefKeepsIInv ==
    ASSUME IInv, NEW t \in Threads, AddRef(t)
    PROVE  IInv'
<1>1. pc[t] = "ref" /\ pc' = [pc EXCEPT ![t] = "find"] /\ pc'[t] = "find"
  BY DEF IInv, TypeOK, AddRef, Goto
<1>2. /\ \A l \in Keys \ {key[t]} : Referrers(l)' = Referrers(l)
      /\ Referrers(key[t])' = Referrers(key[t]) \cup {t}
      /\ Cardinality(Referrers(key[t])') = Cardinality(Referrers(key[t])) + 1
  BY ReferrersAdded DEF IInv, AddRef
<1>3. \A u \in Threads : NodeOf(u)' = NodeOf(u)
  BY DEF AddRef, NodeOf
<1>4. \A u \in Threads \ {t} : pc'[u] = pc[u]
  BY <1>1 DEF IInv, TypeOK
<1>5. key[t] \in Keys /\ mutmap[key[t]] # Null /\ mutmap[key[t]] \in Nodes
  BY DEF IInv, TypeOK, AddRef, NodeOf
<1>6. TypeOK'
  BY <1>1, <1>5 DEF IInv, TypeOK, AddRef, PC, Locking, NodeOf
<1>7. MapOwned'
  BY <1>1, <1>4, ThreadsAssumption DEF IInv, MapOwned, AddRef, HoldsMap
<1>8. NodesApart'
  BY DEF IInv, NodesApart, AddRef
<1>9. RefCountExact'
  <2>1. /\ refs'[mutmap[key[t]]] = refs[mutmap[key[t]]] + 1
        /\ \A n \in Nodes \ {mutmap[key[t]]} : refs'[n] = refs[n]
        /\ mutmap' = mutmap
    BY <1>5 DEF IInv, TypeOK, AddRef, NodeOf
  <2>2. SUFFICES ASSUME NEW l \in Keys, mutmap[l] # Null
                 PROVE  refs'[mutmap[l]] = Cardinality(Referrers(l)')
    BY <2>1 DEF RefCountExact
  <2>3. CASE l = key[t]
    BY <1>2, <2>1, <2>2, <2>3 DEF IInv, RefCountExact, AddRef
  <2>4. CASE l # key[t]
    BY <1>2, <1>5, <2>1, <2>2, <2>4 DEF IInv, TypeOK, RefCountExact, NodesApart
  <2>5. QED
    BY <2>3, <2>4
<1>10. Published'
  <2>1. \A u \in Threads : pc'[u] \notin {"inserting", "erasing"}
    BY <1>1, <1>4 DEF IInv, MapOwned, HoldsMap
  <2>2. \A u \in Threads : pc'[u] \in Registered => NodeOf(u)' # Null
    BY <1>3, <1>4, <1>5 DEF IInv, Published, NodeOf
  <2>3. QED
    BY <2>1, <2>2 DEF Published
<1>11. Accounted'
  BY <1>1, <1>2, <1>4 DEF IInv, Accounted, AddRef
<1>12. NodeKnown' /\ OwnsNode'
  BY <1>1, <1>3, <1>4 DEF IInv, NodeKnown, OwnsNode, Owning, AddRef
<1>13. QED
  BY <1>6, <1>7, <1>8, <1>9, <1>10, <1>11, <1>12 DEF IInv

\* A thread that refers to its key finds the node: only a race makes it miss.
LEMMA FindKeepsIInv ==
    ASSUME IInv, NEW t \in Threads, Find(t)
    PROVE  IInv'
<1>1. pc[t] = "find" /\ pc' = [pc EXCEPT ![t] = "wait"] /\ pc'[t] = "wait"
  BY DEF IInv, TypeOK, Find, Goto
<1>2. key[t] \in Keys /\ NodeOf(t) \in Nodes \cup {Null}
  BY DEF IInv, TypeOK, NodeOf
<1>3. segv' \in BOOLEAN
  BY DEF Find
<1>4. TypeOK'
  BY <1>1, <1>2, <1>3 DEF IInv, TypeOK, Find, PC, Locking
<1>5. \A l \in Keys : Referrers(l)' = Referrers(l)
  BY <1>1, ReferrersSame DEF IInv, Find, Registered, PC, Locking
<1>6. \A u \in Threads : NodeOf(u)' = NodeOf(u)
  BY DEF Find, NodeOf
<1>7. \A u \in Threads \ {t} : pc'[u] = pc[u] /\ node'[u] = node[u]
  BY <1>1 DEF IInv, TypeOK, Find
<1>8. MapOwned'
  BY <1>1, <1>7 DEF IInv, MapOwned, Find, HoldsMap
<1>9. NodesApart' /\ RefCountExact'
  BY <1>5 DEF IInv, NodesApart, RefCountExact, Find
<1>10. Published'
  BY <1>1, <1>5, <1>6, <1>7 DEF IInv, TypeOK, Published, Registered, Find
<1>11. Accounted'
  BY <1>1, <1>5, <1>7 DEF IInv, Accounted, Find
<1>12. NodeKnown' /\ OwnsNode'
  <2>1. node'[t] = NodeOf(t)
    BY DEF IInv, TypeOK, Find
  <2>2. QED
    BY <1>1, <1>6, <1>7, <2>1 DEF IInv, NodeKnown, OwnsNode, Owning, Find
<1>13. QED
  BY <1>4, <1>8, <1>9, <1>10, <1>11, <1>12 DEF IInv

LEMMA FindMissesKeepsIInv ==
    ASSUME IInv, NEW t \in Threads, FindMisses(t)
    PROVE  IInv'
<1>1. UNCHANGED <<pc, left, key, node, mapm, mutmap, owner, refs>> /\ segv' \in BOOLEAN
  BY DEF FindMisses
<1>2. TypeOK'
  BY <1>1 DEF IInv, TypeOK
<1>3. \A k \in Keys : Referrers(k)' = Referrers(k)
  BY <1>1 DEF Referrers
<1>4. \A u \in Threads : NodeOf(u)' = NodeOf(u)
  BY <1>1 DEF NodeOf
<1>5. MapOwned' /\ NodesApart' /\ RefCountExact' /\ Accounted'
  BY <1>1, <1>3 DEF IInv, MapOwned, NodesApart, RefCountExact, Accounted
<1>6. Published' /\ NodeKnown' /\ OwnsNode'
  BY <1>1, <1>3, <1>4 DEF IInv, TypeOK, Published, NodeKnown, OwnsNode
<1>7. QED
  BY <1>2, <1>5, <1>6 DEF IInv

LEMMA LockMutexKeepsIInv ==
    ASSUME IInv, NEW t \in Threads, LockMutex(t)
    PROVE  IInv'
<1>1. pc[t] = "wait" /\ pc' = [pc EXCEPT ![t] = "inside"] /\ pc'[t] = "inside"
  BY DEF IInv, TypeOK, LockMutex, Goto
<1>2. node[t] = NodeOf(t) /\ NodeOf(t) \in Nodes
  BY <1>1 DEF IInv, TypeOK, NodeKnown, Published, Registered, NodeOf
<1>3. /\ owner[NodeOf(t)] = NoThread
      /\ owner'[NodeOf(t)] = t
      /\ \A n \in Nodes \ {NodeOf(t)} : owner'[n] = owner[n]
  BY <1>2 DEF IInv, TypeOK, LockMutex
<1>4. TypeOK'
  BY <1>1, <1>2 DEF IInv, TypeOK, LockMutex, PC
<1>5. \A l \in Keys : Referrers(l)' = Referrers(l)
  BY <1>1, ReferrersSame DEF IInv, LockMutex, Registered, PC
<1>6. \A u \in Threads : NodeOf(u)' = NodeOf(u)
  BY DEF LockMutex, NodeOf
<1>7. \A u \in Threads \ {t} : pc'[u] = pc[u]
  BY <1>1 DEF IInv, TypeOK
<1>8. MapOwned'
  BY <1>1, <1>7 DEF IInv, MapOwned, LockMutex, HoldsMap
<1>9. NodesApart' /\ RefCountExact'
  BY <1>5 DEF IInv, NodesApart, RefCountExact, LockMutex
<1>10. Published'
  BY <1>1, <1>5, <1>6, <1>7 DEF IInv, TypeOK, Published, Registered, LockMutex
<1>11. Accounted'
  BY <1>1, <1>5, <1>7 DEF IInv, Accounted, LockMutex
<1>12. NodeKnown'
  BY <1>1, <1>6, <1>7 DEF IInv, NodeKnown, Owning, LockMutex
<1>13. OwnsNode'
  <2>1. \A u \in Threads : pc'[u] \in Owning => NodeOf(u) \in Nodes
    BY <1>1, <1>2, <1>7 DEF IInv, TypeOK, Published, NodeOf, Owning, Registered
  <2>2. ASSUME NEW u \in Threads \ {t}, pc'[u] \in Owning
        PROVE  owner'[NodeOf(u)] = u
    BY <1>3, <1>7, <2>1, <2>2, ThreadsAssumption DEF IInv, OwnsNode
  <2>3. QED
    BY <1>3, <1>6, <2>2 DEF OwnsNode
<1>14. QED
  BY <1>4, <1>8, <1>9, <1>10, <1>11, <1>12, <1>13 DEF IInv

LEMMA DestructKeepsIInv ==
    ASSUME IInv, NEW t \in Threads, Destruct(t)
    PROVE  IInv'
<1>1. pc[t] = "inside" /\ pc' = [pc EXCEPT ![t] = "unlock"] /\ pc'[t] = "unlock"
  BY DEF IInv, TypeOK, Destruct, Goto
<1>2. TypeOK'
  BY <1>1 DEF IInv, TypeOK, Destruct, PC, Unlocking
<1>3. \A l \in Keys : Referrers(l)' = Referrers(l)
  BY <1>1, ReferrersSame DEF IInv, Destruct, Registered, PC, Unlocking
<1>4. \A u \in Threads : NodeOf(u)' = NodeOf(u)
  BY DEF Destruct, NodeOf
<1>5. \A u \in Threads \ {t} : pc'[u] = pc[u]
  BY <1>1 DEF IInv, TypeOK
<1>6. MapOwned'
  BY <1>1, <1>5 DEF IInv, MapOwned, Destruct, HoldsMap
<1>7. NodesApart' /\ RefCountExact'
  BY <1>3 DEF IInv, NodesApart, RefCountExact, Destruct
<1>8. Published'
  BY <1>1, <1>3, <1>4, <1>5 DEF IInv, TypeOK, Published, Registered, Destruct
<1>9. Accounted'
  BY <1>1, <1>3, <1>5 DEF IInv, Accounted, Destruct
<1>10. NodeKnown' /\ OwnsNode'
  BY <1>1, <1>4, <1>5 DEF IInv, NodeKnown, OwnsNode, Owning, Destruct
<1>11. QED
  BY <1>2, <1>6, <1>7, <1>8, <1>9, <1>10 DEF IInv

\* Whoever owns the mutex of the same node is in the code of the same key.
LEMMA UnlockMutexKeepsIInv ==
    ASSUME IInv, NEW t \in Threads, UnlockMutex(t)
    PROVE  IInv'
<1>1. pc[t] = "release"
  BY DEF UnlockMutex, Goto
<1>2. NodeOf(t) # Null /\ NodeOf(t) \in Nodes /\ owner[NodeOf(t)] = t
  BY <1>1 DEF IInv, TypeOK, Published, OwnsNode, NodeOf, Registered, Owning
<1>3. /\ pc' = [pc EXCEPT ![t] = "deref"] /\ pc'[t] = "deref"
      /\ owner' = [owner EXCEPT ![NodeOf(t)] = NoThread]
  BY <1>2 DEF IInv, TypeOK, UnlockMutex, Goto
<1>4. TypeOK'
  BY <1>2, <1>3 DEF IInv, TypeOK, UnlockMutex, PC, Unlocking
<1>5. \A l \in Keys : Referrers(l)' = Referrers(l)
  BY <1>1, <1>3, ReferrersSame DEF IInv, UnlockMutex, Registered, PC, Unlocking
<1>6. \A u \in Threads : NodeOf(u)' = NodeOf(u)
  BY DEF UnlockMutex, NodeOf
<1>7. \A u \in Threads \ {t} : pc'[u] = pc[u]
  BY <1>3 DEF IInv, TypeOK
<1>8. MapOwned'
  BY <1>1, <1>3, <1>7 DEF IInv, MapOwned, UnlockMutex, HoldsMap
<1>9. NodesApart' /\ RefCountExact'
  BY <1>5 DEF IInv, NodesApart, RefCountExact, UnlockMutex
<1>10. Published'
  BY <1>1, <1>3, <1>5, <1>6, <1>7 DEF IInv, TypeOK, Published, Registered, UnlockMutex
<1>11. Accounted'
  BY <1>1, <1>3, <1>5, <1>7 DEF IInv, Accounted, UnlockMutex
<1>12. NodeKnown'
  BY <1>1, <1>3, <1>6, <1>7 DEF IInv, NodeKnown, Owning, UnlockMutex
<1>13. OwnsNode'
  <2>1. ASSUME NEW u \in Threads, pc'[u] \in Owning
        PROVE  owner'[NodeOf(u)] = u
    <3>1. u # t /\ pc[u] \in Owning
      BY <1>3, <1>7, <2>1 DEF Owning
    <3>2. NodeOf(u) \in Nodes /\ owner[NodeOf(u)] = u
      BY <3>1 DEF IInv, TypeOK, Published, OwnsNode, NodeOf, Owning, Registered
    <3>3. QED
      BY <1>2, <1>3, <3>1, <3>2 DEF IInv, TypeOK
  <2>2. QED
    BY <1>6, <2>1 DEF OwnsNode
<1>14. QED
  BY <1>4, <1>8, <1>9, <1>10, <1>11, <1>12, <1>13 DEF IInv

\* The count tells whether the thread that leaves is the last one.
LEMMA DropRefKeepsIInv ==
    ASSUME IInv, NEW t \in Threads, DropRef(t)
    PROVE  IInv'
<1>1. /\ key[t] \in Keys /\ NodeOf(t) = mutmap[key[t]]
      /\ NodeOf(t) # Null /\ NodeOf(t) \in Nodes
  BY DEF IInv, TypeOK, DropRef, Goto, Published, Registered, NodeOf
<1>2. refs[NodeOf(t)] = Cardinality(Referrers(key[t]))
  BY <1>1 DEF IInv, RefCountExact
<1>3. PICK to \in {"erasing", "unlockmap"} :
        /\ Goto(t, "deref", to)
        /\ to = "erasing" <=> Cardinality(Referrers(key[t])) = 1
  BY <1>2 DEF DropRef
<1>4. UNCHANGED <<left, key, node, mapm, mutmap, owner, segv>>
  BY DEF DropRef
<1>5. /\ \A l \in Keys \ {key[t]} : Referrers(l)' = Referrers(l)
      /\ Referrers(key[t])' = Referrers(key[t]) \ {t}
      /\ Cardinality(Referrers(key[t])') = Cardinality(Referrers(key[t])) - 1
      /\ Cardinality(Referrers(key[t])) \in Nat \ {0}
      /\ Cardinality(Referrers(key[t])) = 1 <=> Referrers(key[t])' = {}
  BY <1>3, <1>4, ReferrersRemoved DEF IInv
<1>6. pc[t] = "deref" /\ pc' = [pc EXCEPT ![t] = to] /\ pc'[t] = to
  BY <1>3 DEF IInv, TypeOK, Goto
<1>7. \A u \in Threads \ {t} : pc'[u] = pc[u]
  BY <1>6 DEF IInv, TypeOK
<1>8. \A u \in Threads : NodeOf(u)' = NodeOf(u)
  BY <1>4 DEF NodeOf
<1>9. /\ refs' = [refs EXCEPT ![NodeOf(t)] = @ - 1]
      /\ refs'[NodeOf(t)] = refs[NodeOf(t)] - 1 /\ refs'[NodeOf(t)] \in Nat
      /\ \A n \in Nodes \ {NodeOf(t)} : refs'[n] = refs[n]
  BY <1>1, <1>2, <1>5 DEF IInv, TypeOK, DropRef
<1>10. TypeOK'
  BY <1>4, <1>6, <1>9 DEF IInv, TypeOK, PC, Unlocking
<1>11. MapOwned'
  BY <1>4, <1>6, <1>7 DEF IInv, MapOwned, HoldsMap
<1>12. NodesApart'
  BY <1>4 DEF IInv, NodesApart
<1>13. RefCountExact'
  <2>1. SUFFICES ASSUME NEW l \in Keys, mutmap[l] # Null
                 PROVE  refs'[mutmap[l]] = Cardinality(Referrers(l)')
    BY <1>4 DEF RefCountExact
  <2>2. CASE l = key[t]
    BY <1>1, <1>2, <1>4, <1>5, <1>9, <2>2
  <2>3. CASE l # key[t]
    BY <1>1, <1>5, <1>9, <2>1, <2>3 DEF IInv, TypeOK, RefCountExact, NodesApart
  <2>4. QED
    BY <2>2, <2>3
<1>14. Published'
  <2>1. ASSUME NEW u \in Threads
        PROVE  /\ pc'[u] \in Registered => NodeOf(u)' # Null
               /\ pc'[u] = "inserting" => NodeOf(u)' = Null
    BY <1>6, <1>7, <1>8 DEF IInv, Published, Registered
  <2>2. ASSUME NEW u \in Threads, pc'[u] = "erasing"
        PROVE  NodeOf(u)' # Null /\ Referrers(key[u])' = {}
    <3>1. u = t
      BY <1>6, <1>7, <2>2 DEF IInv, MapOwned, HoldsMap
    <3>2. QED
      BY <1>1, <1>3, <1>5, <1>6, <1>8, <2>2, <3>1
  <2>3. QED
    BY <2>1, <2>2 DEF Published
<1>15. Accounted'
  <2>1. SUFFICES ASSUME NEW l \in Keys, mutmap[l] # Null, Referrers(l)' = {}
                 PROVE  \E u \in Threads : pc'[u] \in {"ref", "erasing"} /\ key[u] = l
    BY <1>4 DEF Accounted
  <2>2. CASE l = key[t]
    BY <1>3, <1>4, <1>5, <1>6, <2>1, <2>2
  <2>3. CASE l # key[t]
    BY <1>5, <1>6, <1>7, <2>1, <2>3 DEF IInv, Accounted
  <2>4. QED
    BY <2>2, <2>3
<1>16. NodeKnown' /\ OwnsNode'
  BY <1>4, <1>6, <1>7, <1>8 DEF IInv, NodeKnown, OwnsNode, Owning
<1>17. QED
  BY <1>10, <1>11, <1>12, <1>13, <1>14, <1>15, <1>16 DEF IInv

\* Nobody refers to the key whose node is erased.
LEMMA EraseKeepsIInv ==
    ASSUME IInv, NEW t \in Threads, Erase(t)
    PROVE  IInv'
<1>1. /\ pc[t] = "erasing" /\ pc' = [pc EXCEPT ![t] = "unlockmap"]
      /\ pc'[t] = "unlockmap"
  BY DEF IInv, TypeOK, Erase, Goto
<1>2. UNCHANGED <<left, key, node, mapm, owner, refs, segv>>
  BY DEF Erase
<1>3. TypeOK'
  BY <1>1, <1>2 DEF IInv, TypeOK, Erase, PC, Unlocking
<1>4. \A l \in Keys : Referrers(l)' = Referrers(l)
  BY <1>1, <1>2, ReferrersSame DEF IInv, Registered, PC, Unlocking
<1>5. \A u \in Threads \ {t} : pc'[u] = pc[u]
  BY <1>1 DEF IInv, TypeOK
<1>6. /\ key[t] \in Keys /\ Referrers(key[t]) = {} /\ mutmap'[key[t]] = Null
      /\ \A l \in Keys \ {key[t]} : mutmap'[l] = mutmap[l]
  BY <1>1 DEF IInv, TypeOK, Erase, Published
<1>7. \A u \in Threads : pc[u] \in Registered => key[u] # key[t]
  BY <1>6 DEF Referrers
<1>8. \A u \in Threads : pc[u] \in Registered => NodeOf(u)' = NodeOf(u)
  BY <1>2, <1>6, <1>7 DEF IInv, TypeOK, NodeOf
<1>9. MapOwned'
  BY <1>1, <1>2, <1>5 DEF IInv, MapOwned, HoldsMap
<1>10. NodesApart' /\ RefCountExact'
  BY <1>2, <1>4, <1>6 DEF IInv, NodesApart, RefCountExact
<1>11. Published'
  <2>1. \A u \in Threads : pc'[u] \notin {"inserting", "erasing"}
    BY <1>1, <1>5 DEF IInv, MapOwned, HoldsMap
  <2>2. \A u \in Threads : pc'[u] \in Registered => NodeOf(u)' # Null
    BY <1>1, <1>5, <1>8 DEF IInv, Published, Registered
  <2>3. QED
    BY <2>1, <2>2 DEF Published
<1>12. Accounted'
  BY <1>1, <1>2, <1>4, <1>5, <1>6 DEF IInv, Accounted
<1>13. NodeKnown' /\ OwnsNode'
  BY <1>1, <1>2, <1>5, <1>8 DEF IInv, NodeKnown, OwnsNode, Owning, Registered
<1>14. QED
  BY <1>3, <1>9, <1>10, <1>11, <1>12, <1>13 DEF IInv

LEMMA UnlockMapKeepsIInv ==
    ASSUME IInv, NEW t \in Threads, UnlockMap(t)
    PROVE  IInv'
<1>1. /\ pc[t] = "unlockmap" /\ pc' = [pc EXCEPT ![t] = "idle"] /\ pc'[t] = "idle"
  BY DEF IInv, TypeOK, UnlockMap, Goto
<1>2. TypeOK'
  BY <1>1 DEF IInv, TypeOK, UnlockMap, PC
<1>3. \A l \in Keys : Referrers(l)' = Referrers(l)
  BY <1>1, ReferrersSame DEF IInv, UnlockMap, Registered, PC
<1>4. \A u \in Threads : NodeOf(u)' = NodeOf(u)
  BY DEF UnlockMap, NodeOf
<1>5. \A u \in Threads \ {t} : pc'[u] = pc[u] /\ node'[u] = node[u]
  BY <1>1 DEF IInv, TypeOK, UnlockMap
<1>6. MapOwned'
  BY <1>1, <1>5, ThreadsAssumption DEF IInv, MapOwned, UnlockMap, HoldsMap
<1>7. NodesApart' /\ RefCountExact'
  BY <1>3 DEF IInv, NodesApart, RefCountExact, UnlockMap
<1>8. Published'
  BY <1>1, <1>3, <1>4, <1>5 DEF IInv, TypeOK, Published, Registered, UnlockMap
<1>9. Accounted'
  BY <1>1, <1>3, <1>5 DEF IInv, Accounted, UnlockMap
<1>10. NodeKnown' /\ OwnsNode'
  BY <1>1, <1>4, <1>5 DEF IInv, NodeKnown, OwnsNode, Owning, UnlockMap
<1>11. QED
  BY <1>2, <1>6, <1>7, <1>8, <1>9, <1>10 DEF IInv

LEMMA NextKeepsIInv == IInv /\ [Next]_vars => IInv'
<1>1. SUFFICES ASSUME IInv, [Next]_vars PROVE IInv'
  OBVIOUS
<1>2. ASSUME NEW t \in Threads, Step(t) PROVE IInv'
  BY <1>1, <1>2, ConstructKeepsIInv, LockMapKeepsIInv, BeginInsertKeepsIInv,
     EndInsertKeepsIInv, AddRefKeepsIInv, FindKeepsIInv, FindMissesKeepsIInv,
     LockMutexKeepsIInv, DestructKeepsIInv, UnlockMutexKeepsIInv,
     DropRefKeepsIInv, EraseKeepsIInv, UnlockMapKeepsIInv DEF Step
<1>3. CASE UNCHANGED vars
  <2>1. \A k \in Keys : Referrers(k)' = Referrers(k)
    BY <1>3 DEF vars, Referrers
  <2>2. \A t \in Threads : NodeOf(t)' = NodeOf(t)
    BY <1>3 DEF vars, NodeOf
  <2>3. QED
    BY <1>1, <1>3, <2>1, <2>2 DEF vars, IInv, TypeOK, MapOwned, NodesApart,
       Published, RefCountExact, Accounted, NodeKnown, OwnsNode
<1>4. QED
  BY <1>1, <1>2, <1>3 DEF Next

THEOREM Invariance == Spec => []IInv
  BY InitIInv, NextKeepsIInv, PTL DEF Spec

-------------------------------------------------------------------------------

\* Every variable stays in its range, whatever the number of threads and keys:
\* no reference count of the map goes below zero.
THEOREM TypeCorrect == Spec => []TypeOK
<1>1. IInv => TypeOK
  BY DEF IInv
<1>2. QED
  BY <1>1, Invariance, PTL

\* The reference count of a published mutex is the number of threads between
\* the increment in lock() and the decrement in unlock().
THEOREM CountsAreExact == Spec => []RefCountExact
<1>1. IInv => RefCountExact
  BY DEF IInv
<1>2. QED
  BY <1>1, Invariance, PTL

\* A mutex that a thread waits for or owns is never erased, and its node never
\* serves another key.
THEOREM NeverDangling == Spec => []NoDanglingMutex
<1>1. IInv => NoDanglingMutex
  BY DEF IInv, NoDanglingMutex, NodeKnown, Published, Registered, Owning
<1>2. QED
  BY <1>1, Invariance, PTL

\* The map holds no node that nobody refers to, so it does not grow.
THEOREM MapStaysMinimal == Spec => []MapIsMinimal
<1>1. ASSUME IInv PROVE MapIsMinimal
  <2>1. SUFFICES ASSUME mapm = NoThread, NEW k \in Keys
                 PROVE  mutmap[k] # Null <=> Referrers(k) # {}
    BY DEF MapIsMinimal
  <2>2. \A t \in Threads : pc[t] \notin {"ref", "erasing"}
    BY <1>1, <2>1, ThreadsAssumption DEF IInv, MapOwned, HoldsMap
  <2>3. mutmap[k] # Null => Referrers(k) # {}
    BY <1>1, <2>2 DEF IInv, Accounted
  <2>4. Referrers(k) # {} => mutmap[k] # Null
    BY <1>1 DEF IInv, Published, Referrers, NodeOf
  <2>5. QED
    BY <2>3, <2>4
<1>2. QED
  BY <1>1, Invariance, PTL

-------------------------------------------------------------------------------

\* At most one thread is inside the code of a key.
LEMMA AtMostOneInside ==
    ASSUME IInv, NEW k \in Keys, NEW t \in Inside[k], NEW u \in Inside[k]
    PROVE  t = u
  BY DEF IInv, Inside, OwnsNode, NodeOf

\* Only the steps that lock and unlock the mutex of a node move the threads that
\* are inside.
LEMMA InsideSame ==
    ASSUME IInv, NEW t \in Threads, NEW from \in PC, NEW to \in PC,
           Goto(t, from, to), from \in Owning <=> to \in Owning,
           from \in Owning => key' = key,
           \A u \in Threads \ {t} : key'[u] = key[u]
    PROVE  UNCHANGED Inside
  BY DEF IInv, TypeOK, Goto, Inside

LEMMA LockMutexEnters ==
    ASSUME IInv, NEW t \in Threads, LockMutex(t)
    PROVE  Promise!Enter(t, key[t])
<1>1. pc[t] = "wait" /\ pc' = [pc EXCEPT ![t] = "inside"] /\ key' = key
  BY DEF LockMutex, Goto
<1>2. key[t] \in Keys /\ node[t] = NodeOf(t)
  BY <1>1 DEF IInv, TypeOK, NodeKnown
<1>3. Inside[key[t]] = {}
  <2>1. SUFFICES ASSUME NEW u \in Threads, pc[u] \in Owning, key[u] = key[t]
                 PROVE  FALSE
    BY <1>2 DEF Inside
  <2>2. owner[NodeOf(t)] = u /\ owner[NodeOf(t)] = NoThread
    BY <1>2, <2>1 DEF IInv, OwnsNode, NodeOf, LockMutex
  <2>3. QED
    BY <2>2, ThreadsAssumption
<1>4. Inside' = [Inside EXCEPT ![key[t]] = {t}]
  <2>1. ASSUME NEW k \in Keys
        PROVE  Inside'[k] = IF k = key[t] THEN Inside[k] \cup {t} ELSE Inside[k]
    BY <1>1 DEF IInv, TypeOK, Inside, Owning
  <2>2. /\ Inside = [k \in Keys |-> Inside[k]]
        /\ Inside' = [k \in Keys |-> Inside'[k]]
    BY DEF Inside
  <2>3. QED
    BY <1>2, <1>3, <2>1, <2>2
<1>5. QED
  BY <1>3, <1>4 DEF Promise!Enter

LEMMA UnlockMutexLeaves ==
    ASSUME IInv, NEW t \in Threads, UnlockMutex(t)
    PROVE  Promise!Leave(t, key[t])
<1>1. pc[t] = "release" /\ key[t] \in Keys /\ NodeOf(t) # Null
  BY DEF IInv, TypeOK, UnlockMutex, Goto, Published, Registered
<1>2. pc' = [pc EXCEPT ![t] = "deref"] /\ key' = key
  BY <1>1 DEF UnlockMutex, Goto
<1>3. t \in Inside[key[t]]
  BY <1>1 DEF Inside, Owning
<1>4. Inside[key[t]] = {t}
  BY <1>1, <1>3, AtMostOneInside
<1>5. Inside' = [Inside EXCEPT ![key[t]] = {}]
  <2>1. ASSUME NEW k \in Keys
        PROVE  Inside'[k] = IF k = key[t] THEN Inside[k] \ {t} ELSE Inside[k]
    BY <1>1, <1>2 DEF IInv, TypeOK, Inside, Owning
  <2>2. /\ Inside = [k \in Keys |-> Inside[k]]
        /\ Inside' = [k \in Keys |-> Inside'[k]]
    BY DEF Inside
  <2>3. QED
    BY <1>1, <1>4, <2>1, <2>2
<1>6. QED
  BY <1>4, <1>5 DEF Promise!Leave

\* SYNCHRO implements the keyed mutex: locking the mutex of the node is entering,
\* unlocking it is leaving, and all the rest of lock() and unlock() is invisible.
THEOREM Refinement == Spec => ImplementsKeyedMutex
<1>1. Init => Promise!Init
  BY DEF Init, Promise!Init, Inside, Owning
<1>2. ASSUME IInv, [Next]_vars
      PROVE  [Promise!Next]_Inside
  <2>1. CASE UNCHANGED vars
    BY <2>1 DEF vars, Inside
  <2>2. ASSUME NEW t \in Threads, Step(t)
        PROVE  [Promise!Next]_Inside
    <3>1. CASE LockMutex(t)
      BY <1>2, <3>1, LockMutexEnters DEF Promise!Next, IInv, TypeOK
    <3>2. CASE UnlockMutex(t)
      BY <1>2, <3>2, UnlockMutexLeaves DEF Promise!Next, IInv, TypeOK
    <3>3. CASE \E k \in Keys : Construct(t, k)
      <4>1. \A u \in Threads \ {t} : key'[u] = key[u]
        BY <1>2, <3>3 DEF Construct, IInv, TypeOK
      <4>2. QED
        BY <1>2, <3>3, <4>1, InsideSame DEF Construct, Owning, PC, Locking
    <3>4. CASE LockMap(t)
      BY <1>2, <3>4, InsideSame DEF LockMap, Owning, PC, Locking, Unlocking
    <3>5. CASE BeginInsert(t) \/ EndInsert(t) \/ AddRef(t) \/ Find(t)
      BY <1>2, <3>5, InsideSame DEF BeginInsert, EndInsert, AddRef, Find, Owning,
         PC, Locking
    <3>6. CASE FindMisses(t)
      BY <3>6 DEF FindMisses, Inside
    <3>7. CASE Destruct(t)
      BY <1>2, <3>7, InsideSame DEF Destruct, Owning, PC, Unlocking
    <3>8. CASE DropRef(t) \/ Erase(t) \/ UnlockMap(t)
      BY <1>2, <3>8, InsideSame DEF DropRef, Erase, UnlockMap, Owning, PC, Unlocking
    <3>9. QED
      BY <2>2, <3>1, <3>2, <3>3, <3>4, <3>5, <3>6, <3>7, <3>8 DEF Step
  <2>3. QED
    BY <1>2, <2>1, <2>2 DEF Next
<1>3. QED
  BY <1>1, <1>2, Invariance, PTL DEF Spec, ImplementsKeyedMutex, Promise!Spec
===============================================================================
