------------------------------ MODULE KeyedMutex ------------------------------
(***************************************************************************)
(* What a SYNCHRO object promises, whatever implements it: for every key   *)
(* (an address of data and the name of an entry point) at most one thread  *)
(* is inside the code that the key protects.                               *)
(***************************************************************************)
CONSTANTS Threads, Keys

VARIABLE inside  \* the threads that are inside the code protected by each key

Init == inside = [k \in Keys |-> {}]

Enter(t, k) == /\ inside[k] = {}
               /\ inside' = [inside EXCEPT ![k] = {t}]

Leave(t, k) == /\ inside[k] = {t}
               /\ inside' = [inside EXCEPT ![k] = {}]

Next == \E t \in Threads, k \in Keys : Enter(t, k) \/ Leave(t, k)

Spec == Init /\ [][Next]_inside
===============================================================================
