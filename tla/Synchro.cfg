\* Three threads on two keys: an owner, a waiter and a late comer of one key,
\* next to the insertion and the erasure of the other. Each thread has two
\* sections, so that a node is erased and its address used again.
CONSTANTS
    result1 = result1
    result2 = result2
    Threads = {t1, t2, t3}
    Keys <- MC_Keys
    Nodes = {n1, n2}
    NoThread = NoThread
    Null = Null
    MaxSections = 2
SPECIFICATION FairSpec
INVARIANTS
    RefCountExact
    NoDanglingMutex
PROPERTIES
    ImplementsKeyedMutex
    EveryoneGetsThrough
\* The threads end when they have gone through their sections.
CHECK_DEADLOCK FALSE
