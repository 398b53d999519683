\* Five jobs, two at a time; one may throw, another may find no thread.
CONSTANTS
    MaxJobs = 5
    MaxParallel = 2
    Throwing = {2}
    Failing = {4}
    Main = Main
    Free = Free
SPECIFICATION FairSpec
INVARIANTS
    CounterExact
    NoUseAfterDestroy
PROPERTIES
    ImplementsJobPool
    RunEndsUnlessLeaked
\* The program goes on after the group is destroyed.
CHECK_DEADLOCK FALSE
