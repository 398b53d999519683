\* Two CPUs, three calls, two sessions in the same directory, both strategies, all
\* faults.  Calls may hang (CallsEndUnlessLost says when) and the bounds stop the
\* rest: deadlock is not checked.
CONSTANTS
    MaxCPUs = 2
    MaxCalls = 3
    MaxSessions = 2
    Strategies = {0, 1}
    Faults = {"timeout", "crash", "close", "abort"}
    Patient = TRUE

SPECIFICATION FairSpec

CHECK_DEADLOCK FALSE

INVARIANTS
    FreshOutputs
    NobodyStillWorks
    NoTwins

PROPERTY CallsEndUnlessLost
