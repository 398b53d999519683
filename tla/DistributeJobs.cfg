\* Clusters of up to 3 nodes of up to 3 CPUs and weights 1 and 2, calls of up to 6
\* jobs counted from 1 or 2.  The computation ends: deadlock is not checked.
CONSTANTS
    MaxNodes = 3
    MaxCPUs = 3
    MaxWeight = 2
    MaxFirst = 2
    MaxJobs = 6

SPECIFICATION FairSpec

CHECK_DEADLOCK FALSE

INVARIANTS
    NeverShort
    EachJobOnce

PROPERTY Ends
