\* Three requests, two at a time, one statement of which may fail, and two
\* runs that appear; both show the name of the first.
SPECIFICATION Spec
CONSTANTS
    k = k
    c1 = c1
    c2 = c2
    t = t
    n1 = n1
    n2 = n2
    Requests = {q1, q2, q3}
    Inputs <- ThreeCalls
    Clients = {k}
    Colls = {c1, c2}
    Types = {t}
    Runs = {n1, n2}
    Displays = {n1}
    None = None
    MaxInFlight = 2
    MaxFaults = 1
SYMMETRY Symmetric
CHECK_DEADLOCK FALSE
INVARIANT TypeOK
INVARIANT VersionsContiguous
INVARIANT LaterCallsGetLaterVersions
INVARIANT RetryIsDeduplicated
INVARIANT ReferentialIntegrity
PROPERTY ImplementsVersionHistory
