\* Three requests of six kinds, two at a time; one statement fails or the
\* process dies.
SPECIFICATION Spec
CONSTANTS
    a = a
    b = b
    c = c
    f = f
    g = g
    art = art
    Requests = {r1, r2, r3}
    Inputs <- Mixed
    Runs <- ThreeRuns
    FirstRuns = {a, b}
    NameOf <- Names
    DisplayOf <- Displays
    Files = {f, g}
    Arts = {art}
    Unknown = Unknown
    None = None
    MaxInFlight = 2
    MaxFaults = 1
CHECK_DEADLOCK FALSE
INVARIANT FilesRecorded
INVARIANT RunMeant
INVARIANT UsesListed
