\* One line of history that is not JSON and two of console output; a
\* timeout, a crash and a failing statement.
SPECIFICATION Spec
CONSTANTS
    Files = {"history", "log"}
    Json = {"history"}
    Lines <- OneAndTwo
    Unparsable = {1}
    Chunked = {"log"}
    Slots = {p1, p2}
    None = None
    MaxBatch = 2
    MaxRetries = 1
    MaxCrashes = 1
    MaxFaults = 1
CHECK_DEADLOCK FALSE
INVARIANT LinesKept
INVARIANT RunRowHolds
PROPERTY Delivered
