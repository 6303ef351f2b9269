\* Two files and their manifest, copied in two pieces; a timeout, a death of
\* the server, a failing statement and a PUT that breaks off.
SPECIFICATION Spec
CONSTANTS
    a = a
    b = b
    Entries <- TwoFiles
    ManifestName = m
    Size = 2
    Slots = {p1, p2}
    Readers = {d1}
    None = None
    MaxTimeouts = 1
    MaxCrashes = 1
    MaxFaults = 1
    MaxBreaks = 1
CHECK_DEADLOCK FALSE
INVARIANT CommittedComplete
INVARIANT RetriesAccepted
INVARIANT ContentWhole
PROPERTY Uploads
