\* Three requests of fifteen kinds, two at a time; one statement fails and
\* the process dies once.
SPECIFICATION Spec
CONSTANTS
    s = s
    f = f
    n1 = n1
    n2 = n2
    n3 = n3
    t1 = t1
    t2 = t2
    g1 = g1
    g2 = g2
    Requests = {r1, r2, r3}
    Inputs <- Mixed
    Colls = {s, f}
    Kind <- KindOf
    FirstName <- NameOf
    Names = {n1, n2, n3}
    Types = {t1, t2}
    Tags = {g1, g2}
    FirstType = t1
    None = None
    MaxInFlight = 2
    MaxFaults = 1
    MaxCrashes = 1
SYMMETRY RequestSymmetry
CHECK_DEADLOCK FALSE
INVARIANT ChangesKept
INVARIANT TagsReplaced
INVARIANT ErrorsExplained
PROPERTY DeletedForGood
