\* Overlapping commits and deletions of versions, and additions, removals and
\* updates of their aliases; one statement fails.
SPECIFICATION Spec
CONSTANTS
    a1 = a1
    a2 = a2
    s1 = s1
    p1 = p1
    prod = prod
    None = None
    Requests = {r1, r2, r3}
    Arts = {a1, a2}
    Sequences = {s1}
    Portfolios = {p1}
    SequenceOf <- OneSequence
    VersionOf <- TwoVersions
    UserNames = {prod}
    Lists <- AutoLists
    Targets = {p1}
    Operations = {"commit", "remove", "delete", "update", "add"}
    MaxVersion = 1
    MaxInFlight = 3
    MaxFaults = 1
SYMMETRY Symmetric
CHECK_DEADLOCK FALSE
INVARIANT AliasesSound
INVARIANT LatestResolves
INVARIANT VersionResolves
INVARIANT OldAliasesGone
PROPERTY AliasesOfOthersStay
