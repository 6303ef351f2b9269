\* Overlapping links, unlinks and updates; one statement fails.
SPECIFICATION Spec
CONSTANTS
    a1 = a1
    a2 = a2
    s1 = s1
    p1 = p1
    prod = prod
    None = None
    Requests = {r1, r2, r3}
    Arts = {a1, a2}
    Sequences = {s1}
    Portfolios = {p1}
    SequenceOf <- OneSequence
    VersionOf <- TwoVersions
    UserNames = {prod}
    Lists <- MissingLists
    Targets = {p1}
    Operations = {"link", "unlink", "update"}
    MaxVersion = 4
    MaxInFlight = 2
    MaxFaults = 1
SYMMETRY Symmetric
CHECK_DEADLOCK FALSE
INVARIANT AliasesHaveCollections
INVARIANT LinkedIsMember
