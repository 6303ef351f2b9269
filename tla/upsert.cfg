\* Two starts of one run and an edit by id; a timeout, a crash and a failing
\* statement.
SPECIFICATION Spec
CONSTANTS
    r1 = r1
    r2 = r2
    r3 = r3
    r4 = r4
    admin = admin
    stranger = stranger
    n1 = n1
    uncategorized = uncategorized
    vision = vision
    None = None
    Requests = {r1, r2, r3, r4}
    Input <- SomeInputs
    Entities = {admin}
    DefaultEntity = admin
    OtherEntity = stranger
    Names = {n1}
    Models = {uncategorized, vision}
    Slots = {p1, p2}
    MaxRetries = 1
    MaxCrashes = 1
    MaxFaults = 1
SYMMETRY Symmetric
CHECK_DEADLOCK FALSE
INVARIANT TypeOK
INVARIANT OneRunPerName
INVARIANT InsertedOnce
INVARIANT AnsweredFieldsHold
INVARIANT IdMeansThatRun
