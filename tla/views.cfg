\* Three requests of five kinds, two at a time, and a walk of the views or
\* of the runs, one row a page; one statement fails or the process dies.
SPECIFICATION Spec
CONSTANTS
    x = x
    y = y
    Requests = {r1, r2, r3}
    Inputs <- Mixed
    FirstViews <- TwoViews
    FirstRuns = {1, 2}
    LaterRuns = {3}
    PageSize = 1
    None = None
    MaxInFlight = 2
    MaxFaults = 1
CHECK_DEADLOCK FALSE
INVARIANT AnswersHold
INVARIANT PagesComplete
PROPERTY WalkEnds
