\* Two POSTs, one repeated, one failing statement, pages of two.
SPECIFICATION HistorySpec
CONSTANTS
    loss = loss
    acc = acc
    Posts <- TwoPosts
    Keys = {loss, acc}
    PageLength = 2
    s1 = s1
    s2 = s2
    Slots = {s1, s2}
    MaxRepeats = 1
    MaxErrors = 1
SYMMETRY Handlers
CHECK_DEADLOCK FALSE
INVARIANT ReadsComplete
INVARIANT ChartsFaithful
