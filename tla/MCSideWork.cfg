\* Style analysis of two messages, or survey evidence and profile hydration of one, on two
\* consumers: results that come out of order or run ahead of the mark of their row.
SPECIFICATION Spec
CONSTANTS
    c1 = c1
    c2 = c2
    Messages = {1, 2}
    Asks <- StyleOrMarks
    Consumers <- TwoConsumers
    MaxWorkAttempts = 2
    MaxFaults = 2
    MaxFlips = 0
SYMMETRY Symmetry
CHECK_DEADLOCK FALSE
INVARIANTS TypeOK WorkAppliedOnce
PROPERTY StyleMovesForward
