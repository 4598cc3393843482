\* One timely question reply, two workers that may run it at the same time, and an
\* employee who may be deactivated between them.
SPECIFICATION Spec
CONSTANTS
    m1 = m1
    m2 = m2
    w1 = w1
    w2 = w2
    NoWorker = NoWorker
    Messages <- OneMessage
    SideKinds = {}
    QuestionReplies <- OneMessage
    Newer <- NoneNewer
    Workers <- TwoWorkers
    MaxAttempts = 2
    MaxReceiptAttempts = 1
    MaxStalled = 1
    MaxManual = 0
    MaxFaults = 2
    MaxFlips = 1
SYMMETRY Symmetry
CHECK_DEADLOCK FALSE
INVARIANTS TypeOK ReceiptJustified VerdictFindsBundle
PROPERTY TurnImplementsOutcome
