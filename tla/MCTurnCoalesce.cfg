\* Two messages in one coalescing window that ask for memory extraction, one worker, an
\* employee deactivated meanwhile, single-attempt jobs and a dead-letter retry.
SPECIFICATION Spec
CONSTANTS
    m1 = m1
    m2 = m2
    w1 = w1
    w2 = w2
    NoWorker = NoWorker
    Messages <- TwoMessages
    SideKinds = {"memory_extraction"}
    QuestionReplies <- NoMessages
    Newer <- SecondIsNewer
    Workers = {w1}
    MaxAttempts = 1
    MaxReceiptAttempts = 1
    MaxStalled = 0
    MaxManual = 1
    MaxFaults = 1
    MaxFlips = 1

CHECK_DEADLOCK FALSE
INVARIANTS ReceiptJustified DispatchMatchesCommit
