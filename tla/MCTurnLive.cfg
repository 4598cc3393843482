\* A timely question reply whose job, recovery job and receipt retry have one attempt.
SPECIFICATION FairSpec
CONSTANTS
    m1 = m1
    m2 = m2
    w1 = w1
    w2 = w2
    NoWorker = NoWorker
    Messages <- OneMessage
    SideKinds = {}
    QuestionReplies <- OneMessage
    Newer <- NoneNewer
    Workers = {w1}
    MaxAttempts = 1
    MaxReceiptAttempts = 1
    MaxStalled = 0
    MaxManual = 0
    MaxFaults = 2
    MaxFlips = 0
CHECK_DEADLOCK FALSE
PROPERTIES CommittedTurnIsDispatched TimelyReplyIsReceipted
