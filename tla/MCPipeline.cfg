\* One message through the conversation worker and a sender.
SPECIFICATION PipelineSpec
CONSTANTS
    m1 = m1
    w1 = w1
    s1 = s1
    NoWorker = NoWorker
    NoSender = NoSender
    Messages = {m1}
    SideKinds = {}
    QuestionReplies = {}
    Newer = {}
    Workers = {w1}
    Senders = {s1}
    MaxAttempts = 1
    MaxReceiptAttempts = 1
    MaxStalled = 0
    MaxManual = 0
    MaxSendAttempts = 1
    MaxSendStalled = 0
    MaxReplays = 0
    MaxFaults = 1
    MaxFlips = 1
CHECK_DEADLOCK FALSE
INVARIANTS OnlyAnswersAreSent ReceiptedReplyIsSendable
PROPERTY PipelineImplementsOutcome
