\* Original and recovery jobs of one reply on two senders, and a replay.
SPECIFICATION FairSendingSpec
CONSTANTS
    m1 = m1
    m2 = m2
    s1 = s1
    s2 = s2
    NoSender = NoSender
    Messages = {m1}
    SideKinds = {}
    Senders <- TwoSenders
    MaxSendAttempts = 2
    MaxSendStalled = 1
    MaxReplays = 1
    MaxFaults = 2
    MaxFlips = 1
CHECK_DEADLOCK FALSE
INVARIANTS SendingTypeOK SentAtMostOnce DeliveryRecordIsTrue
PROPERTIES SendingImplementsOutcome CommittedIsAttempted
