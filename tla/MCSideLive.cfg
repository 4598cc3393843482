\* Memory extraction of one message and its follow-up: the original and a recovery job
\* may both be lost, and the employee may be inactive in between.  With survey evidence in
\* the same loop, the mark that is refused for evidence leaves memory without its mark.
SPECIFICATION FairSpec
CONSTANTS
    c1 = c1
    c2 = c2
    Messages = {1}
    Asks <- MemoryOrBoth
    Consumers = {c1}
    MaxWorkAttempts = 1
    MaxFaults = 2
    MaxFlips = 2
CHECK_DEADLOCK FALSE
ACTION_CONSTRAINT RaceAlone
PROPERTY WorkIsSettled
