SPECIFICATION Spec
CONSTANTS
    MaxMessages = 3
    Finalizers = {1, 2}
    Mixes <- OnlyDisputesOfAll
INVARIANT DisputesCanBeClarified
CHECK_DEADLOCK FALSE
