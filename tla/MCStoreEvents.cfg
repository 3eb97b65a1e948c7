\* A subscriber with room for two events per channel, seven events.
CONSTANTS
    Subscribers = {s1}
    Buffer = 2
    MaxSize = 2
    MaxGen = 7
SPECIFICATION FairSpec
INVARIANTS NoSendOnClosed NoGap
PROPERTIES PumpEnds ImplementsQueue
CHECK_DEADLOCK FALSE
