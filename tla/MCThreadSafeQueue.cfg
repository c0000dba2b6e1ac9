\* Two producers with two items each, and one or two consumers
SPECIFICATION FairSpec
CONSTANTS
    c1 = c1
    c2 = c2
    Producer = {p1, p2}
    Consumer = {c1, c2}
    NoThread = NoThread
    Uses <- MCUses
    MaxPushes = 2
\* Threads may wait for items that nobody pushes any more
CHECK_DEADLOCK FALSE
INVARIANTS
    TypeOK
    NoLostWakeup
    NeverBlocks
PROPERTIES
    ImplementsFIFO
    EveryItemReturned
