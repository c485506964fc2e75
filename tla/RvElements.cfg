SPECIFICATION ElementsSpec
CONSTANTS
    Payload = {p, q, r}
    None = None
    DEPTH = 3
INVARIANTS
    PointersAgree
    StalledPayloadHeld
PROPERTIES
    ImplementsQueue
    ImplementsQueueOfTwo
