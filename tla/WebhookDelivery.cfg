\* Two processes, two attempts of each item, one retry by an operator.
SPECIFICATION FairDelivery
CONSTANTS
    o1 = o1
    o2 = o2
    o3 = o3
    e1 = e1
    e2 = e2
    e3 = e3
    b1 = b1
    b2 = b2
    Deliveries <- MCDeliveries
    Outbox <- MCOutbox
    Events <- MCEvents
    Bodies <- MCBodies
    Streams <- MCStreams
    NoBody = NoBody
    Workers = {w1, w2}
    Free = Free
    None = None
    MaxSends = 2
    MaxRetries = 1
INVARIANTS
    RecordedInOrder
    NoFalseAlarm
PROPERTIES
    ItemsAreSettled
CHECK_DEADLOCK FALSE
