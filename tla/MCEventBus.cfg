CONSTANTS
    c1 = c1
    c2 = c2
    u1 = u1
    u2 = u2
    Consumers = {c1, c2}
    Updates = {u1, u2}
    MaxEvents = 3
SPECIFICATION FairSpec
INVARIANT Delivery
PROPERTY EventuallyDelivered
CHECK_DEADLOCK FALSE
