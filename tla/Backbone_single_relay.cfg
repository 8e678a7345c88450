CONSTANTS
    e3 = e3
    e2 = e2
    e1 = e1
    r1 = r1
    Relays = {r1}
    Events = {e1, e2, e3}
    Topics <- MCTopics
    TopicOf <- MCTopicOf
    OtherEvents = {e3}
    Subscribers = {1, 2, 3}
    SubscribedTopic <- MCSubscribedTopic
    OtherSubscribers = {3}
    BatchSize = 2
    MaxAttempts = 2
    Undecodable = {e3}
    RecordMayFail = FALSE
    MaxRejections = 2
SPECIFICATION Spec
INVARIANTS
    DeliveredInOrder
    HandledAtMostOnce
    UndecodableBlocksOutbox
CHECK_DEADLOCK FALSE
