CONSTANTS
    e1 = e1
    r2 = r2
    r1 = r1
    Relays = {r1, r2}
    Events = {e1}
    Topics <- MCTopics
    TopicOf <- MCTopicOf
    OtherEvents = {}
    Subscribers = {1}
    SubscribedTopic <- MCSubscribedTopic
    OtherSubscribers = {}
    BatchSize = 1
    MaxAttempts = 2
    Undecodable = {}
    RecordMayFail = FALSE
    MaxRejections = 0
SPECIFICATION Spec
INVARIANTS
    HandledAtMostOnce
CHECK_DEADLOCK FALSE
