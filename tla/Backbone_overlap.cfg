CONSTANTS
    e2 = e2
    e1 = e1
    r2 = r2
    r1 = r1
    Relays = {r1, r2}
    Events = {e1, e2}
    Topics <- MCTopics
    TopicOf <- MCTopicOf
    OtherEvents = {}
    Subscribers = {1}
    SubscribedTopic <- MCSubscribedTopic
    OtherSubscribers = {}
    BatchSize = 1
    MaxAttempts = 2
    Undecodable = {}
    RecordMayFail = TRUE
    MaxRejections = 1
SPECIFICATION RedrainSpec
INVARIANTS
    TypeOK
    PublishedOnlyWhenSettled
    OutcomesPerDelivery
PROPERTIES
    ImplementsDelivery
    DrainEnds
    EventuallyPublished
CHECK_DEADLOCK FALSE
