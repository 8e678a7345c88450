CONSTANTS
    e2 = e2
    e1 = e1
    r2 = r2
    r1 = r1
    Relays = {r1, r2}
    Events = {e1, e2}
    Topics <- MCTopics
    TopicOf <- MCTopicOf
    Subscribers = {1}
    SubscribedTopic <- MCSubscribedTopic
    BatchSize = 2
    MaxAttempts = 2
    Undecodable = {}
    RecordMayFail = FALSE
    MaxRejections = 1
    SerializerMayThrow = TRUE
SPECIFICATION FairExampleSpec
INVARIANTS
    ExampleTypeOK
    OnlyRegistrationsAreHandled
    HandledOncePerRelay
PROPERTIES
    AnsweredIsSettled
CHECK_DEADLOCK FALSE
