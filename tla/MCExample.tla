------------------------------ MODULE MCExample ------------------------------
(***************************************************************************)
(* Instance of Example for TLC: the one topic that wireExample uses.       *)
(***************************************************************************)
EXTENDS Example

MCTopics == {EventTopic, ConsumerTopic}

MCTopicOf == [e \in Events |-> EventTopic]

MCSubscribedTopic == [s \in Subscribers |-> ConsumerTopic]
=============================================================================
