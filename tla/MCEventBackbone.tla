--------------------------- MODULE MCEventBackbone ---------------------------
(***************************************************************************)
(* Instances of EventBackbone for TLC: two topics, with the events and the *)
(* consumers of the second one chosen in the cfg.                          *)
(***************************************************************************)
EXTENDS EventBackbone

CONSTANTS OtherEvents, OtherSubscribers

MCTopics == {"registered", "other"}

MCTopicOf ==
    [e \in Events |-> IF e \in OtherEvents THEN "other" ELSE "registered"]

MCSubscribedTopic ==
    [s \in Subscribers |-> IF s \in OtherSubscribers THEN "other" ELSE "registered"]
=============================================================================
