------------------------------- MODULE Example -------------------------------
(***************************************************************************)
(* wireExample, the walking skeleton: registrations that write to the      *)
(* outbox, and the event backbone that carries their events to the         *)
(* consumers, on one event loop.                                           *)
(*                                                                         *)
(* A registration generates the id of its one event, so the event stands   *)
(* for the call and for the example it creates.  RegisterExample does not  *)
(* await before it saves: from the check of the label to the append of the *)
(* event a call runs without interruption.                                 *)
(***************************************************************************)
EXTENDS EventBackbone

CONSTANT SerializerMayThrow  \* TRUE iff serializing an event may throw

(* ExampleEventTranslator gives every event the same type and version.      *)
EventTopic == [type |-> "example.example.registered", version |-> 1]

(* ExampleRegisteredConsumer's eventType and eventVersion, to which         *)
(* wireExample subscribes it.                                               *)
ConsumerTopic == [type |-> "example.example.registered", version |-> 1]

ASSUME ExampleAssumption ==
    /\ TopicOf = [e \in Events |-> EventTopic]
    /\ SubscribedTopic = [s \in Subscribers |-> ConsumerTopic]
    /\ SerializerMayThrow \in BOOLEAN

VARIABLES
    examples,  \* the repository's Map
    answer     \* how far each call has come, and how it ended

exampleVars == <<examples, answer>>

wiredVars == <<vars, exampleVars>>

Answers == {"none", "saving", "created", "refused", "rejected"}

ExampleTypeOK ==
    /\ TypeOK
    /\ examples \subseteq Events
    /\ answer \in [Events -> Answers]

-----------------------------------------------------------------------------
(* Actions                                                                  *)

ExampleInit ==
    /\ Init
    /\ examples = {}
    /\ answer = [e \in Events |-> "none"]

End(e, result) == answer' = [answer EXCEPT ![e] = result]

(* Mutant: the label is checked after the example was saved.                *)
RefuseLabel_TooLate(e) ==
    /\ answer[e] = "none"
    /\ End(e, "refused")
    /\ examples' = examples \cup {e}
    /\ Write(e)

(* The controller answers 400 for a missing or blank label.                 *)
RefuseLabel(e) ==
    /\ answer[e] = "none"
    /\ End(e, "refused")
    /\ UNCHANGED <<vars, examples>>

(* Mutant: the events are left in the aggregate.                            *)
Save_NoOutbox(e) ==
    /\ examples' = examples \cup {e}
    /\ End(e, "saving")
    /\ UNCHANGED vars

(* repository.save: the Map is set, the event is pulled, translated and     *)
(* appended.  When the serializer throws, the call rejects, the example     *)
(* stays and its event is gone.                                             *)
Save(e) ==
    /\ examples' = examples \cup {e}
    /\ \/ Write(e) /\ End(e, "saving")
       \/ SerializerMayThrow /\ End(e, "rejected") /\ UNCHANGED vars

(* The controller accepts the label, and the use case registers an          *)
(* aggregate in a unit of work that only calls its function.                *)
RegisterExample(e) ==
    /\ answer[e] = "none"
    /\ Save(e)

(* The awaited save returns and the controller answers 201.                 *)
Answer(e) ==
    /\ answer[e] = "saving"
    /\ End(e, "created")
    /\ UNCHANGED <<vars, examples>>

Registration(e) == RefuseLabel(e) \/ RegisterExample(e) \/ Answer(e)

(* A step of a caller of drainOutbox.                                       *)
Relaying(r) ==
    /\ FetchPending(r) \/ Drain(r) \/ PortRejects(r)
    /\ UNCHANGED exampleVars

ExampleNext ==
    \/ \E e \in Events : Registration(e)
    \/ \E r \in Relays : Relaying(r)

ExampleSpec == ExampleInit /\ [][ExampleNext]_wiredVars

(* A drain that was started runs on, and somebody keeps calling drainOutbox.*)
FairExampleSpec ==
    /\ ExampleSpec
    /\ \A r \in Relays :
          /\ WF_wiredVars(Drain(r) /\ UNCHANGED exampleVars)
          /\ WF_wiredVars(FetchPending(r) /\ UNCHANGED exampleVars)

-----------------------------------------------------------------------------
(* Properties                                                               *)

(* A registration that was answered 201 reaches every consumer, however     *)
(* drains overlap, reject and start again: it is handled and recorded, or   *)
(* dead-lettered (composition.ts:36-41, the end-to-end promise of the       *)
(* walking skeleton).                                                       *)
AnsweredIsSettled ==
    \A e \in Events :
        answer[e] = "created" ~> \A s \in Subscribers : e \in Settled(s)

(* What is handled or published is the event of a registration that was     *)
(* accepted and whose example is in the repository; consumers may be ahead  *)
(* of the answer.  A refused or rejected call emits nothing                 *)
(* (example.e2e.test.ts:33-39).                                             *)
OnlyRegistrationsAreHandled ==
    \A e \in Events :
        (e \in published \/ \E s \in Subscribers : handled[s][e] > 0) =>
            e \in examples /\ answer[e] \in {"saving", "created"}
=============================================================================
