---------------------------- MODULE ExampleProofs ----------------------------
(***************************************************************************)
(* The wired example service is an event backbone: what is proved of       *)
(* EventBackbone holds of every wiring that writes to the outbox only      *)
(* through registrations.                                                  *)
(***************************************************************************)
EXTENDS Example, EventBackboneProofs

-----------------------------------------------------------------------------
(* Registrations, answers and drains are steps of the backbone or leave it  *)
(* alone.                                                                   *)
THEOREM ExampleIsBackbone == ExampleSpec => Spec
  <1>1. ExampleInit => Init
    BY DEF ExampleInit
  <1>2. [ExampleNext]_wiredVars => [Next]_vars
    <2> SUFFICES ASSUME [ExampleNext]_wiredVars PROVE [Next]_vars
      OBVIOUS
    <2>1. CASE UNCHANGED wiredVars
      BY <2>1 DEF wiredVars
    <2>2. ASSUME NEW e \in Events, Registration(e) PROVE [Next]_vars
      BY <2>2 DEF Registration, RefuseLabel, RegisterExample, Save, Answer, Next
    <2>3. ASSUME NEW r \in Relays, Relaying(r) PROVE [Next]_vars
      BY <2>3 DEF Relaying, Next
    <2> QED
      BY <2>1, <2>2, <2>3 DEF ExampleNext
  <1> QED
    BY <1>1, <1>2, PTL DEF ExampleSpec, Spec

(* The backbone's inductive invariant holds in the wired service.           *)
THEOREM WiredInvariant == ExampleSpec => []IInv
  BY ExampleIsBackbone, BackboneInvariant, PTL

(* With registrations in front of it, the outbox and what drains it still   *)
(* implement in-order, at-least-once delivery.                              *)
THEOREM ExampleImplementsDelivery == ExampleSpec => ImplementsDelivery
  BY ExampleIsBackbone, Refinement, PTL

(* However the callers of drainOnce overlap, an example is recorded at most *)
(* once for each of them, unless record fails (event-consumer.ts:41-51).    *)
THEOREM HandledOncePerCaller ==
    ASSUME ~RecordMayFail, IsFiniteSet(Relays)
    PROVE  ExampleSpec => []HandledOncePerRelay
  <1>1. Spec => []HandledOncePerRelay
    BY OncePerRelay
  <1> QED
    BY <1>1, ExampleIsBackbone, PTL

(* A call whose event is in the outbox was accepted, and its example is in  *)
(* the repository.                                                          *)
WrittenIsAccepted ==
    \A e \in Events :
        e \in Written => e \in examples /\ answer[e] \in {"saving", "created"}

(* WrittenIsAccepted is inductive with the types of what it speaks of.      *)
AcceptedInv ==
    /\ outbox \in Seq(Events)
    /\ answer \in [Events -> Answers]
    /\ WrittenIsAccepted

LEMMA InitAccepted == ExampleInit => AcceptedInv
  BY DEF ExampleInit, Init, Answers, AcceptedInv, WrittenIsAccepted, Written, Positions

LEMMA NextAccepted == AcceptedInv /\ [ExampleNext]_wiredVars => AcceptedInv'
  <1> SUFFICES ASSUME AcceptedInv, [ExampleNext]_wiredVars PROVE AcceptedInv'
    OBVIOUS
  <1> USE DEF AcceptedInv
  <1>1. CASE UNCHANGED <<outbox, exampleVars>>
    BY <1>1 DEF exampleVars, WrittenIsAccepted, Written, Positions
  <1>2. CASE UNCHANGED wiredVars
    BY <1>1, <1>2 DEF wiredVars, vars
  <1>3. ASSUME NEW r \in Relays, Relaying(r) PROVE AcceptedInv'
    <2>1. outbox' = outbox
      BY <1>3 DEF Relaying, FetchPending, Drain, PortRejects, DeserializeThrows,
                  SkipProcessed, StartHandling, HandlerSucceeds, HandlerFails, Catch,
                  RecordProcessed, RecordFails, RetryAfterDelay, DeadLetter, MarkPublished
    <2> QED
      BY <1>1, <1>3, <2>1 DEF Relaying
  <1>4. ASSUME NEW e \in Events, RefuseLabel(e) PROVE AcceptedInv'
    BY <1>4 DEF RefuseLabel, End, vars, Answers, WrittenIsAccepted, Written, Positions
  <1>5. ASSUME NEW e \in Events, Answer(e) PROVE AcceptedInv'
    <2>1. outbox' = outbox /\ examples' = examples
      BY <1>5 DEF Answer, vars
    <2>2. answer' \in [Events -> Answers] /\ answer'[e] = "created" /\ answer[e] = "saving"
      BY <1>5 DEF Answer, End, Answers
    <2>3. \A other \in Events \ {e} : answer'[other] = answer[other]
      BY <1>5 DEF Answer, End
    <2> QED
      BY <2>1, <2>2, <2>3 DEF WrittenIsAccepted, Written, Positions
  <1>6. ASSUME NEW e \in Events, RegisterExample(e) PROVE AcceptedInv'
    <2>1. examples' = examples \cup {e} /\ answer[e] = "none" /\ e \notin Written
      BY <1>6 DEF RegisterExample, Save, WrittenIsAccepted
    <2>2. CASE Write(e) /\ End(e, "saving")
      <3>1. outbox' \in Seq(Events) /\ Written' = Written \cup {e}
        BY <2>2, AppendFacts DEF Write, Written, Positions
      <3>2. /\ answer' \in [Events -> Answers] /\ answer'[e] = "saving"
            /\ \A other \in Events \ {e} : answer'[other] = answer[other]
        BY <2>2 DEF End, Answers
      <3> QED
        BY <2>1, <3>1, <3>2 DEF WrittenIsAccepted
    <2>3. CASE End(e, "rejected") /\ UNCHANGED vars
      <3>1. outbox' = outbox
        BY <2>3 DEF vars
      <3>2. /\ answer' \in [Events -> Answers]
            /\ \A other \in Events \ {e} : answer'[other] = answer[other]
        BY <2>3 DEF End, Answers
      <3> QED
        BY <2>1, <3>1, <3>2 DEF WrittenIsAccepted, Written, Positions
    <2> QED
      BY <1>6, <2>2, <2>3 DEF RegisterExample, Save
  <1> QED
    BY <1>2, <1>3, <1>4, <1>5, <1>6 DEF ExampleNext, Registration

(* Only accepted registrations are ever handled or published: nothing is    *)
(* handled before it was written, and nothing is written before its call    *)
(* was accepted and its example stored.                                     *)
THEOREM OnlyAcceptedAreHandled == ExampleSpec => []OnlyRegistrationsAreHandled
  <1>1. IInv /\ AcceptedInv => OnlyRegistrationsAreHandled
    BY DEF IInv, TypeOK, OnlyWritten, AcceptedInv, WrittenIsAccepted,
           OnlyRegistrationsAreHandled
  <1>2. ExampleSpec => []AcceptedInv
    BY InitAccepted, NextAccepted, PTL DEF ExampleSpec
  <1> QED
    BY <1>1, <1>2, WiredInvariant, PTL

-----------------------------------------------------------------------------
(* Calls and their events                                                   *)

(* Between its save and its answer, and after it, an accepted call has its  *)
(* event in the outbox.                                                     *)
CallsInv ==
    /\ examples \subseteq Events
    /\ answer \in [Events -> Answers]
    /\ \A e \in Events : answer[e] \in {"saving", "created"} => e \in Written

LEMMA NextCalls == TypeOK /\ CallsInv /\ [ExampleNext]_wiredVars => CallsInv'
  <1> SUFFICES ASSUME TypeOK, CallsInv, [ExampleNext]_wiredVars PROVE CallsInv'
    OBVIOUS
  <1> USE DEF CallsInv
  <1>1. ASSUME outbox' = outbox PROVE Written' = Written
    BY <1>1 DEF Written, Positions
  <1>2. CASE UNCHANGED wiredVars
    BY <1>1, <1>2 DEF wiredVars, vars, exampleVars
  <1>3. ASSUME NEW r \in Relays, Relaying(r) PROVE CallsInv'
    <2>1. outbox' = outbox
      BY <1>3 DEF Relaying, FetchPending, Drain, PortRejects, DeserializeThrows,
                  SkipProcessed, StartHandling, HandlerSucceeds, HandlerFails, Catch,
                  RecordProcessed, RecordFails, RetryAfterDelay, DeadLetter, MarkPublished
    <2> QED
      BY <1>1, <1>3, <2>1 DEF Relaying, exampleVars
  <1>4. ASSUME NEW e \in Events, Registration(e) PROVE CallsInv'
    <2>1. ASSUME NEW result \in Answers, End(e, result)
          PROVE  /\ answer' \in [Events -> Answers] /\ answer'[e] = result
                 /\ \A other \in Events \ {e} : answer'[other] = answer[other]
      BY <2>1 DEF End
    <2>2. CASE RefuseLabel(e) \/ Answer(e)
      <3>1. outbox' = outbox /\ examples' = examples
        BY <2>2 DEF RefuseLabel, Answer, vars
      <3>2. answer[e] = "saving" \/ End(e, "refused")
        BY <2>2 DEF RefuseLabel, Answer
      <3>3. End(e, "refused") \/ End(e, "created")
        BY <2>2 DEF RefuseLabel, Answer
      <3> QED
        BY <1>1, <2>1, <3>1, <3>2, <3>3 DEF Answers
    <2>3. CASE RegisterExample(e)
      <3>1. examples' = examples \cup {e}
        BY <2>3 DEF RegisterExample, Save
      <3>2. CASE Write(e) /\ End(e, "saving")
        <4>1. Written' = Written \cup {e}
          <5>1. outbox \in Seq(Events)
            BY DEF TypeOK
          <5> QED
            BY <3>2, <5>1, AppendFacts DEF Write, Written, Positions
        <4> QED
          BY <2>1, <3>1, <3>2, <4>1 DEF Answers
      <3>3. CASE UNCHANGED vars /\ End(e, "rejected")
        <4>1. outbox' = outbox
          BY <3>3 DEF vars
        <4> QED
          BY <1>1, <2>1, <3>1, <3>3, <4>1 DEF Answers
      <3> QED
        BY <2>3, <3>2, <3>3 DEF RegisterExample, Save
    <2> QED
      BY <1>4, <2>2, <2>3 DEF Registration
  <1> QED
    BY <1>2, <1>3, <1>4 DEF ExampleNext

THEOREM CallsInvariant == ExampleSpec => []CallsInv
  <1>1. ExampleInit => CallsInv
    BY DEF ExampleInit, CallsInv, Answers
  <1>2. ExampleSpec => []TypeOK
    BY ExampleIsBackbone, BackboneTypes, PTL
  <1> QED
    BY <1>1, <1>2, NextCalls, PTL DEF ExampleSpec

(* Registrations and the backbone keep to their types.                      *)
THEOREM ExampleTypes == ExampleSpec => []ExampleTypeOK
  <1>1. TypeOK /\ CallsInv => ExampleTypeOK
    BY DEF CallsInv, ExampleTypeOK
  <1> QED
    BY <1>1, CallsInvariant, ExampleIsBackbone, BackboneTypes, PTL

(* Once the outbox has no pending entry, each registration that was         *)
(* answered 201 is settled at every consumer: handled and recorded, or      *)
(* dead-lettered (example.e2e.test.ts:22-31, which drains before it asks).  *)
DrainedIsSettled ==
    Pending = {} =>
        \A e \in Events : answer[e] = "created" => \A s \in Subscribers : e \in Settled(s)

(* Whatever overlapped, failed and rejected before, an empty outbox means   *)
(* that no answered registration is still owed to a consumer.               *)
THEOREM NothingIsOwedOnceDrained == ExampleSpec => []DrainedIsSettled
  <1>1. ASSUME TypeOK, PublishedOnlyWhenSettled, CallsInv
        PROVE  DrainedIsSettled
    <2> SUFFICES ASSUME Pending = {}, NEW e \in Events, answer[e] = "created",
                        NEW s \in Subscribers
                 PROVE  e \in Settled(s)
      BY DEF DrainedIsSettled
    <2>1. PICK p \in Positions : outbox[p] = e
      BY <1>1 DEF CallsInv, Written
    <2>2. e \in published
      BY <2>1 DEF Pending
    <2>3. s \in Listeners(e)
      BY ExampleAssumption DEF Listeners, EventTopic, ConsumerTopic
    <2> QED
      BY <1>1, <2>1, <2>2, <2>3 DEF PublishedOnlyWhenSettled
  <1>2. ExampleSpec => []PublishedOnlyWhenSettled
    BY ExampleIsBackbone, NothingLost, PTL
  <1>3. ExampleSpec => []TypeOK
    BY ExampleIsBackbone, BackboneTypes, PTL
  <1> QED
    BY <1>1, <1>2, <1>3, CallsInvariant, PTL
=============================================================================
