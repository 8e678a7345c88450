---------------------------- MODULE EventBackbone ----------------------------
(***************************************************************************)
(* The event backbone of packages/messaging: the transactional outbox, the *)
(* relay that drains it, the in-process publisher and bus, and the         *)
(* idempotent, retrying, dead-lettering consumer at the end of each        *)
(* subscription.                                                           *)
(*                                                                         *)
(* The program runs on one thread and calls interleave only at an `await`, *)
(* so an action here is the code between two awaits.  A relay r in Relays  *)
(* is one caller of OutboxRelay.drainOnce: nothing in the code keeps two   *)
(* calls from overlapping, and every composition root exposes the call.    *)
(***************************************************************************)
EXTENDS Naturals, Sequences, FiniteSets

CONSTANTS
    Relays,           \* callers of drainOnce that may be in progress together
    Events,           \* integration events, each identified by its messageId
    Topics,           \* broker topics
    TopicOf,          \* the topic of each event (topicFor(type, version))
    Subscribers,      \* consumers, numbered in the order they subscribed
    SubscribedTopic,  \* the topic each consumer subscribed to
    BatchSize,        \* OutboxRelayDeps.batchSize
    MaxAttempts,      \* RetryPolicy.maxAttempts
    Undecodable,      \* events whose stored payload the deserializer rejects
    RecordMayFail,    \* TRUE iff ProcessedEventStore.record may reject
    MaxRejections     \* bound on the drains that reject

(* RetryPolicy's constructor refuses maxAttempts < 1; a batch of size 0     *)
(* would make the relay a no-op.                                            *)
ASSUME BackboneAssumption ==
    /\ TopicOf \in [Events -> Topics]
    /\ Subscribers \subseteq Nat
    /\ SubscribedTopic \in [Subscribers -> Topics]
    /\ BatchSize \in Nat \ {0}
    /\ MaxAttempts \in Nat \ {0}
    /\ Undecodable \subseteq Events
    /\ RecordMayFail \in BOOLEAN
    /\ MaxRejections \in Nat

VARIABLES
    outbox,       \* ids of the entries ever appended, in append order
    published,    \* ids of the entries whose status is "published"
    pc,           \* where each relay is inside drainOnce
    batch,        \* the outbox positions fetchPending gave the relay
    todo,         \* <<position, subscriber>> deliveries the batch still owes
    attempt,      \* the attempt number of the consume in progress
    processed,    \* each subscriber's ProcessedEventStore
    deadLetters,  \* each subscriber's DeadLetterStore, in the order of add
    handled,      \* how often each subscriber's handler has succeeded
    rejections    \* drains that have rejected so far

vars == <<outbox, published, pc, batch, todo, attempt,
          processed, deadLetters, handled, rejections>>

relayVars    == <<pc, batch, todo, attempt>>
consumerVars == <<processed, deadLetters, handled>>

-----------------------------------------------------------------------------
(* Helpers                                                                  *)

Positions == DOMAIN outbox

Written == {outbox[p] : p \in Positions}

Pending == {p \in Positions : outbox[p] \notin published}

(* Mutants of fetchPending: the newest entries first; the limit is applied  *)
(* before the status is looked at.                                          *)
OldestPending_NewestFirst(n) ==
    {p \in Pending : Cardinality({q \in Pending : q > p}) < n}

OldestPending_SliceFirst(n) == {p \in Pending : p <= n}

(* InMemoryOutboxStore.fetchPending: the oldest n pending entries.          *)
OldestPending(n) ==
    {p \in Pending : Cardinality({q \in Pending : q < p}) < n}

(* The subscribers InMemoryEventBus.deliver finds for an event.             *)
Listeners(e) == {s \in Subscribers : SubscribedTopic[s] = TopicOf[e]}

DeadLettered(s) == {deadLetters[s][i] : i \in DOMAIN deadLetters[s]}

(* An event is settled at a subscriber once it needs no further delivery:   *)
(* its handler ran and was recorded, or it went to the dead-letter store.   *)
Settled(s) == processed[s] \cup DeadLettered(s)

(* Mutant: the deliveries of a batch are not made one after the other.      *)
IsNext_Any(r, d) == d \in todo[r]

(* publishBatch goes through the batch in order and deliver through each    *)
(* topic's subscribers in order, awaiting each: d is the delivery whose     *)
(* turn it is.                                                              *)
IsNext(r, d) ==
    /\ d \in todo[r]
    /\ \A other \in todo[r] :
          \/ d[1] < other[1]
          \/ d[1] = other[1] /\ d[2] <= other[2]

PcValues == {"idle", "delivering", "handling", "recording",
             "sleeping", "deadLettering"}

TypeOK ==
    /\ outbox \in Seq(Events)
    /\ published \subseteq Written
    /\ pc \in [Relays -> PcValues]
    /\ batch \in [Relays -> SUBSET Positions]
    /\ todo \in [Relays -> SUBSET (Positions \X Subscribers)]
    /\ attempt \in [Relays -> 0..MaxAttempts]
    /\ processed \in [Subscribers -> SUBSET Events]
    /\ deadLetters \in [Subscribers -> Seq(Events)]
    /\ handled \in [Subscribers -> [Events -> Nat]]
    /\ rejections \in 0..MaxRejections

-----------------------------------------------------------------------------
(* Actions                                                                  *)

Init ==
    /\ outbox = <<>>
    /\ published = {}
    /\ pc = [r \in Relays |-> "idle"]
    /\ batch = [r \in Relays |-> {}]
    /\ todo = [r \in Relays |-> {}]
    /\ attempt = [r \in Relays |-> 0]
    /\ processed = [s \in Subscribers |-> {}]
    /\ deadLetters = [s \in Subscribers |-> <<>>]
    /\ handled = [s \in Subscribers |-> [e \in Events |-> 0]]
    /\ rejections = 0

(* A use case saves an aggregate and OutboxWriter.write appends a translated *)
(* event.  The entry's id is the domain event's UUID, so it is fresh.        *)
Write(e) ==
    /\ e \notin Written
    /\ outbox' = Append(outbox, e)
    /\ UNCHANGED <<published, relayVars, consumerVars, rejections>>

(* drainOnce reads its batch; an empty one ends the call with no effect.     *)
FetchPending(r) ==
    /\ pc[r] = "idle"
    /\ OldestPending(BatchSize) # {}
    /\ batch' = [batch EXCEPT ![r] = OldestPending(BatchSize)]
    /\ todo' = [todo EXCEPT ![r] =
                  {d \in OldestPending(BatchSize) \X Subscribers :
                       d[2] \in Listeners(outbox[d[1]])}]
    /\ pc' = [pc EXCEPT ![r] = "delivering"]
    /\ UNCHANGED <<outbox, published, attempt, consumerVars, rejections>>

(* consume returns to the bus, which moves on to the next delivery.          *)
Acknowledge(r, d) ==
    /\ todo' = [todo EXCEPT ![r] = @ \ {d}]
    /\ pc' = [pc EXCEPT ![r] = "delivering"]
    /\ attempt' = [attempt EXCEPT ![r] = 0]
    /\ UNCHANGED batch

(* A rejection leaves consume, deliver, publishBatch and drainOnce: the      *)
(* whole batch stays pending and the relay is free for another call.         *)
DrainRejects(r) ==
    /\ rejections < MaxRejections
    /\ rejections' = rejections + 1
    /\ pc' = [pc EXCEPT ![r] = "idle"]
    /\ batch' = [batch EXCEPT ![r] = {}]
    /\ todo' = [todo EXCEPT ![r] = {}]
    /\ attempt' = [attempt EXCEPT ![r] = 0]

(* Mutant: consume swallows the deserializer's error.                        *)
DeserializeThrows_Swallowed(r) ==
    /\ pc[r] = "delivering"
    /\ \E d \in todo[r] :
          /\ IsNext(r, d)
          /\ outbox[d[1]] \in Undecodable
          /\ Acknowledge(r, d)
    /\ UNCHANGED <<outbox, published, consumerVars, rejections>>

(* deserialize throws, and it is called outside consume's try.               *)
DeserializeThrows(r) ==
    /\ pc[r] = "delivering"
    /\ \E d \in todo[r] : IsNext(r, d) /\ outbox[d[1]] \in Undecodable
    /\ DrainRejects(r)
    /\ UNCHANGED <<outbox, published, consumerVars>>

(* processedEvents.has answers yes: consume returns without the handler.     *)
SkipProcessed(r) ==
    /\ pc[r] = "delivering"
    /\ \E d \in todo[r] :
          /\ IsNext(r, d)
          /\ outbox[d[1]] \notin Undecodable
          /\ outbox[d[1]] \in processed[d[2]]
          /\ Acknowledge(r, d)
    /\ UNCHANGED <<outbox, published, consumerVars, rejections>>

(* Mutant: consume does not ask the processed-event store.                   *)
StartHandling_NoDedup(r) ==
    /\ pc[r] = "delivering"
    /\ \E d \in todo[r] : IsNext(r, d) /\ outbox[d[1]] \notin Undecodable
    /\ pc' = [pc EXCEPT ![r] = "handling"]
    /\ attempt' = [attempt EXCEPT ![r] = 1]
    /\ UNCHANGED <<outbox, published, batch, todo, consumerVars, rejections>>

(* processedEvents.has answers no: the first attempt begins.                 *)
StartHandling(r) ==
    /\ pc[r] = "delivering"
    /\ \E d \in todo[r] :
          /\ IsNext(r, d)
          /\ outbox[d[1]] \notin Undecodable
          /\ outbox[d[1]] \notin processed[d[2]]
    /\ pc' = [pc EXCEPT ![r] = "handling"]
    /\ attempt' = [attempt EXCEPT ![r] = 1]
    /\ UNCHANGED <<outbox, published, batch, todo, consumerVars, rejections>>

(* The handler's promise resolves: its effect has taken place.               *)
HandlerSucceeds(r) ==
    /\ pc[r] = "handling"
    /\ \E d \in todo[r] :
          /\ IsNext(r, d)
          /\ handled' = [handled EXCEPT ![d[2]][outbox[d[1]]] = @ + 1]
    /\ pc' = [pc EXCEPT ![r] = "recording"]
    /\ UNCHANGED <<outbox, published, batch, todo, attempt,
                   processed, deadLetters, rejections>>

(* Mutant: one attempt too many.                                             *)
Catch_OffByOne(r) ==
    /\ pc' = [pc EXCEPT ![r] =
                IF attempt[r] > MaxAttempts THEN "deadLettering" ELSE "sleeping"]
    /\ UNCHANGED <<outbox, published, batch, todo, attempt, consumerVars, rejections>>

(* The catch clause: dead-letter on exhaustion, otherwise back off.          *)
Catch(r) ==
    /\ pc' = [pc EXCEPT ![r] =
                IF attempt[r] >= MaxAttempts THEN "deadLettering" ELSE "sleeping"]
    /\ UNCHANGED <<outbox, published, batch, todo, attempt, consumerVars, rejections>>

HandlerFails(r) == pc[r] = "handling" /\ Catch(r)

(* record is awaited inside the same try as the handler.                     *)
RecordFails(r) == RecordMayFail /\ pc[r] = "recording" /\ Catch(r)

(* Mutant: the success is acknowledged but not recorded.                     *)
RecordProcessed_Forgets(r) ==
    /\ pc[r] = "recording"
    /\ \E d \in todo[r] : IsNext(r, d) /\ Acknowledge(r, d)
    /\ UNCHANGED <<outbox, published, consumerVars, rejections>>

RecordProcessed(r) ==
    /\ pc[r] = "recording"
    /\ \E d \in todo[r] :
          /\ IsNext(r, d)
          /\ processed' = [processed EXCEPT ![d[2]] = @ \cup {outbox[d[1]]}]
          /\ Acknowledge(r, d)
    /\ UNCHANGED <<outbox, published, deadLetters, handled, rejections>>

(* Mutant: a retry does not count.                                           *)
RetryAfterDelay_Uncounted(r) ==
    /\ pc[r] = "sleeping"
    /\ pc' = [pc EXCEPT ![r] = "handling"]
    /\ UNCHANGED <<outbox, published, batch, todo, attempt, consumerVars, rejections>>

RetryAfterDelay(r) ==
    /\ pc[r] = "sleeping"
    /\ pc' = [pc EXCEPT ![r] = "handling"]
    /\ attempt' = [attempt EXCEPT ![r] = @ + 1]
    /\ UNCHANGED <<outbox, published, batch, todo, consumerVars, rejections>>

(* Mutant: consume does not return after dead-lettering, it tries again.     *)
DeadLetter_NoReturn(r) ==
    /\ pc[r] = "deadLettering"
    /\ \E d \in todo[r] :
          /\ IsNext(r, d)
          /\ deadLetters' = [deadLetters EXCEPT ![d[2]] = Append(@, outbox[d[1]])]
    /\ pc' = [pc EXCEPT ![r] = "handling"]
    /\ UNCHANGED <<outbox, published, batch, todo, attempt,
                   processed, handled, rejections>>

DeadLetter(r) ==
    /\ pc[r] = "deadLettering"
    /\ \E d \in todo[r] :
          /\ IsNext(r, d)
          /\ deadLetters' = [deadLetters EXCEPT ![d[2]] = Append(@, outbox[d[1]])]
          /\ Acknowledge(r, d)
    /\ UNCHANGED <<outbox, published, processed, handled, rejections>>

(* Mutant: everything written so far is marked, not just the batch.          *)
MarkPublished_Everything(r) ==
    /\ pc[r] = "delivering"
    /\ todo[r] = {}
    /\ published' = Written
    /\ pc' = [pc EXCEPT ![r] = "idle"]
    /\ batch' = [batch EXCEPT ![r] = {}]
    /\ UNCHANGED <<outbox, todo, attempt, consumerVars, rejections>>

(* The whole batch was delivered: mark it and return.                        *)
MarkPublished(r) ==
    /\ pc[r] = "delivering"
    /\ todo[r] = {}
    /\ published' = published \cup {outbox[p] : p \in batch[r]}
    /\ pc' = [pc EXCEPT ![r] = "idle"]
    /\ batch' = [batch EXCEPT ![r] = {}]
    /\ UNCHANGED <<outbox, todo, attempt, consumerVars, rejections>>

(* processedEvents.has, deadLetters.add, sleep or markPublished rejects;     *)
(* each is awaited outside any try.                                          *)
PortRejects(r) ==
    /\ pc[r] \in {"delivering", "deadLettering", "sleeping"}
    /\ DrainRejects(r)
    /\ UNCHANGED <<outbox, published, consumerVars>>

(* The steps of a drain once it has its batch.                               *)
Drain(r) ==
    \/ DeserializeThrows(r) \/ SkipProcessed(r) \/ StartHandling(r)
    \/ HandlerSucceeds(r) \/ HandlerFails(r)
    \/ RecordProcessed(r) \/ RecordFails(r)
    \/ RetryAfterDelay(r) \/ DeadLetter(r) \/ MarkPublished(r)

Next ==
    \/ \E e \in Events : Write(e)
    \/ \E r \in Relays : FetchPending(r) \/ Drain(r) \/ PortRejects(r)

Spec == Init /\ [][Next]_vars

(* A drain that was started runs on: the event loop resumes it after every   *)
(* await.  Whether anybody starts another one is up to the caller.           *)
FairSpec == Spec /\ \A r \in Relays : WF_vars(Drain(r))

(* The caller keeps calling drainOnce.                                       *)
RedrainSpec == FairSpec /\ \A r \in Relays : WF_vars(FetchPending(r))
-----------------------------------------------------------------------------
(* Properties                                                               *)

(* No event is lost: drainOnce marks an entry published only when each of   *)
(* its topic's consumers has handled and recorded it or has dead-lettered   *)
(* it (outbox-relay.ts:33-37), whatever other drains, new entries, retries  *)
(* and rejections happen meanwhile.                                         *)
PublishedOnlyWhenSettled ==
    \A p \in Positions : \A s \in Listeners(outbox[p]) :
        outbox[p] \in published => outbox[p] \in Settled(s)

(* A consumer's handler runs for an event only after every earlier event of *)
(* its topic is settled at that consumer (in-memory-bus.ts:7-8: publish     *)
(* order, hence per-aggregate FIFO), also when a drain rejects in the       *)
(* middle of a batch and another starts over.                               *)
DeliveredInOrder ==
    \A p, q \in Positions : \A s \in Listeners(outbox[p]) \cap Listeners(outbox[q]) :
        (q < p /\ (handled[s][outbox[p]] > 0 \/ outbox[p] \in Settled(s)))
            => outbox[q] \in Settled(s)

(* A consumer's handler succeeds at most once per event: what the relay     *)
(* (outbox-relay.ts:17-18) and the consumer (event-consumer.ts:27) say of   *)
(* re-running a drain.                                                      *)
HandledAtMostOnce ==
    \A s \in Subscribers, e \in Events : handled[s][e] <= 1

(* Overlap is all that can make it more: a handler succeeds at most once per *)
(* event and caller of drainOnce (event-consumer.ts:41-51), whatever rejects *)
(* and is drained again, unless record fails.                                *)
HandledOncePerRelay ==
    \A s \in Subscribers, e \in Events : handled[s][e] <= Cardinality(Relays)

TimesDeadLettered(s, e) ==
    Cardinality({i \in DOMAIN deadLetters[s] : deadLetters[s][i] = e})

(* While nothing but handlers has failed and drains do not overlap, every   *)
(* published event had exactly one outcome at each of its consumers: one    *)
(* successful handler call or one dead letter (event-consumer.ts:45-78).    *)
OneOutcome ==
    rejections = 0 =>
        \A p \in Positions : \A s \in Listeners(outbox[p]) :
            outbox[p] \in published =>
                handled[s][outbox[p]] + TimesDeadLettered(s, outbox[p]) = 1

(* What one delivery may come to: a success or a dead letter, or, where     *)
(* record fails inside the handler's try, a success for each attempt and    *)
(* then the dead letter.                                                    *)
PerDelivery == IF RecordMayFail THEN MaxAttempts + 1 ELSE 1

OutcomesOf(s, e) == handled[s][e] + TimesDeadLettered(s, e)

(* Redelivery is bounded: an entry is delivered again only by a drain that  *)
(* overlaps or after one that rejected, because the first drain that ends   *)
(* otherwise marks it (outbox-relay.ts:29-38).  So successes and dead       *)
(* letters, which a redelivery repeats because dead-lettering is not        *)
(* recorded as processed (event-consumer.ts:55-78), are no more than what   *)
(* that many deliveries come to (event-consumer.ts:45-54).                  *)
OutcomesPerDelivery ==
    \A s \in Subscribers, e \in Events :
        OutcomesOf(s, e) <= PerDelivery * (Cardinality(Relays) + rejections)

(* An undecodable entry with a consumer is not skipped, dead-lettered or    *)
(* dropped: deserialize throws outside consume's try (event-consumer.ts:39) *)
(* and the drain rejects before it marks anything, so neither that entry    *)
(* nor any entry behind it, of whatever topic, is ever handled or published.*)
UndecodableBlocksOutbox ==
    \A p, q \in Positions :
        (p <= q /\ outbox[p] \in Undecodable /\ Listeners(outbox[p]) # {}) =>
            /\ outbox[q] \notin published
            /\ \A s \in Subscribers : handled[s][outbox[q]] = 0

(* A drain ends, by returning or rejecting, however often handlers and      *)
(* record fail: retries are bounded (event-consumer.ts:54) and the batch is *)
(* fixed when it is fetched, so entries written meanwhile do not prolong it.*)
DrainEnds == \A r \in Relays : pc[r] # "idle" ~> pc[r] = "idle"

(* If drainOnce is called again and again, every event is published: a      *)
(* handler that always fails does not hold up the events behind it.         *)
EventuallyPublished == \A e \in Events : e \in Written ~> e \in published

(* The backbone implements at-least-once, in-order delivery.                *)
Delivery == INSTANCE AtLeastOnceDelivery WITH
    ListenersOf <- [e \in Events |-> Listeners(e)],
    sent <- outbox,
    settled <- [s \in Subscribers |-> Settled(s)],
    struck <- published

(* Every step of outbox, relay and consumer is a step of the promise in     *)
(* AtLeastOnceDelivery or leaves what it speaks of alone.                   *)
ImplementsDelivery == Delivery!Spec

-----------------------------------------------------------------------------
(* The inductive invariant                                                  *)

(* Entry ids are UUIDs: no id is at two positions.                          *)
UniqueIds == \A p, q \in Positions : outbox[p] = outbox[q] => p = q

(* Nothing is handled or settled before it was written.                     *)
OnlyWritten ==
    \A s \in Subscribers, e \in Events :
        (handled[s][e] > 0 \/ e \in Settled(s)) => e \in Written

(* What a relay holds was the oldest pending work when it was fetched, and  *)
(* entries only ever leave the pending state.                               *)
BatchIsOldest ==
    \A r \in Relays : \A p \in batch[r], q \in Positions :
        q < p => q \in batch[r] \/ outbox[q] \in published

TodoIsOfBatch ==
    \A r \in Relays : \A d \in todo[r] :
        d[1] \in batch[r] /\ d[2] \in Listeners(outbox[d[1]])

(* A delivery that a relay no longer owes has been settled.                 *)
DeliveredIsSettled ==
    \A r \in Relays : \A p \in batch[r] : \A s \in Listeners(outbox[p]) :
        <<p, s>> \in todo[r] \/ outbox[p] \in Settled(s)

(* A retry is only ever scheduled below the limit.                          *)
RetryLeft == \A r \in Relays : pc[r] = "sleeping" => attempt[r] < MaxAttempts

(* The strengthening of PublishedOnlyWhenSettled and DeliveredInOrder that  *)
(* every step preserves: it follows each relay's batch from fetchPending to *)
(* markPublished.                                                           *)
IInv ==
    /\ TypeOK
    /\ UniqueIds
    /\ OnlyWritten
    /\ BatchIsOldest
    /\ TodoIsOfBatch
    /\ DeliveredIsSettled
    /\ RetryLeft
    /\ PublishedOnlyWhenSettled
    /\ DeliveredInOrder

(* The delivery whose turn it is at relay r is that of e to s.              *)
InHand(r, s, e) == \E d \in todo[r] : IsNext(r, d) /\ d[2] = s /\ outbox[d[1]] = e

(* The relays that may yet bring a handler to success, and those that did   *)
(* and have to record it.                                                   *)
Attempting(s, e) ==
    {r \in Relays : pc[r] \in {"handling", "sleeping"} /\ InHand(r, s, e)}

Recording(s, e) == {r \in Relays : pc[r] = "recording" /\ InHand(r, s, e)}

(* At most n calls of drainOnce are in progress.                            *)
Busy == {r \in Relays : pc[r] # "idle"}

AtATime(n) == Cardinality(Busy) <= n

(* Callers wait for each other's drains.                                    *)
DrainsAreAlone ==
    \A a, b \in Relays : pc[a] # "idle" /\ pc[b] # "idle" => a = b

(* What every step preserves when record does not fail and at most n drains *)
(* are in progress: who starts on an event finds it unrecorded, and those   *)
(* that succeeded before are all still recording.                           *)
HandledWithin(n, s, e) ==
    /\ handled[s][e] + Cardinality(Attempting(s, e)) <= n
    /\ e \notin processed[s] => handled[s][e] <= Cardinality(Recording(s, e))

OverlapInv(n) == \A s \in Subscribers, e \in Events : HandledWithin(n, s, e)

(* What relay r may still make of the delivery it has in hand.              *)
DueInHand(r) ==
    CASE pc[r] = "deadLettering" -> 1
      [] pc[r] = "handling" -> IF RecordMayFail THEN MaxAttempts + 2 - attempt[r] ELSE 1
      [] pc[r] = "sleeping" -> IF RecordMayFail THEN MaxAttempts + 1 - attempt[r] ELSE 1
      [] pc[r] = "recording" -> IF RecordMayFail THEN MaxAttempts + 1 - attempt[r] ELSE 0
      [] OTHER -> PerDelivery

Owes(r, s, e) == \E d \in todo[r] : d[2] = s /\ outbox[d[1]] = e

(* How many outcomes of e at s relay r may still bring about.               *)
Due(r, s, e) ==
    IF InHand(r, s, e) THEN DueInHand(r) ELSE IF Owes(r, s, e) THEN PerDelivery ELSE 0

(* All of them, each told apart from the others.                            *)
StillDue(s, e) == UNION {{r} \X (1..Due(r, s, e)) : r \in Relays}

Holding(e) == {r \in Relays : \E p \in batch[r] : outbox[p] = e}

FreeHoldsNothing == \A r \in Relays : pc[r] = "idle" => batch[r] = {}

(* Until e is published, each delivery of it belongs to a drain that holds  *)
(* it or to one that rejected; from then on no drain fetches it any more.   *)
DeliveredWithin(n, s, e) ==
    LET total == OutcomesOf(s, e) + Cardinality(StillDue(s, e))
    IN  /\ e \notin published =>
              total <= PerDelivery * (Cardinality(Holding(e)) + rejections)
        /\ total <= PerDelivery * (n + rejections)

(* The strengthening of OutcomesPerDelivery that every step preserves while *)
(* at most n drains are in progress.                                        *)
DeliveriesInv(n) ==
    /\ FreeHoldsNothing
    /\ \A s \in Subscribers, e \in Events : DeliveredWithin(n, s, e)

(* An event is attempted only after it was decoded.                         *)
AttemptsAreDecodable ==
    \A r \in Relays : \A d \in todo[r] :
        pc[r] \in {"handling", "recording", "sleeping", "deadLettering"} /\ IsNext(r, d) =>
            outbox[d[1]] \notin Undecodable

UndecodableIsUnsettled ==
    \A s \in Subscribers, e \in Undecodable : handled[s][e] = 0 /\ e \notin Settled(s)

(* The strengthening of UndecodableBlocksOutbox that every step preserves.  *)
BlockInv ==
    /\ AttemptsAreDecodable
    /\ UndecodableIsUnsettled
    /\ UndecodableBlocksOutbox

(* What the one drain in progress holds is pending; no other relay holds    *)
(* anything.                                                                *)
BatchIsPending ==
    \A r \in Relays :
        /\ \A p \in batch[r] : outbox[p] \notin published
        /\ pc[r] = "idle" => batch[r] = {}

RecordingWasHandled ==
    \A r \in Relays : \A d \in todo[r] :
        pc[r] = "recording" /\ IsNext(r, d) => handled[d[2]][outbox[d[1]]] > 0

ProcessedWasHandled ==
    \A s \in Subscribers : \A e \in processed[s] : handled[s][e] > 0

(* The delivery of the entry at p to s is still to come, or under way.      *)
Owed(p, s) ==
    /\ outbox[p] \notin published
    /\ \A r \in Relays : p \in batch[r] => <<p, s>> \in todo[r]

BeingRecorded(p, s) ==
    \E r \in Relays : pc[r] = "recording" /\ IsNext(r, <<p, s>>)

(* It has its one outcome from its handler's success, or its dead letter,   *)
(* on.                                                                      *)
OutcomeAtTheEnd ==
    rejections = 0 =>
        \A p \in Positions : \A s \in Listeners(outbox[p]) :
            handled[s][outbox[p]] + TimesDeadLettered(s, outbox[p]) =
                IF Owed(p, s) /\ ~BeingRecorded(p, s) THEN 0 ELSE 1

(* The strengthening of OneOutcome that drains which do not overlap         *)
(* preserve when record does not fail.                                      *)
OutcomeInv ==
    /\ BatchIsPending
    /\ RecordingWasHandled
    /\ ProcessedWasHandled
    /\ OutcomeAtTheEnd
=============================================================================
