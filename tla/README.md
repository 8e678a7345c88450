# Formal models of the Lumo platform

TLA+ models of the parts of this repository that have state and concurrency:
the event backbone in `packages/messaging`, the five services that write to it,
the dependency-injection container, and the server's configuration and health
reports. TLC checks the models on small instances;
TLAPS proves the safety properties for every value of the constants.

All paths below are relative to the repository's root.

## 1. The system

The platform is a TypeScript monorepo: framework-agnostic packages and five
services that use them. Every service is wired in memory by a composition root
(`services/*/src/composition.ts`); the production adapters the documents
describe (Debezium, Redpanda, Prisma repositories) are not in the repository.

**Execution model.** One event loop. A call runs without interruption between
two `await`s, and several calls can be in progress at once, so an action of a
model is the code between two `await`s, and the interleavings TLC explores are
those of such stretches. Nothing survives a restart, so there is no crash
recovery to model: all stores are arrays and Maps in memory.

### Inventory of components

| Component | State | Operations | Talks to | What is hard |
|---|---|---|---|---|
| Outbox (`messaging/outbox`) | entries with a status | append, `fetchPending`, `markPublished` | written by repositories, read by the relay | entries appended or marked between a relay's read and its mark |
| Relay (`outbox-relay.ts`) | none between calls | `drainOnce` | outbox, publisher | overlapping calls; a batch rejected half-way; backlog above the batch size |
| Publisher and bus (`messaging/publisher`) | subscriptions | `publish`, `publishBatch`, `deliver` | relay, subscribers | order; one slow or rejecting subscriber holds everybody behind it |
| Consumer (`event-consumer.ts`) | processed ids, dead letters | `consume` | handler, processed-event store, dead-letter store, retry policy | check-then-act over an `await`; retry bound; which failures retry and which reject |
| Inventory | items: stock level, reservations | receive, reserve, release, adjust | outbox | lookups used after an `await`; two records of the same quantity; natural key |
| Catalog | products, categories | create, publish, update, create category | outbox | two publications at once; last event against present content |
| Pricing | price lists, prices | create list, activate, create price, change | outbox | two activations; currency of list against prices |
| Media | assets | register | outbox | save and event are one stretch |
| Example | examples | register | outbox, relay, bus, consumer | the only wiring with an `EventConsumer` |
| DI container (`application/di`) | registrations, memoised instances, parents | register, resolve, create scope | factories, which call it back | re-entrant resolution, scopes, failing factories, tokens registered again |
| CQRS buses, pipeline (`application/cqrs`, `middleware`) | handlers, fixed when wired | register, dispatch | handlers | – |
| Domain kit (`packages/domain`) | an aggregate's collected events | add, pull | aggregates, repositories | events pulled before they are safe |
| Health registry (`packages/health`) | registered checks | register, run | probes of config, db, redis, clickhouse, storage | a probe that never settles; overlapping runs; checks registered during a run |
| Server configuration (`config/src/server`, `packages/secrets`) | the loaded configuration | `loadConfig` | environment, secret files | which of variable, file, profile and default decides; what is refused |
| Secret chains, feature flags | static | lookups | – | – |
| Redis, ClickHouse, Prisma, storage clients | third-party clients | I/O | external services | external |
| Observability, UI, storefront, tooling, infrastructure files | none of interest | – | – | – |

### What makes each component correct

- Outbox, relay, bus, consumer: an entry leaves the outbox only when each of its
  consumers has settled it (handled and recorded, or dead-lettered); a consumer
  never sees an event before the earlier ones of its topic are settled; retries
  are bounded; drains end; nothing waits for ever while drains go on.
- Inventory: no item promises more than it has; the reserved quantity is the sum
  of the open reservations; a reservation is given back once and can be given
  back; the last event tells the stock.
- Catalog, pricing: of overlapping publications (activations) exactly one takes
  effect; the last event tells the present content (amount).
- Container: nothing that outlives a scope holds on to what belongs to the scope;
  a singleton is one instance for everybody, or none yet.
- Configuration and health: what the loader accepts is complete; what nobody set
  keeps its profile; a report is true of its run and is held up by nobody else's
  services.

## 2. Modules

| Module | Models | Uses |
|---|---|---|
| `AtLeastOnceDelivery` | the promise: send, settle in order, strike off after settling | |
| `EventBackbone` | outbox writer and store, relay, publisher, bus, consumer, its two stores | `AtLeastOnceDelivery` as a refinement target |
| `MCEventBackbone` | two topics, for TLC | `EventBackbone` |
| `EventBackboneProofs` | theorems | `EventBackbone` |
| `Example`, `MCExample`, `ExampleProofs` | `wireExample`: registrations and the backbone together; theorems | `EventBackbone`, `EventBackboneProofs` |
| `Inventory`, `MCInventory` | `services/inventory`; symmetry | |
| `SinkRelay` | relay, bus and bare sink, as the inventory, catalog, pricing and media wirings have them | |
| `InventorySlice`, `MCInventorySlice` | `wireInventory`: use cases and drains together | `Inventory`, `SinkRelay` |
| `InventoryProofs` | theorems about the use cases and about the whole wiring | `InventorySlice` |
| `Media`, `MCMedia`, `MediaProofs` | `wireMedia`: registrations and overlapping drains together; theorems | `SinkRelay`; `AtLeastOnceDelivery` as a refinement target |
| `SoleClaim` | the promise of publishing and activating: won once, refused only after that | |
| `Catalog`, `MCCatalog`, `CatalogProofs` | `services/catalog`; symmetry; theorems | `SoleClaim` as a refinement target |
| `Pricing`, `MCPricing`, `PricingProofs` | `services/pricing`; symmetry; theorems | `SoleClaim` as a refinement target |
| `Container`, `MCContainer`, `ContainerProofs` | the DI container; symmetry; theorems | |
| `ServerConfig` | `loadConfig` and the environment's secret provider, as operators | |
| `ServerHealth`, `MCServerHealth`, `ServerHealthProofs` | a process that loads its configuration and answers health reports; theorems | `ServerConfig` |

Operators whose name carries a suffix after an underscore (`Catch_OffByOne`) are
plausible bugs: each property below was seen to fail when one of them replaces
the operator it is named after. They are not part of any specification.

### EventBackbone

A relay in `Relays` is one caller of `drainOnce`. `pc[r]` is the `await` it is
suspended at: `delivering` (between two deliveries, or about to mark),
`handling` (the handler's promise), `recording` (`processedEvents.record`),
`sleeping` (the retry's delay), `deadLettering` (`deadLetters.add`).

| Action | Code |
|---|---|
| `Write(e)` | a repository's save reaches `OutboxWriter.write`; the id of an entry is the domain event's UUID, hence fresh |
| `FetchPending(r)` | `fetchPending(batchSize)` and the list of deliveries the batch means: entries in order, each to its topic's subscribers in order |
| `SkipProcessed`, `StartHandling` | the answer of `processedEvents.has` |
| `DeserializeThrows` | `deserialize`, called before the `try`, so the drain rejects |
| `HandlerSucceeds`, `HandlerFails`, `RecordProcessed`, `RecordFails` | the `try` block; `record` is inside it |
| `Catch` | dead-letter when the attempts are used up, otherwise back off |
| `RetryAfterDelay`, `DeadLetter` | the two ends of the `catch` block |
| `MarkPublished(r)` | the batch was delivered: `markPublished`, and the call returns |
| `PortRejects(r)` | `has`, `add`, `sleep` or `markPublished` rejects, outside any `try` |

Abstractions: an event is a model value with a topic; payload, headers, keys,
correlation ids and time stamps are left out, because no step depends on them.
A delay takes any time; its length is not modelled.

### Example

The walking skeleton is the only wiring with an `EventConsumer`, so it is
`EventBackbone` with registrations in place of the free `Write`. A call runs from
the check of its label to the append of its event without an `await`, so
`RegisterExample(e)` is one action; `Answer(e)` is the 201 after the awaited save.
Each call has one event, which stands for the call. `Save` has a second outcome,
a serializer that throws: the call rejects, the example stays in the Map and its
event is gone. `EventTopic` and `ConsumerTopic` are the two places in the code
that spell the topic.

### Media

`RegisterAsset` has the same shape over `SinkRelay`, which is given the translator's
topic (`TopicOf`) and the topics of `bus.subscribe` (`SinkTopics`): an entry whose
topic is not among them is delivered to nobody and published all the same. A
storage key is checked and kept after trimming; `Trimmed` stands for
`String.trim`.

### Inventory, Catalog, Pricing

All their use cases have the same shape: validate, look up, `await`, then change,
save and append the event in one stretch, `await`, answer. `pc` is `new`,
`found` (after the lookup), `saved` (after the save), `done`; `request` and
`found` are the call's local variables, `reply` its `Result` or rejection. The
change reads the item as it is then, because the repositories hand out the
object itself: a call that looked up an item sees what others did to it
meanwhile. The unit of work only calls its function, so it contributes nothing.
`Save` has two outcomes: the event is appended, or the serializer throws after
the Map was set and the events were pulled, and the call is rejected with its
change in place (`SerializerMayThrow`). An id is generated once per call, so the
call stands for what it creates.

Value objects only decide whether an input is accepted: quantities are modelled
as numbers with the bounds `Quantity.create` and `AdjustInventory` check; the
input of `CreateProduct` is a record of what `Sku`, `Slug`, `Money`, `Variant` and
`MediaRef` tell apart (`ProductInputs`); slugs and the currency of a price are
members of small sets, part of which is malformed.

### SoleClaim

What publishing a product and activating a price list have in common. A claimant
asks for a thing; it may win the thing if nobody has, for good, and may be refused
only if somebody has. `Catalog` implements it as `Publication` and `Pricing` as
`Activation`: claimants are the publish (activate) calls, `Aim` is what the call
looked up, `Winner` the call whose reply, or save, says that it changed the
status, `Outcome` its reply. What the refinement adds to `PublishedOnce` and
`ActivatedOnce`: a status is never taken back, by whatever other operation, and
"conflict" is answered to nobody who could have succeeded.

### Container

Everything in `container.ts` is synchronous; the difficulty is that `resolve` calls
factories, which are foreign code. `stack` holds the factory calls in progress: each
frame has the registration, the container the factory was given, and what it has
resolved so far. While factories run, only the innermost resolves, and only through its
container; registrations and scopes are possible at any time, through a container
that foreign code kept.

| Action | Code |
|---|---|
| `CreateScope`, `RegisterValue`, `RegisterFactory` | the operations of the same names; a registration is an object of its own, so one that was replaced may still be in use |
| `ResolveKept` | `resolve` finds, in the container or the nearest parent that knows the token, a value or a singleton that has its instance |
| `CallFactory` | `resolve` finds a factory it has to call, with the container that holds it |
| `FactoryReturns(i)` | the factory returns a new object, or one it has resolved; `Keep` is `instance ??= ...` |
| `FactoryThrows` | the exception leaves this `resolve`; the factory that called it may catch it |

`above` holds each container's chain of parents. `origin`, `parts`, `given` and
`reentered` are history variables. A stack overflow is an exception like any other;
`MaxDepth` is the room the stack has.

### InventorySlice

The composition root: the use cases step, or a caller of `drainOutbox` does; the
outbox is all they share. The sink of this wiring is a bare subscriber, not an
`EventConsumer`.

### ServerConfig, ServerHealth

`ServerConfig` has every key of `serverEnvSchema`, by the rule its entry states.
`Secret` is `EnvSecretProvider.get` (a `_FILE` goes before the variable; of the
variable only, the empty text counts as absent), `Source` the layering, `Accepts`
and `Parsed` what zod does with each rule: a blank number is coerced to zero, a
flag takes every text. Values are the texts the rules tell apart. A file that
cannot be read makes `readFileSync` throw past the validation: `Boot` ends `crashed`
and not `invalid`.

`ServerHealth` boots with it. `Run(r)` is the synchronous part of
`HealthRegistry.run`: every probe is called, over the checks there are at that
moment. `Answered(r, i)` is an answer to the request probe `i` is waiting for;
`left` holds what it still has to ask, one bucket after the other for storage.
`Report(r)` is `Promise.all` and `aggregate`. Services are external: they are up, down
or hung, and change at any time. `seen` is a history variable: what the services
of a run did while it was going on.

## 3. What is checked

Deadlock is not checked in any run (`CHECK_DEADLOCK FALSE`): when every event is
written and drained, or every call has answered, the system really stops.

| Run | Instance | Shows |
|---|---|---|
| `backbone_overlap` | 2 relays, 2 events, 1 consumer, batches of 1, 2 attempts, failing handlers and failing `record`, 1 rejection | `TypeOK`; `PublishedOnlyWhenSettled`: overlapping, failing and repeated drains lose nothing; `OutcomesPerDelivery`: retries, redelivery and failing records repeat successes and dead letters no more often than drains and attempts account for; `ImplementsDelivery`: every step is one the promise allows; `DrainEnds`; `EventuallyPublished` |
| `backbone_single_relay` | 1 relay, batches of 2 out of 3 events, 2 decodable ones on a topic with 2 consumers and an undecodable one on another with 1, 2 rejections | `DeliveredInOrder` and `HandledAtMostOnce`, though drains reject in the middle of a batch and start over; `UndecodableBlocksOutbox`, wherever in the outbox the undecodable entry is |
| `backbone_overlap_dedup` | 2 relays, 1 event | violates `HandledAtMostOnce` (finding 1) |
| `inventory_first_receipts` | 2 calls, 1 key | violates `OneItemPerKey` (finding 2) |
| `inventory_slice` | 4 calls of any kind on 1 key, quantities to 2, failing saves, 1 caller of `drainOutbox`, batches of 2 | `NoOversell`, `ReservedIsSumOfReservations`, `ReservedUntilReleasedOnce`, `ReservationsReachable`, `LastEventIsLevel`; `SinkReadsOutbox`; `SinkKnowsStock`: once the outbox is drained the sink knows the stock |
| `example_registrations` | 2 registrations, 2 relays, batches of 2, 2 attempts, 1 rejection, a serializer that may throw | `OnlyRegistrationsAreHandled`; `HandledOncePerRelay`: two overlapping drains, though they retry and start over, run a handler to success twice at most; `AnsweredIsSettled`: an answered registration is handled or dead-lettered in the end |
| `media_slice` | 3 calls, keys that need trimming or are blank, 2 overlapping relays, batches of 2 | `FirstDeliveriesInOrder`, though entries are given twice; `AnsweredIsDelivered` |
| `catalog_calls` | 4 calls, 2 valid contents and a malformed one, failing saves | `PublishedOnce`, `LastEventIsContent`; `PublicationIsSoleClaim` |
| `pricing_calls` | 4 calls, a valid and a malformed currency, 2 amounts, failing saves | `ActivatedOnce`, `LastEventIsAmount`; `ActivationIsSoleClaim` |
| `pricing_single_currency` | 2 calls, 2 currencies | violates `SingleCurrency` (finding 3) |
| `server_health` | production and test environments that differ in two keys, each with every text in variable or file; 2 reports, 2 registrations out of 3 kinds of check, 2 buckets, 2 changes of services | `LoadedConfigIsHealthy`, `ProfileIsKept`, `ReportIsTrue`, `ReportEnds` |
| `container` | the root and a scope, 2 tokens, 3 registrations, 2 instances, 3 nested factory calls | `NoCaptiveDependency`, `SingletonIsWhatItGave` |

**Bounds, and why they are enough.** Two relays are the smallest number that
overlaps; what a third could do to the batch of a first, a second already does.
Two events of one topic show order, a third on another topic shows that topics
share the outbox; batches of 1 and 2 are smaller than the backlog. Two attempts
give a first failure, a retry and exhaustion. `MaxRejections` bounds the drains
that reject, because an unlimited number of them only repeats the same states.
Four calls allow receive, reserve, and two more that overlap (two releases, a
release and a count, two reservations of the last unit); quantities to 2 tell
"all of it" from "part of it", and -1 and 0 are included for the validation.
Two overlapping first receipts fit into four calls too, so the invariants are
checked on duplicated items as well. Two reports overlap, two checks let one be
registered while a report runs, and two changes let a service fail and recover
between two answers; `MaxChecks` and `MaxChanges` are those bounds. A container and a scope below it show what a scope may not
leak; three registrations on two tokens allow a token to be registered again while
its factory runs; three nested calls are a factory that reaches itself through
another. The theorems of section 5 remove all these bounds for the properties they
cover. Symmetry is declared for interchangeable constants, in runs without liveness
only.

**Fairness.** `FairSpec` has weak fairness of `Drain(r)`: the event loop resumes
a call after each `await`. This assumes that the promises of handlers and stores
settle; the code has no timeout, so without that a drain can hang for ever.
Either outcome of a promise remains possible each time: handlers may always
fail. `RedrainSpec` adds that `drainOnce` is called again and again. Nothing in
the repository schedules it, the composition roots only expose it; so
`EventuallyPublished` says what follows if somebody does. `AnsweredIsSettled` and `AnsweredIsDelivered` use
the same assumptions, and `ReportEnds` the corresponding one of `RunStep`, where a hung
service answers nothing; they need no fairness of the use cases, because a call that
does not go on has not changed anything yet, or has already appended its event.
`example_registrations` sets `RecordMayFail` to `FALSE`, because the in-memory store of
that wiring never rejects; `backbone_overlap` covers a store that may.

## 4. Findings

1. *Overlapping drains run a handler twice* (`event-consumer.ts:41`). `has` is
   awaited, the handler runs, and only then `record` is called; two drains that
   fetched the same entry both get "no". `outbox-relay.ts:17-18` calls a re-run
   safe because consumers are idempotent. With one caller at a time the claim is
   right, and is proved (`OnceUnlessDrainsOverlap`); with overlap, a handler succeeds
   no more often than drains overlap (`HandledOncePerOverlappingDrain`).
2. *Two items for one natural key* (`receive-stock.use-case.ts:47`). Two
   overlapping first receipts both find nothing and both create an item. The
   second one's stock can never be reserved or counted, because the lookup
   always returns the first. What still holds is proved: reservations never
   land on an unreachable item (`ReservationsCanBeReleased`), and two first
   receipts that overlap are the only way there
   (`KeysAreNaturalUnlessReceiptsOverlap`).
3. *Prices in other currencies than their list* (`create-price.use-case.ts:45`).
   `price-list.ts:12` calls a list "prices in a single currency"; no use case
   compares the two.

Two more consequences of the code are stated as properties rather than findings,
since no document says otherwise: an undecodable entry blocks the whole outbox
(`UndecodableBlocksOutbox`), and a publication whose event could not be written
cannot be repeated (`PublishedOnce`). A sink that is not idempotent
(`InventorySlice`) is given old levels after new ones when drains overlap; its
properties are therefore claimed for one caller of `drainOutbox`. A blank secret
file, unlike a blank variable, overrides the profile and may so turn the backups
of production off; `ProfileIsKept` excepts it. A hung probe holds its report for
ever (`ReportEnds` says that nothing else does).

## 5. What is proved

`EventBackboneProofs`, from `BackboneAssumption` (types of the constants, at
least one attempt, a batch of at least one), for any sets of relays, events,
topics and consumers:

- `BackboneInvariant`: `Spec => []IInv`; from it `BackboneTypes` (`TypeOK`),
  `NothingLost` (`PublishedOnlyWhenSettled`), `InOrder` (`DeliveredInOrder`);
- `NothingPassesTheUndecodable` (`UndecodableBlocksOutbox`);
- whether or not `record` rejects, `OutcomesPerOverlappingDrain`: if at no time more than
  `n` drains are in progress, the successes and dead letters of an event at a consumer
  are no more than `n` deliveries and one for each drain that rejected come to
  (`PerDelivery`); `RedeliveryIsBounded` (`OutcomesPerDelivery`): the same with the number
  of callers for `n`;
- for a `record` that does not reject, `HandledOncePerOverlappingDrain`: if at no time
  more than `n` drains are in progress (`AtATime(n)`), no handler succeeds more than
  `n` times on an event; `OncePerRelay` (`HandledOncePerRelay`): never more often than
  there are callers; `OnceUnlessDrainsOverlap` (`HandledAtMostOnce`) and
  `OneOutcomeUnlessDrainsOverlap` (`OneOutcome`) for callers that wait for each other
  (`DrainsAreAlone`), in particular one relay (`OnceWithOneRelay`,
  `OneOutcomeWithOneRelay`). The counting ones assume finitely many relays;
- `Refinement`: `Spec => ImplementsDelivery`.

*The argument.* `PublishedOnlyWhenSettled` is not inductive: when a relay marks its
batch, the state does not say why the batch is settled. `DeliveredIsSettled`
follows the batch: a delivery of it that the relay no longer owes was settled,
so when it owes none all are. `DeliveredInOrder` needs to know that what lies
before the batch is out of the way although the batch was read long ago:
`BatchIsOldest` says that every older entry is in the batch or published, which
stays true because entries only ever leave the pending state. `UniqueIds` and
`OnlyWritten` connect ids with positions, `TodoIsOfBatch` the deliveries with
the batch, and `RetryLeft` carries the bound of the attempts. The step lemmas
(`StepKinds`, `StepGrows`) first reduce the twelve actions to what they do to
the settled sets and the batch, so each part of the invariant is shown once per
kind of step. The refinement maps `Settled` to the promise's `settled` and
`published` to `struck`; its step simulation uses `IInv`.

Four more invariants stand on `IInv`. `BlockInv`: only what was decoded is ever
attempted (`AttemptsAreDecodable`), so the undecodable is never settled
(`UndecodableIsUnsettled`), hence never published, and what is behind it is never
reached. `OverlapInv(n)` bounds the successes: counting handlers is not inductive, since
a relay in `handling` or `sleeping` (`Attempting`) may succeed at any moment, so
`HandledWithin` bounds successes and attempts together by `n`. A relay joins the attempts
when it finds the event unrecorded; then every earlier success belongs to a relay that has
yet to record it (`Recording`), these and the attempting ones are different relays, all of
them drains in progress, and there are `n` of those at most.

`OutcomeInv`, while drains do not overlap: a count of successes and dead letters is 0
while the delivery is to come (`Owed`) and 1 from then on (`OutcomeAtTheEnd`); the skip
of a recorded event cannot spoil that, because what is recorded was handled
(`ProcessedWasHandled`) and so is not owed. `DeliveriesInv(n)` bounds the outcomes with or
without overlap and failing records. Besides the outcomes there have been it counts those
that are still due from the deliveries under way (`StillDue`): a delivery is due for fewer
with each attempt (`DueInHand`), so the sum only grows when a drain fetches the event. While
the event is unpublished each delivery of it belongs to a drain that holds it (`Holding`)
or to one that rejected. The first drain that ends otherwise publishes it; from then on
nobody fetches it, and those that held it were `n` at most.

`ExampleProofs`, from `BackboneAssumption` (the topics play no part):

- `ExampleIsBackbone`: `ExampleSpec => Spec`, hence every theorem above holds of the
  wired service, among them `WiredInvariant` (`IInv`), `ExampleImplementsDelivery`
  (`ImplementsDelivery`) and `HandledOncePerCaller` (`HandledOncePerRelay`);
- `OnlyAcceptedAreHandled` (`OnlyRegistrationsAreHandled`), `ExampleTypes`
  (`ExampleTypeOK`);
- `NothingIsOwedOnceDrained`: when no entry is pending, each registration that was
  answered 201 is settled at every consumer. This is the safety half of
  `AnsweredIsSettled`.

*The argument.* Registrations write to the outbox only where `Write` does. Whatever
is published or handled is written: that is `OnlyWritten`, a part of `IInv`.
`WrittenIsAccepted` adds that a written event belongs to a call that was accepted
and saved its example, which no later step takes back. The converse, that an answered call
has its event in the outbox, is a part of `CallsInv`; with `PublishedOnlyWhenSettled` it
gives what an empty outbox means.

`InventoryProofs`, from `InventoryAssumption`, for any sets of calls and keys and
with failing saves: `InventoryInvariant` (`IInv`) and from it `StockIsNeverOversold`
(`NoOversell`), `ReservationsCanBeReleased` (`ReservationsReachable`) and
`ReservedQuantitiesAddUp` (`ReservedIsSumOfReservations`);
`KeysAreNaturalUnlessReceiptsOverlap`: `OneItemPerKey`, in every behaviour in which first
receipts of one key do not overlap (`FirstReceiptsAreAlone`); `PastInvariant` (`PastInv`) and from it `LastEventsTellTheLevels`
(`LastEventIsLevel`) and `ReservationsAreReleasedOnce` (`ReservedUntilReleasedOnce`).

*The argument.* A call acts on what it looked up before an `await`. `FoundIsLookup`
says the lookup would still return the same item: items never change their key
and new ones are appended behind (`SaveKeepsLookups`), even when first receipts
duplicate an item. `FreshIds` says the item a receipt creates does not exist
yet. Hence reservations are only ever made on the item the key leads to, and the
checks of `StockLevel` are made on the item as it is when it changes. The two
properties about what past calls did are not consequences of the present state, so
`PastInv` carries them: a call has no answer before its end (`CallsAnswerOnce`), no
item holds a call's reservation twice (`HeldOnce`), and a reservation has a holder
or a releasing call and never both (`HeldOrReleased`). That the holder is unique uses
`ReservationsReachable`: a release looks in the one item the key leads to.

A sum over a set would need induction over data, so `ReservedIsSumOfReservations` counts
the units reservations set aside (`Units`, each told apart by its reservation): a
reservation adds as many elements as its quantity, disjoint from the others, and a release
takes as many away. `KeyInv` adds to `OneItemPerKey` that a call about to create an item is
still right that there is none; only another first receipt of the key could make it wrong.

For `InventorySlice` (with `BatchAssumption`), in the same module:

- `SliceImplementsInventory`: `SliceSpec => Spec` of `Inventory`, so what is proved of
  the use cases holds while the outbox is drained;
- for one caller of `drainOutbox` (`OneRelay`): `SliceTypes` (`SliceTypeOK`),
  `TheSinkReadsTheOutbox` (`SinkReadsOutbox`) and `TheSinkKnowsTheStock`
  (`SinkKnowsStock`).

*The argument.* Published, delivered and fetched entries are three initial stretches of
the outbox, each as long as the next or shorter (`Stretches`, `DrainInv`), whatever the
use cases append behind them. When nothing is pending the three coincide with the
outbox, so the sink's last event about an item is the outbox's, and
`LastEventIsLevel` says what that tells.

`CatalogProofs`, from `CatalogAssumption`: `CatalogInvariant` (`IInv`), `CatalogTypes`
(`TypeOK`), `ProductsArePublishedOnce` (`PublishedOnce`), `EventsEndWithTheContent`
(`LastEventIsContent`) and `PublicationImplementsSoleClaim`. `PricingProofs`, from
`PricingAssumption`: `PricingInvariant` (`IInv`), `PricingTypes` (`TypeOK`),
`ListsAreActivatedOnce` (`ActivatedOnce`), `EventsEndWithTheAmount`
(`LastEventIsAmount`) and `ActivationImplementsSoleClaim`. For any sets of calls,
contents and currencies.

*The argument.* `PublishedOnce` counts calls, so it needs to be known of each call
where it is: `CallsAreInOrder` gives the reply, the request and what was found at
each point of a call, `PublisherIsSole` (`ActivatorIsSole`) that a product (list) has
one call that changed its status or none, as its status says, and
`AnnouncedByPublisher` that its announcement is of that call. Events name only what
exists (`EventsAreOfProducts`, `EventsAreOfPrices`), so a new product has none; in
Pricing `ChangesAreOfPrices` keeps the counted sets finite and about prices that exist.
The refinements take the call that changed the status for the winner. A step that
changes it is `Win`, since nobody won before; an answer "conflict" is `Refuse`,
since it is given where the status says that somebody won; every other
step leaves the claim alone, which needs that no operation resets a status.

`MediaProofs`, from `MediaAssumption`, for any number of overlapping drains:
`MediaInvariant` (`IInv`), `MediaTypes` (`TypeOK`), `TheSinkMeetsThemInOrder`
(`FirstDeliveriesInOrder`) and `MediaImplementsDelivery` (`ImplementsDelivery`).

*The argument.* Here entries are given twice and marked by others, so the stretches of
the inventory slice are of no use. `BatchIsOldest` says what is before a batch: more
of it, or published entries, which the sink was given. `OwedOrGiven` says that what a
relay no longer owes was given, so the least entry it owes has everything before it
among what was given. The refinement calls an event settled when the sink was given it:
a second delivery is then a stutter, a first one is in order by the above, and a mark
strikes what was given. It is the same promise the event backbone implements: what the
consumer adds to a bare sink is the deduplication, not the delivery.

`ContainerProofs`, from `ContainerAssumption`: `ContainerInvariant` (`IInv`),
`ContainerTypes` (`TypeOK`),
`NothingIsCaptive` (`NoCaptiveDependency`) and `SingletonsAreSingle`
(`SingletonIsWhatItGave`), for any tree of scopes, any factories and any depth.

*The argument.* A lookup goes up the chain of parents, and the chains are a tree
(`ScopesAreATree`), so what can be seen from a container can be seen from whatever is
below it. `FramesAreNested` says that every factory call in progress was given the
container of its own registration, which is above the one its caller was given: as the
calls go inwards they go up. So what returns to a frame comes from above it. For
singletons, `RunsOnce` says that a factory that never reached itself has at most one
call in progress and has kept nothing yet, hence what it returns is the first.

`ServerHealthProofs`, from `HealthAssumption` and `ConfigAssumption`, for any
environments, buckets, kinds of check and number of overlapping reports:
`ServerHealthInvariant` (`IInv`), `ServerHealthTypes` (`TypeOK`), `LoadedConfigsAreHealthy`
(`LoadedConfigIsHealthy`), `ReportsAreTrue` (`ReportIsTrue`) and `ProfilesAreKept`
(`ProfileIsKept`).

*The argument.* A report is a statement about its run, and its run is over when it is made:
`PresentIsSeen` and `ProbesAreTrue` carry what it needs. A probe still waiting has asked
its services in order, and what it no longer has to ask was up when it answered; so a probe
that passed had each of its services up at some moment of the run, and one that failed had
one down. `ReportIsTrue` then follows from how the results are aggregated. What an
accepted configuration has (`LoadedIsComplete`) and which profile decides is a matter of
`ServerConfig`'s operators alone, shown key by key.

*Only model-checked.* Liveness: `DrainEnds`, `EventuallyPublished`, `AnsweredIsSettled`,
`AnsweredIsDelivered` and `ReportEnds`, which need fairness and hence `ENABLED`, beyond the
prover. Every invariant, action property and refinement that a passing run checks is also a
theorem. The inductive invariants were checked with TLC before they were proved; they,
`OneOutcome` and the refinement `ImplementsDelivery` of `Media` are stated by theorems and
not by runs.

## 6. What is not modelled

- The services' ports for production: no broker, database or CDC adapter is in
  the repository, so there is no code to translate. Lost or duplicated messages
  occur only as the redeliveries the relay itself causes.
- `followOnEventContext` and correlation ids: data that no step reads.
- The length of a retry's delay (`RetryPolicy.delayForAttempt`).
- The CQRS buses and the middleware pipeline: no composition root builds them.
  Their handlers and middleware are fixed when they are wired and a dispatch has no
  state of its own, so there is nothing for two dispatches to disturb.
- `ChainedSecretProvider`, feature flags: static lookups nothing on the server path
  calls.
- Redis, ClickHouse, Prisma, object storage, telemetry: thin wrappers around
  external clients.
- Storefront, UI, design tokens, tooling, generators, infrastructure files.

## 7. Plan

1. Done: `EventBackbone` with its promise; `Inventory`, `Catalog`, `Pricing` with
   what their status changes promise; `SinkRelay` and `InventorySlice`; `Example`;
   `Media`; `Container`; `ServerConfig` and `ServerHealth`; all with proofs of their
   safety properties.
2. Proofs: the safety halves of the liveness properties (what has to hold when a drain
   cannot go on, as `NothingIsOwedOnceDrained` is for `AnsweredIsSettled`) for the
   backbone, `Media` and `ServerHealth`.
3. Pure operators: `RetryPolicy.delayForAttempt` with its cap and jitter range,
   against a reference definition.
