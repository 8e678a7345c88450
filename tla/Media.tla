-------------------------------- MODULE Media --------------------------------
(***************************************************************************)
(* services/media: wireMedia, the registration of assets together with the *)
(* relay that drains the service's outbox into its sink.  Overlapping      *)
(* callers of drainOutbox are allowed.                                     *)
(*                                                                         *)
(* RegisterAsset does not await before it saves, so a call runs from its   *)
(* validation to the append of its event without interruption.  It         *)
(* generates one asset id, so the call stands for the asset.               *)
(***************************************************************************)
EXTENDS Naturals, Sequences

CONSTANTS
    Calls,               \* calls of the controller
    RawKeys,             \* storage keys as callers send them
    Trimmed,             \* what String.trim makes of each of them
    Blank,               \* the empty string
    ContentTypes,        \* content types as callers send them
    Malformed,           \* those that are not of the form type/subtype
    NoAsset,             \* null
    SerializerMayThrow,  \* TRUE iff serializing an event may throw
    Relays,              \* callers of drainOutbox that may overlap
    BatchSize            \* OutboxRelayDeps.batchSize

ASSUME MediaAssumption ==
    /\ DOMAIN Trimmed = RawKeys
    /\ Malformed \subseteq ContentTypes
    /\ SerializerMayThrow \in BOOLEAN
    /\ BatchSize \in Nat \ {0}

VARIABLES
    pc,         \* how far each call has come
    reply,      \* how it ended
    assets,     \* the repository's Map
    outbox,     \* the media.asset_ready events appended, oldest first
    published, batch, todo, delivered

callVars  == <<pc, reply, assets>>
relayVars == <<published, batch, todo, delivered>>
vars      == <<callVars, outbox, relayVars>>

-----------------------------------------------------------------------------
(* Assets, events and their route                                           *)

Inputs == [storageKey : RawKeys, contentType : ContentTypes]

(* StorageKey.create refuses what trims to nothing, ContentType.create what *)
(* does not match its pattern.                                              *)
KeyAccepted(raw) == Trimmed[raw] # Blank

TypeAccepted(contentType) == contentType \notin Malformed

Valid(input) == KeyAccepted(input.storageKey) /\ TypeAccepted(input.contentType)

Asset ==
    [storageKey : {Trimmed[raw] : raw \in RawKeys} \ {Blank},
     contentType : ContentTypes \ Malformed]

(* Asset.register, with the key that StorageKey keeps.                      *)
Registered(input) ==
    [storageKey |-> Trimmed[input.storageKey], contentType |-> input.contentType]

(* MediaAssetReady: the asset's id and what was registered.                 *)
AssetReady(id, asset) == [asset |-> id, data |-> asset]

(* Mutant: the translator moves on to the next version.                     *)
TopicOf_NextVersion(event) == [type |-> "media.asset.ready", version |-> 2]

(* MediaEventTranslator gives every event the same type and version.        *)
TopicOf(event) == [type |-> "media.asset.ready", version |-> 1]

(* The topics wireMedia subscribes the sink to.                             *)
SinkTopics == {[type |-> "media.asset.ready", version |-> 1]}

RoutedToSink(p) == TopicOf(outbox[p]) \in SinkTopics

Sink == INSTANCE SinkRelay WITH IsRouted <- RoutedToSink

TypeOK ==
    /\ pc \in [Calls -> {"new", "saved", "done"}]
    /\ reply \in [Calls -> {"none", "created", "invalid", "rejected"}]
    /\ assets \in [Calls -> Asset \cup {NoAsset}]
    /\ outbox \in Seq([asset : Calls, data : Asset])
    /\ Sink!RelayTypeOK

-----------------------------------------------------------------------------
(* Actions                                                                  *)

Init ==
    /\ pc = [c \in Calls |-> "new"]
    /\ reply = [c \in Calls |-> "none"]
    /\ assets = [c \in Calls |-> NoAsset]
    /\ outbox = <<>>
    /\ Sink!RelayInit

End(c, status) ==
    /\ pc' = [pc EXCEPT ![c] = "done"]
    /\ reply' = [reply EXCEPT ![c] = status]

(* The value objects refuse the input; present answers 422.                 *)
Refuse(c) ==
    /\ pc[c] = "new"
    /\ \E input \in Inputs : ~Valid(input)
    /\ End(c, "invalid")
    /\ UNCHANGED <<assets, outbox>>

(* Mutant: the event is emitted before the asset is in the Map, and a       *)
(* serializer that throws is ignored.                                       *)
Save_Swallowed(c, asset) ==
    /\ assets' = [assets EXCEPT ![c] = asset]
    /\ outbox' \in {Append(outbox, AssetReady(c, asset)), outbox}
    /\ pc' = [pc EXCEPT ![c] = "saved"]
    /\ UNCHANGED reply

(* repository.save: the Map is set, the event is pulled and written.  When  *)
(* the serializer throws, the asset stays and its event is gone.            *)
Save(c, asset) ==
    /\ assets' = [assets EXCEPT ![c] = asset]
    /\ \/ /\ outbox' = Append(outbox, AssetReady(c, asset))
          /\ pc' = [pc EXCEPT ![c] = "saved"]
          /\ UNCHANGED reply
       \/ /\ SerializerMayThrow
          /\ End(c, "rejected")
          /\ UNCHANGED outbox

(* Mutant: the key's pattern is not checked.                                *)
RegisterAsset_AnyKey(c, input) ==
    /\ pc[c] = "new"
    /\ TypeAccepted(input.contentType)
    /\ Save(c, Registered(input))

RegisterAsset(c, input) ==
    /\ pc[c] = "new"
    /\ Valid(input)
    /\ Save(c, Registered(input))

(* The awaited save returns; present answers 201.                           *)
Answer(c) ==
    /\ pc[c] = "saved"
    /\ End(c, "created")
    /\ UNCHANGED <<assets, outbox>>

UseCaseStep(c) ==
    /\ \/ Refuse(c) \/ Answer(c)
       \/ \E input \in Inputs : RegisterAsset(c, input)
    /\ UNCHANGED relayVars

DrainStep(r) == Sink!Drain(r) /\ UNCHANGED callVars

Next == (\E c \in Calls : UseCaseStep(c)) \/ (\E r \in Relays : DrainStep(r))

Spec == Init /\ [][Next]_vars

(* drainOutbox is called again and again, and a drain goes on after each    *)
(* await.                                                                   *)
FairSpec == Spec /\ \A r \in Relays : WF_vars(DrainStep(r))

-----------------------------------------------------------------------------
(* Properties                                                               *)

(* The sink meets the entries in outbox order: before an entry is given to  *)
(* it, each earlier one has been, and a published entry has been too,       *)
(* though overlapping drains give it some of them twice and out of order    *)
(* (outbox-relay.ts:17-18, in-memory-bus.ts:7-8).                           *)
FirstDeliveriesInOrder ==
    LET GivenBefore(p, i) == \E j \in 1..i : delivered[j] = p
    IN  /\ \A i \in DOMAIN delivered : \A p \in 1..delivered[i] : GivenBefore(p, i)
        /\ \A p \in published : GivenBefore(p, Len(delivered))

(* The caller of a registration that was answered 201 finds its asset, as   *)
(* it is in the repository, among what the sink was given, sooner or later  *)
(* (register-asset.use-case.ts:28).                                         *)
AnsweredIsDelivered ==
    \A c \in Calls :
        reply[c] = "created" ~>
            /\ assets[c] \in Asset
            /\ \E i \in DOMAIN delivered :
                  outbox[delivered[i]] = AssetReady(c, assets[c])

(* The entries the sink was given.                                          *)
Given == {delivered[i] : i \in DOMAIN delivered}

AssetsOf(entries) == {outbox[p].asset : p \in entries}

(* Without EventConsumer, an event is settled at the sink when it was given *)
(* to it.                                                                   *)
Delivery == INSTANCE AtLeastOnceDelivery WITH
    Events <- Calls,
    Subscribers <- {"sink"},
    ListenersOf <- [c \in Calls |-> {"sink"}],
    sent <- [p \in DOMAIN outbox |-> outbox[p].asset],
    settled <- [s \in {"sink"} |-> AssetsOf(Given)],
    struck <- AssetsOf(published)

(* Registrations, the relay and the sink keep the promise the event         *)
(* backbone makes, though nothing between the bus and the sink skips what   *)
(* was given twice (outbox-relay.ts:29-38, in-memory-bus.ts:7-8).           *)
ImplementsDelivery == Delivery!Spec

-----------------------------------------------------------------------------
(* The inductive invariant                                                  *)

(* What a relay holds was the oldest pending work when it was fetched, and  *)
(* entries only ever leave the pending state.                               *)
BatchIsOldest ==
    \A r \in Relays : \A p \in batch[r], q \in DOMAIN outbox :
        q < p => q \in batch[r] \/ q \in published

(* What a relay holds and no longer owes was given to the sink.             *)
OwedOrGiven == \A r \in Relays : \A p \in batch[r] : p \in todo[r] \/ p \in Given

TodoIsOfBatch == \A r \in Relays : todo[r] \subseteq batch[r]

(* A call appends its event when it leaves its first state.                 *)
EventsAreOfPast == \A p \in DOMAIN outbox : pc[outbox[p].asset] # "new"

(* The strengthening of FirstDeliveriesInOrder that every step preserves.   *)
IInv ==
    /\ TypeOK
    /\ BatchIsOldest
    /\ OwedOrGiven
    /\ TodoIsOfBatch
    /\ FirstDeliveriesInOrder
=============================================================================
