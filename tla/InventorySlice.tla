---------------------------- MODULE InventorySlice ----------------------------
(***************************************************************************)
(* wireInventory: the inventory use cases and the relay that drains their  *)
(* outbox into the sink, running on one event loop.  The two share nothing *)
(* but the outbox.                                                         *)
(***************************************************************************)
EXTENDS Inventory

CONSTANTS Relays, BatchSize

ASSUME BatchAssumption == BatchSize \in Nat

VARIABLES published, batch, todo, delivered

(* Mutant: the translator moves on to the next version.                      *)
TopicOf_NextVersion(event) ==
    [type |-> "inventory.inventory_item.adjusted", version |-> 2]

(* InventoryEventTranslator gives every event the same type and version.     *)
TopicOf(event) == [type |-> "inventory.inventory_item.adjusted", version |-> 1]

(* The topics wireInventory subscribes the sink to.                          *)
SinkTopics == {[type |-> "inventory.inventory_item.adjusted", version |-> 1]}

RoutedToSink(p) == TopicOf(outbox[p]) \in SinkTopics

Sink == INSTANCE SinkRelay WITH IsRouted <- RoutedToSink

relayVars == <<published, batch, todo, delivered>>

sliceVars == <<vars, relayVars>>

SliceTypeOK == TypeOK /\ Sink!RelayTypeOK

SliceInit == Init /\ Sink!RelayInit

UseCaseStep == Next /\ UNCHANGED relayVars

DrainStep(r) == Sink!Drain(r) /\ UNCHANGED vars

SliceNext == UseCaseStep \/ \E r \in Relays : DrainStep(r)

SliceSpec == SliceInit /\ [][SliceNext]_sliceVars

-----------------------------------------------------------------------------
(* Properties                                                                *)

(* While one caller drains, the sink reads the outbox: each entry once, in   *)
(* order, though calls append to it in the middle of a drain                 *)
(* (in-memory-bus.ts:7-8).                                                   *)
SinkReadsOutbox ==
    \A i \in DOMAIN delivered : delivered[i] = i

(* The last event the sink was given about an item tells its present levels. *)
SinkKnows(id) ==
    \E i \in DOMAIN delivered :
        /\ outbox[delivered[i]].item = id
        /\ \A j \in DOMAIN delivered : j > i => outbox[delivered[j]].item # id
        /\ outbox[delivered[i]].onHand = items[id].onHand
        /\ outbox[delivered[i]].reserved = items[id].reserved

(* A sink that has read the outbox knows the stock: whenever no entry is      *)
(* left to publish, the last event it was given about an item tells the       *)
(* item's present levels, whatever calls overlapped each other and the        *)
(* drains; an item a save of which failed is excepted.                        *)
SinkKnowsStock ==
    Sink!Pending = {} => \A id \in Stored : SinkKnows(id) \/ SaveFailed(id)
=============================================================================
