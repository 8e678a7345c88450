------------------------------ MODULE Inventory ------------------------------
(***************************************************************************)
(* services/inventory: stock on hand and reserved per product and          *)
(* warehouse, changed by four use cases that run concurrently on one       *)
(* event loop.                                                             *)
(*                                                                         *)
(* Each use case looks its item up, awaits, and then, in one uninterrupted *)
(* stretch, changes the item, saves it and appends its event to the        *)
(* outbox; it awaits that save and answers.  Calls interleave at these two *)
(* awaits.  InMemoryUnitOfWork.run adds no isolation: it only calls the    *)
(* work it is given.                                                       *)
(*                                                                         *)
(* An id is generated at most once per purpose by a call, so the call      *)
(* itself stands for the item or the reservation it creates.               *)
(***************************************************************************)
EXTENDS Integers, Sequences, FiniteSets

CONSTANTS
    Calls,              \* calls of the controller, in any order and overlap
    Keys,               \* <<product, warehouse>> pairs
    MaxQuantity,        \* bound on the quantities that callers send
    NoItem,             \* null
    SerializerMayThrow  \* TRUE iff serializing an event may throw

ASSUME InventoryAssumption ==
    /\ MaxQuantity \in Nat
    /\ NoItem \notin Calls
    /\ SerializerMayThrow \in BOOLEAN

VARIABLES
    pc,        \* how far each call has come
    request,   \* the input of each call that passed validation
    found,     \* the item its lookup returned
    reply,     \* how each call ended
    store,     \* the repository's Map: item ids in insertion order
    items,     \* the item objects, by id
    outbox     \* the inventory.adjusted events appended, oldest first

vars == <<pc, request, found, reply, store, items, outbox>>

callVars == <<pc, request, found, reply>>
stock    == <<store, items, outbox>>

-----------------------------------------------------------------------------
(* Requests and items                                                       *)

Quantities == -1..MaxQuantity

Movements ==
    [op : {"receive", "reserve", "adjust"}, key : Keys, quantity : Quantities]

Releases == [op : {"release"}, key : Keys, reservation : Calls]

Requests == Movements \cup Releases

(* Mutant: any integer is a quantity.                                        *)
Valid_AnyInteger(req) == req \in Requests

(* Quantity.create takes integers from 1, AdjustInventory integers from 0;   *)
(* an unknown reservation id is found out only by the item.                  *)
Valid(req) ==
    /\ req.op \in {"receive", "reserve"} => req.quantity >= 1
    /\ req.op = "adjust" => req.quantity >= 0

Reservations == [id : Calls, quantity : Nat]

Item ==
    [key : Keys, onHand : Nat, reserved : Nat, reservations : SUBSET Reservations]

(* InventoryItem.create and StockLevel.zero.                                 *)
NewItem(key) == [key |-> key, onHand |-> 0, reserved |-> 0, reservations |-> {}]

Event ==
    [item : Calls, reason : {"received", "reserved", "released", "adjusted"},
     onHand : Nat, reserved : Nat]

Stored == {store[i] : i \in DOMAIN store}

Available(item) == item.onHand - item.reserved

(* What the methods of InventoryItem and StockLevel make of an item, and     *)
(* when they refuse to.                                                      *)
Received(item, n) == [item EXCEPT !.onHand = @ + n]

Insufficient(item, n) == Available(item) < n

Reserved(item, id, n) ==
    [item EXCEPT !.reserved = @ + n,
                 !.reservations = @ \cup {[id |-> id, quantity |-> n]}]

Held(item, id) == {r \in item.reservations : r.id = id}

(* StockLevel.release: the reserved quantity is clamped at zero.             *)
GivenBack(item, n) == IF item.reserved >= n THEN item.reserved - n ELSE 0

Released(item, r) ==
    [item EXCEPT !.reserved = GivenBack(item, r.quantity),
                 !.reservations = @ \ {r}]

BelowReserved(item, n) == n < item.reserved

Adjusted(item, n) == [item EXCEPT !.onHand = n]

(* InventoryItem.recordAdjustment: the event carries the resulting levels.   *)
AdjustmentOf(id, item, reason) ==
    [item |-> id, reason |-> reason, onHand |-> item.onHand, reserved |-> item.reserved]

PositionsOf(key) == {i \in DOMAIN store : items[store[i]].key = key}

(* Mutant: a later item of the same product and warehouse hides an earlier.  *)
IsFirst_Latest(i, key) == i \in PositionsOf(key) /\ \A j \in PositionsOf(key) : j <= i

(* findByProductAndWarehouse scans the Map in insertion order.               *)
IsFirst(i, key) == i \in PositionsOf(key) /\ \A j \in PositionsOf(key) : i <= j

Lookup(key) ==
    IF \E i \in DOMAIN store : IsFirst(i, key)
    THEN store[CHOOSE i \in DOMAIN store : IsFirst(i, key)]
    ELSE NoItem

TypeOK ==
    /\ pc \in [Calls -> {"new", "found", "saved", "done"}]
    /\ request \in [Calls -> Requests \cup {NoItem}]
    /\ found \in [Calls -> Calls \cup {NoItem}]
    /\ reply \in [Calls -> {"none", "ok", "invalid", "notFound", "conflict", "rejected"}]
    /\ store \in Seq(Calls)
    /\ items \in [Calls -> Item \cup {NoItem}]
    /\ outbox \in Seq(Event)
    /\ \A c \in Calls : pc[c] \in {"found", "saved"} =>
                          request[c] \in Requests /\ Valid(request[c])
    /\ \A c \in Stored : items[c] \in Item

-----------------------------------------------------------------------------
(* Actions                                                                   *)

Init ==
    /\ pc = [c \in Calls |-> "new"]
    /\ request = [c \in Calls |-> NoItem]
    /\ found = [c \in Calls |-> NoItem]
    /\ reply = [c \in Calls |-> "none"]
    /\ store = <<>>
    /\ items = [c \in Calls |-> NoItem]
    /\ outbox = <<>>

End(c, status) ==
    /\ pc' = [pc EXCEPT ![c] = "done"]
    /\ reply' = [reply EXCEPT ![c] = status]
    /\ UNCHANGED <<request, found>>

(* The value objects refuse the input before anything is read.               *)
Refuse(c) ==
    /\ pc[c] = "new"
    /\ \E req \in Requests : ~Valid(req)
    /\ End(c, "invalid")
    /\ UNCHANGED stock

(* A use case validates its input, starts its unit of work and looks the     *)
(* item up; the repository's scan is over before the first await.            *)
Find(c, req) ==
    /\ pc[c] = "new"
    /\ Valid(req)
    /\ request' = [request EXCEPT ![c] = req]
    /\ found' = [found EXCEPT ![c] = Lookup(req.key)]
    /\ pc' = [pc EXCEPT ![c] = "found"]
    /\ UNCHANGED <<reply, stock>>

(* ReserveStock, ReleaseReservation and AdjustInventory need an item.        *)
NotFound(c) ==
    /\ pc[c] = "found"
    /\ request[c].op # "receive"
    /\ found[c] = NoItem
    /\ End(c, "notFound")
    /\ UNCHANGED stock

(* repository.save: the Map is set, an id it holds keeping its place, the    *)
(* item's event is pulled and written to the outbox.  When the serializer    *)
(* throws, the item stays changed and the pulled event is gone.              *)
Save(c, id, item, reason) ==
    /\ items' = [items EXCEPT ![id] = item]
    /\ store' = IF id \in Stored THEN store ELSE Append(store, id)
    /\ \/ /\ outbox' = Append(outbox, AdjustmentOf(id, item, reason))
          /\ pc' = [pc EXCEPT ![c] = "saved"]
          /\ UNCHANGED <<request, found, reply>>
       \/ /\ SerializerMayThrow
          /\ End(c, "rejected")
          /\ UNCHANGED outbox

(* ReceiveStock: the item its lookup returned, or a new one.                 *)
ReceiveStock(c) ==
    /\ pc[c] = "found"
    /\ request[c].op = "receive"
    /\ LET id   == IF found[c] = NoItem THEN c ELSE found[c]
           item == IF found[c] = NoItem THEN NewItem(request[c].key) ELSE items[id]
       IN  Save(c, id, Received(item, request[c].quantity), "received")

(* The request c is about an item that was found.                            *)
ActsOnItem(c, op) == pc[c] = "found" /\ request[c].op = op /\ found[c] # NoItem

(* Mutant: the check is against the stock on hand.                           *)
ReserveStock_OnHand(c) ==
    /\ ActsOnItem(c, "reserve")
    /\ LET item == items[found[c]]
           n    == request[c].quantity
       IN  IF item.onHand < n
           THEN End(c, "conflict") /\ UNCHANGED stock
           ELSE Save(c, found[c], Reserved(item, c, n), "reserved")

(* StockLevel.reserve checks what is available when the item is changed, not *)
(* when it was looked up.                                                    *)
ReserveStock(c) ==
    /\ ActsOnItem(c, "reserve")
    /\ LET item == items[found[c]]
           n    == request[c].quantity
       IN  IF Insufficient(item, n)
           THEN End(c, "conflict") /\ UNCHANGED stock
           ELSE Save(c, found[c], Reserved(item, c, n), "reserved")

(* Mutant: the released reservation is not removed.                          *)
ReleaseReservation_Kept(c) ==
    /\ ActsOnItem(c, "release")
    /\ LET item == items[found[c]]
           id   == request[c].reservation
       IN  \/ /\ Held(item, id) = {}
              /\ End(c, "conflict")
              /\ UNCHANGED stock
           \/ \E r \in Held(item, id) :
                 Save(c, found[c],
                      [item EXCEPT !.reserved = GivenBack(item, r.quantity)],
                      "released")

ReleaseReservation(c) ==
    /\ ActsOnItem(c, "release")
    /\ LET item == items[found[c]]
           id   == request[c].reservation
       IN  \/ /\ Held(item, id) = {}
              /\ End(c, "conflict")
              /\ UNCHANGED stock
           \/ \E r \in Held(item, id) :
                 Save(c, found[c], Released(item, r), "released")

(* Mutants: a count starts from a fresh stock level; it emits no event.      *)
AdjustInventory_Fresh(c) ==
    /\ ActsOnItem(c, "adjust")
    /\ Save(c, found[c],
            [items[found[c]] EXCEPT !.onHand = request[c].quantity, !.reserved = 0],
            "adjusted")

AdjustInventory_Silent(c) ==
    /\ ActsOnItem(c, "adjust")
    /\ request[c].quantity >= items[found[c]].reserved
    /\ items' = [items EXCEPT ![found[c]].onHand = request[c].quantity]
    /\ pc' = [pc EXCEPT ![c] = "saved"]
    /\ UNCHANGED <<request, found, reply, store, outbox>>

AdjustInventory(c) ==
    /\ ActsOnItem(c, "adjust")
    /\ LET item == items[found[c]]
           n    == request[c].quantity
       IN  IF BelowReserved(item, n)
           THEN End(c, "conflict") /\ UNCHANGED stock
           ELSE Save(c, found[c], Adjusted(item, n), "adjusted")

(* The awaited save returns and the use case answers.                        *)
Answer(c) ==
    /\ pc[c] = "saved"
    /\ End(c, "ok")
    /\ UNCHANGED stock

Next ==
    \E c \in Calls :
        \/ Refuse(c) \/ NotFound(c) \/ Answer(c)
        \/ \E req \in Requests : Find(c, req)
        \/ ReceiveStock(c) \/ ReserveStock(c)
        \/ ReleaseReservation(c) \/ AdjustInventory(c)

Spec == Init /\ [][Next]_vars

-----------------------------------------------------------------------------
(* Properties                                                                *)

(* The call has changed an item, whether or not its event was written.       *)
Applied(c) == pc[c] = "saved" \/ reply[c] \in {"ok", "rejected"}

(* No item ever promises more stock than it has: the checks in StockLevel    *)
(* (stock-level.ts:52-69) are made on the item as it is when it changes, so  *)
(* calls that looked it up together cannot both take the last unit, and a    *)
(* stock count cannot take away what was reserved meanwhile.                 *)
NoOversell ==
    \A id \in Stored : items[id].reserved <= items[id].onHand

(* The units that reservations set aside, each told apart from the others.   *)
Units(reservations) == UNION {{r} \X (1..r.quantity) : r \in reservations}

(* The reserved quantity of an item is what its open reservations add up     *)
(* to: it is kept twice (inventory-item.ts:41-61), and Math.max(0, ...) in   *)
(* StockLevel.release would hide a difference.                               *)
ReservedIsSumOfReservations ==
    \A id \in Stored : items[id].reserved = Cardinality(Units(items[id].reservations))

(* The calls that have released a reservation.                               *)
ReleasesOf(reservation) ==
    {c \in Calls : /\ Applied(c)
                   /\ request[c].op = "release"
                   /\ request[c].reservation = reservation}

Holders(reservation) ==
    {id \in Stored : Held(items[id], reservation) # {}}

(* A reservation that was made is held by one item until one call releases   *)
(* it, and by none after that: overlapping releases do not give its units    *)
(* back twice, and no other call drops it (inventory-item.ts:53-61).         *)
ReservedUntilReleasedOnce ==
    \A c \in Calls :
        Applied(c) /\ request[c].op = "reserve" =>
            Cardinality(Holders(c)) + Cardinality(ReleasesOf(c)) = 1

(* The item c created or found was changed, but its event was not written.   *)
SaveFailed(id) == \E c \in Calls : reply[c] = "rejected" /\ id \in {c, found[c]}

(* The last event in the outbox about an item tells its present levels       *)
(* (inventory-item.ts:20: every quantity change emits inventory.adjusted,    *)
(* carrying the resulting levels), so a consumer that has read the outbox    *)
(* in order knows the stock, whatever calls overlapped, unless a save of the *)
(* item failed.                                                              *)
LastEventIsLevel ==
    \A id \in Stored : ~SaveFailed(id) =>
        \E i \in DOMAIN outbox :
            /\ outbox[i].item = id
            /\ \A j \in DOMAIN outbox : j > i => outbox[j].item # id
            /\ outbox[i].onHand = items[id].onHand
            /\ outbox[i].reserved = items[id].reserved

(* A reservation can be released by naming its product and warehouse: an     *)
(* item that holds reservations is the one that findByProductAndWarehouse    *)
(* returns, also when overlapping first receipts made several items.         *)
ReservationsReachable ==
    \A id \in Stored :
        items[id].reservations # {} => Lookup(items[id].key) = id

(* There is one item per product and warehouse, which                        *)
(* domain/inventory-item-repository.ts:7 calls the natural key.              *)
OneItemPerKey ==
    \A a, b \in Stored : items[a].key = items[b].key => a = b

(* A receipt that found no item is about to create one.                      *)
FirstReceipt(c) ==
    /\ pc[c] = "found"
    /\ request[c].op = "receive"
    /\ found[c] = NoItem

(* First receipts of the same product and warehouse do not overlap.          *)
FirstReceiptsAreAlone ==
    \A c, d \in Calls :
        FirstReceipt(c) /\ FirstReceipt(d) /\ request[c].key = request[d].key => c = d

-----------------------------------------------------------------------------
(* The inductive invariant                                                   *)

(* What a call found is still what a lookup would return.                    *)
FoundIsLookup ==
    \A c \in Calls : found[c] # NoItem =>
        /\ found[c] \in Stored
        /\ items[found[c]].key = request[c].key
        /\ Lookup(request[c].key) = found[c]

(* A call creates its item when it applies, not before.                      *)
FreshIds == \A c \in Stored : pc[c] \in {"saved", "done"}

(* The strengthening of NoOversell and ReservationsReachable that every step *)
(* preserves.                                                                *)
IInv ==
    /\ TypeOK
    /\ FoundIsLookup
    /\ FreshIds
    /\ NoOversell
    /\ ReservationsReachable

(* A call has no answer before its end.                                      *)
CallsAnswerOnce == \A c \in Calls : pc[c] # "done" => reply[c] = "none"

(* A reservation is of one call; from its making on it is held by one item   *)
(* or released by one call.                                                  *)
HeldOnce ==
    \A c \in Calls : \A id \in Stored : \A r, s \in Held(items[id], c) : r = s

HeldOrReleased ==
    \A c \in Calls :
        IF Applied(c) /\ request[c].op = "reserve"
        THEN \/ ReleasesOf(c) = {} /\ \E id \in Stored : Holders(c) = {id}
             \/ Holders(c) = {} /\ \E d \in Calls : ReleasesOf(c) = {d}
        ELSE Holders(c) = {} /\ ReleasesOf(c) = {}

(* What past saves leave behind, which every step preserves together with    *)
(* IInv.                                                                     *)
PastInv ==
    /\ CallsAnswerOnce
    /\ LastEventIsLevel
    /\ HeldOnce
    /\ HeldOrReleased

(* Every stored item's key leads to an item, and a call that is about to     *)
(* create an item is still right that there is none.                         *)
KeyInv ==
    /\ OneItemPerKey
    /\ \A id \in Stored : Lookup(items[id].key) # NoItem
    /\ \A c \in Calls : FirstReceipt(c) =>
          \A id \in Stored : items[id].key # request[c].key
=============================================================================
