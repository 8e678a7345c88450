--------------------------- MODULE InventoryProofs ---------------------------
(***************************************************************************)
(* Proofs about Inventory, for any number of calls, keys and quantities,   *)
(* and about InventorySlice: what the use cases promise is kept when       *)
(* relays run between them, and what one relay gives the sink.             *)
(***************************************************************************)
EXTENDS InventorySlice, FiniteSetTheorems, TLAPS

USE InventoryAssumption

-----------------------------------------------------------------------------
(* The repository                                                           *)

(* A lookup returns an item exactly when the item is the first one stored   *)
(* under its key.                                                           *)
LEMMA LookupIsFirst ==
    ASSUME TypeOK, NEW key, NEW id \in Calls
    PROVE  Lookup(key) = id <=> \E i \in DOMAIN store : IsFirst(i, key) /\ store[i] = id
  <1>1. DOMAIN store \subseteq Int
    BY DEF TypeOK
  <1>2. \A i, j \in DOMAIN store : IsFirst(i, key) /\ IsFirst(j, key) => i = j
    BY <1>1 DEF IsFirst, PositionsOf
  <1>3. CASE \E i \in DOMAIN store : IsFirst(i, key)
    BY <1>2, <1>3 DEF Lookup
  <1>4. CASE ~ \E i \in DOMAIN store : IsFirst(i, key)
    BY <1>4 DEF Lookup
  <1> QED
    BY <1>3, <1>4

(* What a lookup returns is stored under the key it was asked for.          *)
LEMMA LookupIsStored ==
    ASSUME TypeOK, NEW key, Lookup(key) # NoItem
    PROVE  Lookup(key) \in Stored /\ items[Lookup(key)].key = key
  <1>1. PICK i \in DOMAIN store : IsFirst(i, key) /\ store[i] = Lookup(key)
    BY DEF Lookup
  <1> QED
    BY <1>1 DEF IsFirst, PositionsOf, Stored

(* Saving an item under its own key keeps the Map's order: every lookup     *)
(* that returned an item still returns it.                                  *)
LEMMA SaveKeepsLookups ==
    ASSUME TypeOK,
           NEW id \in Calls, NEW item \in Item,
           id \in Stored => item.key = items[id].key,
           items' = [items EXCEPT ![id] = item],
           store' = IF id \in Stored THEN store ELSE Append(store, id)
    PROVE  /\ store' \in Seq(Calls)
           /\ items' \in [Calls -> Item \cup {NoItem}]
           /\ Stored' = Stored \cup {id}
           /\ items'[id] = item
           /\ \A other \in Calls \ {id} : items'[other] = items[other]
           /\ \A other \in Stored : items'[other].key = items[other].key
           /\ \A key : \A x \in Calls : Lookup(key) = x => Lookup(key)' = x
  <1>1. /\ store \in Seq(Calls)
        /\ items \in [Calls -> Item \cup {NoItem}]
        /\ Stored \subseteq Calls
    BY DEF TypeOK, Stored
  <1>2. /\ store' \in Seq(Calls)
        /\ DOMAIN store \subseteq DOMAIN store'
        /\ \A i \in DOMAIN store : store'[i] = store[i]
        /\ \A i \in DOMAIN store' \ DOMAIN store :
              /\ store'[i] = id
              /\ \A j \in DOMAIN store : j <= i
        /\ id \notin Stored => \E i \in DOMAIN store' : store'[i] = id
    <2>1. CASE id \in Stored
      BY <1>1, <2>1
    <2>2. CASE id \notin Stored
      <3>1. /\ store' = Append(store, id)
            /\ Len(store) \in Nat
            /\ DOMAIN store = 1..Len(store)
            /\ DOMAIN store' = 1..(Len(store) + 1)
            /\ store' \in Seq(Calls)
            /\ \A i \in 1..Len(store) : store'[i] = store[i]
            /\ store'[Len(store) + 1] = id
        BY <1>1, <2>2
      <3> QED
        BY <3>1
    <2> QED
      BY <2>1, <2>2
  <1>3. Stored' = Stored \cup {id}
    BY <1>2 DEF Stored
  <1>4. /\ items' \in [Calls -> Item \cup {NoItem}]
        /\ items'[id] = item
        /\ \A other \in Calls \ {id} : items'[other] = items[other]
    BY <1>1
  <1>5. \A other \in Stored : items'[other].key = items[other].key
    BY <1>1, <1>4
  <1>6. ASSUME NEW key, NEW x \in Calls, Lookup(key) = x
        PROVE  Lookup(key)' = x
    <2>1. PICK i \in DOMAIN store : IsFirst(i, key) /\ store[i] = x
      BY <1>6, LookupIsFirst
    <2>2. i \in DOMAIN store' /\ store'[i] = x /\ items'[x].key = key
      BY <1>2, <1>5, <2>1 DEF IsFirst, PositionsOf, Stored
    <2>3. ASSUME NEW j \in PositionsOf(key)' PROVE i <= j
      <3>1. CASE j \in DOMAIN store
        <4>1. j \in PositionsOf(key)
          BY <1>2, <1>5, <2>3, <3>1 DEF PositionsOf, Stored
        <4> QED
          BY <2>1, <4>1 DEF IsFirst
      <3>2. CASE j \notin DOMAIN store
        BY <1>2, <2>1, <2>3, <3>2 DEF PositionsOf
      <3> QED
        BY <3>1, <3>2
    <2>4. IsFirst(i, key)'
      BY <2>2, <2>3 DEF IsFirst, PositionsOf
    <2>5. DOMAIN store' \subseteq Int
      BY <1>2
    <2>6. \A j \in DOMAIN store' : IsFirst(j, key)' => j = i
      BY <2>4, <2>5 DEF IsFirst, PositionsOf
    <2> QED
      BY <2>2, <2>4, <2>6 DEF Lookup
  <1> QED
    BY <1>2, <1>3, <1>4, <1>5, <1>6

-----------------------------------------------------------------------------
(* The invariant                                                            *)

(* A call that ends without touching the stock preserves the invariant.     *)
LEMMA EndKeepsInvariant ==
    ASSUME IInv, NEW c \in Calls,
           NEW status \in {"ok", "invalid", "notFound", "conflict", "rejected"},
           End(c, status), UNCHANGED stock
    PROVE  IInv'
  <1> USE DEF IInv, End, stock
  <1>1. TypeOK'
    BY DEF TypeOK, Stored
  <1>2. Stored' = Stored /\ \A key : Lookup(key)' = Lookup(key)
    BY DEF Stored, Lookup, IsFirst, PositionsOf
  <1>3. FoundIsLookup'
    BY <1>2 DEF FoundIsLookup
  <1>4. FreshIds'
    BY <1>2 DEF FreshIds, TypeOK, Stored
  <1>5. NoOversell' /\ ReservationsReachable'
    BY <1>2 DEF NoOversell, ReservationsReachable
  <1> QED
    BY <1>1, <1>3, <1>4, <1>5

(* A save preserves the invariant when the saved item is a stored one or    *)
(* the call's own new one, keeps its key, does not promise more than it     *)
(* has, and is the one its key leads to if it holds reservations.           *)
LEMMA SaveKeepsInvariant ==
    ASSUME IInv, NEW c \in Calls, pc[c] = "found",
           NEW id \in Calls, NEW item \in Item,
           NEW reason \in {"received", "reserved", "released", "adjusted"},
           id \in Stored => item.key = items[id].key,
           id \notin Stored => id = c,
           item.reserved <= item.onHand,
           item.reservations # {} => Lookup(item.key) = id,
           Save(c, id, item, reason)
    PROVE  IInv'
  <1> USE DEF IInv
  <1>1. /\ store' \in Seq(Calls)
        /\ items' \in [Calls -> Item \cup {NoItem}]
        /\ Stored' = Stored \cup {id}
        /\ items'[id] = item
        /\ \A other \in Calls \ {id} : items'[other] = items[other]
        /\ \A other \in Stored : items'[other].key = items[other].key
        /\ \A key : \A x \in Calls : Lookup(key) = x => Lookup(key)' = x
    BY SaveKeepsLookups DEF Save
  <1>2. Stored \subseteq Calls
    BY DEF TypeOK, Stored
  <1>3. /\ request' = request /\ found' = found
        /\ pc' \in [Calls -> {"new", "found", "saved", "done"}]
        /\ pc'[c] \in {"saved", "done"}
        /\ \A other \in Calls \ {c} : pc'[other] = pc[other]
        /\ reply' \in [Calls -> {"none", "ok", "invalid", "notFound", "conflict", "rejected"}]
    BY DEF Save, End, TypeOK
  <1>4. outbox' \in Seq(Event)
    <2>1. AdjustmentOf(id, item, reason) \in Event
      BY DEF AdjustmentOf, Event, Item
    <2>2. \/ outbox' = Append(outbox, AdjustmentOf(id, item, reason))
          \/ outbox' = outbox
      BY DEF Save
    <2>3. outbox \in Seq(Event)
      BY DEF TypeOK
    <2> QED
      BY <2>1, <2>2, <2>3
  <1>5. TypeOK'
    <2>1. \A other \in Calls : pc'[other] \in {"found", "saved"} =>
              request'[other] \in Requests /\ Valid(request'[other])
      BY <1>3 DEF TypeOK
    <2>2. \A other \in Stored' : items'[other] \in Item
      BY <1>1, <1>2 DEF TypeOK
    <2> QED
      BY <1>1, <1>3, <1>4, <2>1, <2>2 DEF TypeOK, Valid
  <1>6. FoundIsLookup'
    BY <1>1, <1>3 DEF FoundIsLookup, TypeOK
  <1>7. FreshIds'
    BY <1>1, <1>2, <1>3 DEF FreshIds
  <1>8. NoOversell'
    BY <1>1, <1>2 DEF NoOversell
  <1>9. ReservationsReachable'
    <2>1. ASSUME NEW other \in Stored', items'[other].reservations # {}
          PROVE  Lookup(items'[other].key) = other
      BY <1>1, <1>2, <2>1 DEF ReservationsReachable
    <2>2. ASSUME NEW other \in Stored', items'[other].reservations # {},
                 NEW key, key = items'[other].key
          PROVE  Lookup(key)' = other
      <3>1. Lookup(key) = other /\ other \in Calls
        BY <1>1, <1>2, <2>1, <2>2
      <3> QED
        BY <1>1, <3>1
    <2> QED
      BY <2>2 DEF ReservationsReachable
  <1> QED
    BY <1>5, <1>6, <1>7, <1>8, <1>9

(* A call acts on a typed, stored item that its key leads to.               *)
LEMMA ActsOnStoredItem ==
    ASSUME IInv, NEW c \in Calls, NEW op, ActsOnItem(c, op)
    PROVE  /\ pc[c] = "found"
           /\ request[c] \in Requests /\ Valid(request[c]) /\ request[c].op = op
           /\ found[c] \in Calls /\ found[c] \in Stored
           /\ items[found[c]] \in Item
           /\ Lookup(items[found[c]].key) = found[c]
           /\ items[found[c]].reserved <= items[found[c]].onHand
  BY DEF IInv, TypeOK, ActsOnItem, FoundIsLookup, NoOversell

LEMMA InitIsInvariant == Init => IInv
  <1> SUFFICES ASSUME Init PROVE IInv
    OBVIOUS
  <1>1. Stored = {}
    BY DEF Init, Stored
  <1> QED
    BY <1>1 DEF Init, IInv, TypeOK, FoundIsLookup, FreshIds, NoOversell, ReservationsReachable

(* Every step preserves the invariant.                                      *)
LEMMA NextKeepsInvariant == IInv /\ [Next]_vars => IInv'
  <1> SUFFICES ASSUME IInv, [Next]_vars PROVE IInv'
    OBVIOUS
  <1>1. CASE UNCHANGED vars
    <2>1. TypeOK'
      BY <1>1 DEF IInv, vars, TypeOK, Stored
    <2>2. Stored' = Stored /\ \A key : Lookup(key)' = Lookup(key)
      BY <1>1 DEF vars, Stored, Lookup, IsFirst, PositionsOf
    <2>3. FoundIsLookup' /\ FreshIds'
      BY <1>1, <2>2 DEF IInv, vars, FoundIsLookup, FreshIds
    <2>4. NoOversell' /\ ReservationsReachable'
      BY <1>1, <2>2 DEF IInv, vars, NoOversell, ReservationsReachable
    <2> QED
      BY <2>1, <2>3, <2>4 DEF IInv
  <1>2. ASSUME NEW c \in Calls, Refuse(c) PROVE IInv'
    BY <1>2, EndKeepsInvariant DEF Refuse
  <1>3. ASSUME NEW c \in Calls, NotFound(c) PROVE IInv'
    BY <1>3, EndKeepsInvariant DEF NotFound
  <1>4. ASSUME NEW c \in Calls, Answer(c) PROVE IInv'
    BY <1>4, EndKeepsInvariant DEF Answer
  <1>5. ASSUME NEW c \in Calls, NEW req \in Requests, Find(c, req) PROVE IInv'
    <2> USE DEF IInv, Find, stock
    <2>1. /\ Stored' = Stored
          /\ \A key : Lookup(key)' = Lookup(key)
          /\ Lookup(req.key) # NoItem =>
                Lookup(req.key) \in Stored /\ items[Lookup(req.key)].key = req.key
      <3>1. store' = store /\ items' = items
        BY <1>5
      <3>2. Stored' = Stored /\ \A key : Lookup(key)' = Lookup(key)
        BY <3>1 DEF Stored, Lookup, IsFirst, PositionsOf
      <3> QED
        BY <3>2, LookupIsStored
    <2>2. Stored \subseteq Calls
      BY DEF TypeOK, Stored
    <2>3. Lookup(req.key) \in Calls \cup {NoItem}
      BY <2>1, <2>2
    <2>4. TypeOK'
      <3>1. /\ pc' \in [Calls -> {"new", "found", "saved", "done"}]
            /\ request' \in [Calls -> Requests \cup {NoItem}]
            /\ found' \in [Calls -> Calls \cup {NoItem}]
            /\ request'[c] = req
            /\ \A other \in Calls \ {c} : request'[other] = request[other]
                                          /\ pc'[other] = pc[other]
        BY <1>5, <2>3 DEF TypeOK
      <3>2. \A other \in Calls : pc'[other] \in {"found", "saved"} =>
                request'[other] \in Requests /\ Valid(request'[other])
        BY <1>5, <3>1 DEF TypeOK
      <3> QED
        BY <1>5, <2>1, <3>1, <3>2 DEF TypeOK, Valid
    <2>5. FoundIsLookup'
      BY <1>5, <2>1 DEF FoundIsLookup, TypeOK
    <2>6. FreshIds'
      BY <1>5, <2>1, <2>2 DEF FreshIds, TypeOK
    <2>7. NoOversell' /\ ReservationsReachable'
      BY <1>5, <2>1 DEF NoOversell, ReservationsReachable
    <2> QED
      BY <2>4, <2>5, <2>6, <2>7
  <1>6. ASSUME NEW c \in Calls, ReceiveStock(c) PROVE IInv'
    <2>1. /\ request[c] \in Movements /\ request[c].quantity \in Nat
          /\ pc[c] = "found" /\ c \notin Stored
      <3>1. /\ request[c] \in Requests /\ Valid(request[c])
            /\ request[c].op = "receive" /\ pc[c] = "found"
        BY <1>6 DEF IInv, TypeOK, ReceiveStock
      <3>2. request[c] \in Movements /\ request[c].quantity \in Nat
        BY <3>1 DEF Requests, Movements, Releases, Quantities, Valid
      <3>3. c \notin Stored
        BY <3>1 DEF IInv, FreshIds
      <3> QED
        BY <3>1, <3>2, <3>3
    <2>2. CASE found[c] = NoItem
      <3> DEFINE item == Received(NewItem(request[c].key), request[c].quantity)
      <3>1. item \in Item /\ item.reserved <= item.onHand /\ item.reservations = {}
        BY <2>1 DEF Received, NewItem, Item, Movements
      <3>2. Save(c, c, item, "received")
        BY <1>6, <2>2 DEF ReceiveStock
      <3> HIDE DEF item
      <3> QED
        BY <2>1, <3>1, <3>2, SaveKeepsInvariant
    <2>3. CASE found[c] # NoItem
      <3> DEFINE item == Received(items[found[c]], request[c].quantity)
      <3>1. /\ found[c] \in Calls /\ found[c] \in Stored
            /\ items[found[c]] \in Item
            /\ Lookup(items[found[c]].key) = found[c]
            /\ items[found[c]].reserved <= items[found[c]].onHand
        BY <2>1, <2>3, ActsOnStoredItem DEF ActsOnItem
      <3>2. /\ item \in Item /\ item.reserved <= item.onHand
            /\ item.key = items[found[c]].key
        BY <2>1, <3>1 DEF Received, Item
      <3>3. Save(c, found[c], item, "received")
        BY <1>6, <2>3 DEF ReceiveStock
      <3> HIDE DEF item
      <3> QED
        BY <2>1, <3>1, <3>2, <3>3, SaveKeepsInvariant
    <2> QED
      BY <2>2, <2>3
  <1>7. ASSUME NEW c \in Calls, ReserveStock(c) PROVE IInv'
    <2> DEFINE old  == items[found[c]]
               n    == request[c].quantity
               item == Reserved(old, c, n)
    <2>1. /\ pc[c] = "found" /\ found[c] \in Calls /\ found[c] \in Stored
          /\ old \in Item /\ Lookup(old.key) = found[c] /\ old.reserved <= old.onHand
          /\ request[c] \in Requests /\ Valid(request[c]) /\ request[c].op = "reserve"
      BY <1>7, ActsOnStoredItem DEF ReserveStock
    <2>2. n \in Nat
      BY <2>1 DEF Requests, Movements, Releases, Quantities, Valid
    <2>3. CASE Insufficient(old, n)
      BY <1>7, <2>3, EndKeepsInvariant DEF ReserveStock
    <2>4. CASE ~Insufficient(old, n)
      <3>1. /\ item \in Item /\ item.key = old.key
            /\ item.reserved = old.reserved + n /\ item.onHand = old.onHand
        <4>1. [id |-> c, quantity |-> n] \in Reservations
          BY <2>2 DEF Reservations
        <4>2. /\ old.reserved \in Nat /\ old.onHand \in Nat /\ old.key \in Keys
              /\ old.reservations \in SUBSET Reservations
          BY <2>1 DEF Item
        <4>3. /\ item.key = old.key /\ item.onHand = old.onHand
              /\ item.reserved = old.reserved + n
              /\ item.reservations = old.reservations \cup {[id |-> c, quantity |-> n]}
          BY <2>1 DEF Reserved, Item
        <4>4. item.reserved \in Nat /\ item.reservations \in SUBSET Reservations
          BY <2>2, <4>1, <4>2, <4>3
        <4>5. item \in Item
          BY <2>1, <4>2, <4>4 DEF Reserved, Item
        <4> QED
          BY <4>3, <4>5
      <3>2. item.reserved <= item.onHand
        <4>1. old.reserved \in Nat /\ old.onHand \in Nat
          BY <2>1 DEF Item
        <4> QED
          BY <2>2, <2>4, <3>1, <4>1 DEF Insufficient, Available
      <3>3. Save(c, found[c], item, "reserved")
        BY <1>7, <2>4 DEF ReserveStock
      <3> HIDE DEF item
      <3> QED
        BY <2>1, <3>1, <3>2, <3>3, SaveKeepsInvariant
    <2> QED
      BY <2>3, <2>4
  <1>8. ASSUME NEW c \in Calls, ReleaseReservation(c) PROVE IInv'
    <2> DEFINE old == items[found[c]]
               id  == request[c].reservation
    <2>1. /\ pc[c] = "found" /\ found[c] \in Calls /\ found[c] \in Stored
          /\ old \in Item /\ Lookup(old.key) = found[c] /\ old.reserved <= old.onHand
      BY <1>8, ActsOnStoredItem DEF ReleaseReservation
    <2>2. CASE End(c, "conflict") /\ UNCHANGED stock
      BY <2>2, EndKeepsInvariant
    <2>3. ASSUME NEW r \in Held(old, id),
                 Save(c, found[c], Released(old, r), "released")
          PROVE  IInv'
      <3> DEFINE item == Released(old, r)
      <3>1. /\ old.reserved \in Nat /\ old.onHand \in Nat /\ r.quantity \in Nat
            /\ old.reservations \in SUBSET Reservations
        BY <2>1, <2>3 DEF Item, Held, Reservations
      <3>2. /\ item.key = old.key /\ item.onHand = old.onHand
            /\ item.reserved = IF old.reserved >= r.quantity
                               THEN old.reserved - r.quantity ELSE 0
            /\ item.reservations = old.reservations \ {r}
        BY <2>1 DEF Released, GivenBack, Item
      <3>3. item.reserved \in Nat /\ item.reserved <= item.onHand
        BY <2>1, <3>1, <3>2
      <3>4. item \in Item
        BY <2>1, <3>1, <3>3 DEF Released, GivenBack, Item
      <3>5. Save(c, found[c], item, "released")
        BY <2>3
      <3> HIDE DEF item
      <3> QED
        BY <2>1, <3>2, <3>3, <3>4, <3>5, SaveKeepsInvariant
    <2> QED
      BY <1>8, <2>2, <2>3 DEF ReleaseReservation
  <1>9. ASSUME NEW c \in Calls, AdjustInventory(c) PROVE IInv'
    <2> DEFINE old  == items[found[c]]
               n    == request[c].quantity
               item == Adjusted(old, n)
    <2>1. /\ pc[c] = "found" /\ found[c] \in Calls /\ found[c] \in Stored
          /\ old \in Item /\ Lookup(old.key) = found[c]
          /\ request[c] \in Requests /\ Valid(request[c]) /\ request[c].op = "adjust"
      BY <1>9, ActsOnStoredItem DEF AdjustInventory
    <2>2. n \in Nat
      BY <2>1 DEF Requests, Movements, Releases, Quantities, Valid
    <2>3. CASE BelowReserved(old, n)
      BY <1>9, <2>3, EndKeepsInvariant DEF AdjustInventory
    <2>4. CASE ~BelowReserved(old, n)
      <3>1. /\ item \in Item /\ item.key = old.key
            /\ item.reserved = old.reserved /\ item.onHand = n /\ old.reserved \in Nat
        BY <2>1, <2>2 DEF Adjusted, Item
      <3>2. item.reserved <= item.onHand
        BY <2>2, <2>4, <3>1 DEF BelowReserved
      <3>3. Save(c, found[c], item, "adjusted")
        BY <1>9, <2>4 DEF AdjustInventory
      <3> HIDE DEF item
      <3> QED
        BY <2>1, <3>1, <3>2, <3>3, SaveKeepsInvariant
    <2> QED
      BY <2>3, <2>4
  <1> QED
    BY <1>1, <1>2, <1>3, <1>4, <1>5, <1>6, <1>7, <1>8, <1>9 DEF Next

-----------------------------------------------------------------------------
(* What past saves leave behind                                             *)

(* The reservations of the item id before a save and its reserved quantity, *)
(* and what a save of call c makes of them.                                 *)
HeldBefore(id) == IF id \in Stored THEN items[id].reservations ELSE {}

ReservedBefore(id) == IF id \in Stored THEN items[id].reserved ELSE 0

MovesReservations(c, id, item) ==
    \/ /\ request[c].op \notin {"reserve", "release"}
       /\ item.reservations = HeldBefore(id)
       /\ item.reserved = ReservedBefore(id)
    \/ /\ request[c].op = "reserve"
       /\ \E n \in Nat :
             /\ item.reservations = HeldBefore(id) \cup {[id |-> c, quantity |-> n]}
             /\ item.reserved = ReservedBefore(id) + n
    \/ /\ request[c].op = "release"
       /\ \E r \in HeldBefore(id) :
             /\ r.id = request[c].reservation
             /\ item.reservations = HeldBefore(id) \ {r}
             /\ item.reserved = IF ReservedBefore(id) >= r.quantity
                                THEN ReservedBefore(id) - r.quantity ELSE 0

(* A save of call c.                                                        *)
Saving(c, id, item) ==
    /\ pc[c] = "found"
    /\ request[c] \in Requests
    /\ item \in Item
    /\ id \in Stored => id = found[c]
    /\ id \notin Stored => id = c
    /\ MovesReservations(c, id, item)
    /\ \E reason \in {"received", "reserved", "released", "adjusted"} : Save(c, id, item, reason)

LEMMA SavingCalls ==
    ASSUME TypeOK, CallsAnswerOnce, NEW c \in Calls, NEW id \in Calls, NEW item,
           Saving(c, id, item)
    PROVE  /\ request' = request /\ found' = found
           /\ \A d \in Calls \ {c} : reply'[d] = reply[d] /\ (Applied(d)' <=> Applied(d))
           /\ reply[c] = "none" /\ ~ Applied(c) /\ Applied(c)'
           /\ CallsAnswerOnce'
  <1>1. /\ pc \in [Calls -> {"new", "found", "saved", "done"}]
        /\ reply \in [Calls -> {"none", "ok", "invalid", "notFound", "conflict", "rejected"}]
    BY DEF TypeOK
  <1>2. pc[c] = "found" /\ reply[c] = "none"
    BY DEF Saving, CallsAnswerOnce
  <1>3. \/ /\ pc' = [pc EXCEPT ![c] = "saved"]
           /\ request' = request /\ found' = found /\ reply' = reply
        \/ /\ pc' = [pc EXCEPT ![c] = "done"] /\ reply' = [reply EXCEPT ![c] = "rejected"]
           /\ request' = request /\ found' = found
    BY DEF Saving, Save, End
  <1>4. /\ \A d \in Calls \ {c} : reply'[d] = reply[d] /\ pc'[d] = pc[d]
        /\ \/ pc'[c] = "saved" /\ reply'[c] = "none"
           \/ pc'[c] = "done" /\ reply'[c] = "rejected"
    <2>1. CASE pc' = [pc EXCEPT ![c] = "saved"] /\ reply' = reply
      BY <1>1, <1>2, <2>1
    <2>2. CASE pc' = [pc EXCEPT ![c] = "done"] /\ reply' = [reply EXCEPT ![c] = "rejected"]
      BY <1>1, <1>2, <2>2
    <2> QED
      BY <1>3, <2>1, <2>2
  <1> QED
    BY <1>2, <1>3, <1>4 DEF Applied, CallsAnswerOnce

LEMMA SavingItems ==
    ASSUME TypeOK, NEW c \in Calls, NEW id \in Calls, NEW item, Saving(c, id, item)
    PROVE  /\ Stored' = Stored \cup {id} /\ Stored \subseteq Calls
           /\ items'[id] = item
           /\ \A other \in Calls \ {id} : items'[other] = items[other]
  <1>1. store \in Seq(Calls) /\ items \in [Calls -> Item \cup {NoItem}]
    BY DEF TypeOK
  <1>2. /\ items' = [items EXCEPT ![id] = item]
        /\ store' = IF id \in Stored THEN store ELSE Append(store, id)
    BY DEF Saving, Save
  <1>3. Stored \subseteq Calls
    BY <1>1 DEF Stored
  <1>4. CASE id \in Stored
    BY <1>1, <1>2, <1>3, <1>4 DEF Stored
  <1>5. CASE id \notin Stored
    <2>1. /\ Len(store) \in Nat /\ DOMAIN store = 1..Len(store)
          /\ DOMAIN store' = 1..(Len(store) + 1)
          /\ \A i \in 1..Len(store) : store'[i] = store[i]
          /\ store'[Len(store) + 1] = id
      BY <1>1, <1>2, <1>5
    <2>2. Stored' = Stored \cup {id}
      BY <2>1 DEF Stored
    <2> QED
      BY <1>1, <1>2, <1>3, <2>2
  <1> QED
    BY <1>4, <1>5

(* The last event of the saved item is the save's, or the save failed.      *)
LEMMA SavingEvents ==
    ASSUME TypeOK, PastInv, NEW c \in Calls, NEW id \in Calls, NEW item,
           Saving(c, id, item)
    PROVE  LastEventIsLevel'
  <1>1. /\ Stored' = Stored \cup {id} /\ Stored \subseteq Calls
        /\ items'[id] = item
        /\ \A other \in Calls \ {id} : items'[other] = items[other]
    BY SavingItems
  <1>2. /\ found' = found /\ reply[c] = "none"
        /\ \A d \in Calls \ {c} : reply'[d] = reply[d]
    BY SavingCalls DEF PastInv
  <1>3. PICK reason \in {"received", "reserved", "released", "adjusted"} : Save(c, id, item, reason)
    BY DEF Saving
  <1>4. \A x \in Stored : SaveFailed(x) => SaveFailed(x)'
    BY <1>2 DEF SaveFailed
  <1>5. /\ AdjustmentOf(id, item, reason) \in Event
        /\ AdjustmentOf(id, item, reason).item = id
        /\ AdjustmentOf(id, item, reason).onHand = item.onHand
        /\ AdjustmentOf(id, item, reason).reserved = item.reserved
    BY DEF Saving, AdjustmentOf, Event, Item
  <1>6. reply \in [Calls -> {"none", "ok", "invalid", "notFound", "conflict", "rejected"}]
        /\ outbox \in Seq(Event)
    BY DEF TypeOK
  <1>7. CASE outbox' = outbox /\ reply' = [reply EXCEPT ![c] = "rejected"]
    <2>1. SaveFailed(id)'
      BY <1>2, <1>6, <1>7 DEF SaveFailed, Saving
    <2>2. ASSUME NEW x \in Stored', ~ SaveFailed(x)' PROVE x \in Stored /\ x # id
      BY <1>1, <2>1, <2>2
    <2> QED
      BY <1>1, <1>4, <1>7, <2>2 DEF PastInv, LastEventIsLevel
  <1>8. CASE outbox' = Append(outbox, AdjustmentOf(id, item, reason))
    <2>1. PICK n \in Nat :
            /\ DOMAIN outbox = 1..n /\ DOMAIN outbox' = 1..(n + 1)
            /\ \A i \in 1..n : outbox'[i] = outbox[i]
            /\ outbox'[n + 1] = AdjustmentOf(id, item, reason)
      <3>1. PICK n \in Nat : n = Len(outbox)
        BY <1>6
      <3> QED
        BY <1>5, <1>6, <1>8, <3>1
    <2>2. ASSUME NEW x \in Stored', ~ SaveFailed(x)'
          PROVE  \E i \in DOMAIN outbox' :
                    /\ outbox'[i].item = x
                    /\ \A j \in DOMAIN outbox' : j > i => outbox'[j].item # x
                    /\ outbox'[i].onHand = items'[x].onHand
                    /\ outbox'[i].reserved = items'[x].reserved
      <3>1. CASE x = id
        <4>1. n + 1 \in DOMAIN outbox' /\ \A j \in DOMAIN outbox' : ~ (j > n + 1)
          BY <2>1
        <4> QED
          BY <1>1, <1>5, <2>1, <3>1, <4>1
      <3>2. CASE x # id
        <4>1. PICK i \in DOMAIN outbox :
                    /\ outbox[i].item = x
                    /\ \A j \in DOMAIN outbox : j > i => outbox[j].item # x
                    /\ outbox[i].onHand = items[x].onHand
                    /\ outbox[i].reserved = items[x].reserved
          BY <1>1, <1>4, <2>2, <3>2 DEF PastInv, LastEventIsLevel
        <4>2. /\ i \in DOMAIN outbox' /\ outbox'[i] = outbox[i]
              /\ \A j \in DOMAIN outbox' : j > i => outbox'[j].item # x
          BY <1>5, <2>1, <3>2, <4>1
        <4> QED
          BY <1>1, <2>2, <3>2, <4>1, <4>2
      <3> QED
        BY <3>1, <3>2
    <2> QED
      BY <2>2 DEF LastEventIsLevel
  <1> QED
    BY <1>3, <1>7, <1>8 DEF Save, End

(* A save makes, takes or leaves a reservation.                             *)
LEMMA SavingReservations ==
    ASSUME TypeOK, PastInv, NEW c \in Calls, NEW id \in Calls, NEW item,
           Saving(c, id, item)
    PROVE  HeldOnce' /\ HeldOrReleased'
  <1>1. /\ Stored' = Stored \cup {id} /\ Stored \subseteq Calls
        /\ items'[id] = item
        /\ \A other \in Calls \ {id} : items'[other] = items[other]
    BY SavingItems
  <1>2. /\ request' = request
        /\ \A d \in Calls \ {c} : Applied(d)' <=> Applied(d)
        /\ ~ Applied(c) /\ Applied(c)'
    BY SavingCalls DEF PastInv
  <1>3. \A q \in Calls : c \notin ReleasesOf(q)
    BY <1>2 DEF ReleasesOf
  <1>4. \A q \in Calls : ReleasesOf(q)' =
          IF request[c].op = "release" /\ request[c].reservation = q
          THEN ReleasesOf(q) \cup {c} ELSE ReleasesOf(q)
    <2> SUFFICES ASSUME NEW q \in Calls
                 PROVE  ReleasesOf(q)' =
                          IF request[c].op = "release" /\ request[c].reservation = q
                          THEN ReleasesOf(q) \cup {c} ELSE ReleasesOf(q)
      OBVIOUS
    <2>1. ReleasesOf(q) \subseteq Calls /\ ReleasesOf(q)' \subseteq Calls
      BY DEF ReleasesOf
    <2>2. \A d \in Calls \ {c} : d \in ReleasesOf(q)' <=> d \in ReleasesOf(q)
      BY <1>2 DEF ReleasesOf
    <2>3. c \in ReleasesOf(q)' <=> request[c].op = "release" /\ request[c].reservation = q
      BY <1>2 DEF ReleasesOf
    <2>4. CASE request[c].op = "release" /\ request[c].reservation = q
      BY <2>1, <2>2, <2>3, <2>4
    <2>5. CASE ~ (request[c].op = "release" /\ request[c].reservation = q)
      BY <1>3, <2>1, <2>2, <2>3, <2>5
    <2> QED
      BY <2>4, <2>5
  <1>5. HeldOnce /\ HeldOrReleased
    BY DEF PastInv
  <1>6. \A q : Holders(q) \subseteq Stored
    BY DEF Holders
  <1>7. ASSUME NEW q \in Calls, {r \in item.reservations : r.id = q} = {r \in HeldBefore(id) : r.id = q}
        PROVE  Holders(q)' = Holders(q)
    <2>1. \A x \in Stored \ {id} : x \in Holders(q)' <=> x \in Holders(q)
      BY <1>1 DEF Holders, Held
    <2>2. id \in Holders(q)' <=> {r \in item.reservations : r.id = q} # {}
      BY <1>1 DEF Holders, Held
    <2>3. id \in Holders(q) <=> {r \in HeldBefore(id) : r.id = q} # {}
      BY DEF Holders, Held, HeldBefore
    <2>4. Holders(q)' \subseteq Stored \cup {id} /\ Holders(q) \subseteq Stored \cup {id}
      BY <1>1 DEF Holders
    <2> QED
      BY <1>7, <2>1, <2>2, <2>3, <2>4
  <1>8. \A q \in Calls : \A r, s \in HeldBefore(id) : r.id = q /\ s.id = q => r = s
    BY <1>5 DEF HeldOnce, Held, HeldBefore
  <1>9. ASSUME \A q \in Calls : \A r, s \in item.reservations : r.id = q /\ s.id = q => r = s
        PROVE  HeldOnce'
    BY <1>1, <1>5, <1>9 DEF HeldOnce, Held
  <1>10. CASE /\ request[c].op \notin {"reserve", "release"}
              /\ item.reservations = HeldBefore(id)
    <2>1. HeldOnce'
      BY <1>8, <1>9, <1>10
    <2>2. \A q \in Calls : Holders(q)' = Holders(q) /\ ReleasesOf(q)' = ReleasesOf(q)
      BY <1>4, <1>7, <1>10
    <2>3. HeldOrReleased'
      BY <1>1, <1>2, <1>5, <1>10, <2>2 DEF HeldOrReleased
    <2> QED
      BY <2>1, <2>3
  <1>11. CASE /\ request[c].op = "reserve"
              /\ \E n : item.reservations = HeldBefore(id) \cup {[id |-> c, quantity |-> n]}
    <2>1. PICK n : item.reservations = HeldBefore(id) \cup {[id |-> c, quantity |-> n]}
      BY <1>11
    <2>2. Holders(c) = {} /\ ReleasesOf(c) = {}
      BY <1>2, <1>5 DEF HeldOrReleased
    <2>3. \A r \in HeldBefore(id) : r.id # c
      BY <2>2 DEF Holders, Held, HeldBefore
    <2>4. HeldOnce'
      BY <1>8, <1>9, <2>1, <2>3
    <2>5. \A q \in Calls \ {c} : Holders(q)' = Holders(q)
      BY <1>7, <2>1
    <2>6. \A q \in Calls : ReleasesOf(q)' = ReleasesOf(q)
      BY <1>4, <1>11
    <2>7. Holders(c)' = {id}
      <3>1. [id |-> c, quantity |-> n] \in Held(items'[id], c)
        BY <1>1, <2>1 DEF Held
      <3>2. \A x \in Stored \ {id} : Held(items'[x], c) = {}
        BY <1>1, <2>2 DEF Holders, Held
      <3> QED
        BY <1>1, <3>1, <3>2 DEF Holders
    <2>8. HeldOrReleased'
      BY <1>1, <1>2, <1>5, <1>11, <2>2, <2>5, <2>6, <2>7 DEF HeldOrReleased
    <2> QED
      BY <2>4, <2>8
  <1>12. CASE /\ request[c].op = "release"
              /\ \E r \in HeldBefore(id) : /\ r.id = request[c].reservation
                                           /\ item.reservations = HeldBefore(id) \ {r}
    <2>1. PICK r \in HeldBefore(id) : /\ r.id = request[c].reservation
                                      /\ item.reservations = HeldBefore(id) \ {r}
      BY <1>12
    <2>2. PICK q \in Calls : q = request[c].reservation
      BY <1>12 DEF Saving, Requests, Movements, Releases
    <2>3. id \in Stored /\ id \in Holders(q)
      BY <2>1, <2>2 DEF Holders, Held, HeldBefore
    <2>4. /\ Applied(q) /\ request[q].op = "reserve"
          /\ Holders(q) = {id} /\ ReleasesOf(q) = {}
      BY <1>5, <2>3 DEF HeldOrReleased
    <2>5. HeldOnce'
      BY <1>8, <1>9, <2>1
    <2>6. \A x \in Calls \ {q} : Holders(x)' = Holders(x) /\ ReleasesOf(x)' = ReleasesOf(x)
      BY <1>4, <1>7, <2>1, <2>2
    <2>7. Holders(q)' = {}
      <3>1. Held(items'[id], q) = {}
        BY <1>1, <1>8, <2>1, <2>2 DEF Held
      <3>2. \A x \in Stored \ {id} : Held(items'[x], q) = {}
        BY <1>1, <2>4 DEF Holders, Held
      <3> QED
        BY <1>1, <3>1, <3>2 DEF Holders
    <2>8. ReleasesOf(q)' = {c}
      BY <1>4, <1>12, <2>2, <2>4
    <2>9. q # c /\ Applied(q)'
      BY <1>2, <2>4
    <2>10. HeldOrReleased'
      BY <1>1, <1>2, <1>5, <1>12, <2>4, <2>6, <2>7, <2>8, <2>9 DEF HeldOrReleased
    <2> QED
      BY <2>5, <2>10
  <1> QED
    BY <1>10, <1>11, <1>12 DEF Saving, MovesReservations

(* A step that leaves the stock alone.                                      *)
LEMMA IdleKeepsPast ==
    ASSUME TypeOK, PastInv, NEW c \in Calls, UNCHANGED stock,
           \/ Refuse(c) \/ NotFound(c) \/ Answer(c)
           \/ \E req \in Requests : Find(c, req)
           \/ pc[c] = "found" /\ End(c, "conflict")
    PROVE  PastInv'
  <1>1. /\ store' = store /\ items' = items /\ outbox' = outbox
        /\ Stored' = Stored
    BY DEF stock, Stored
  <1>2. /\ pc \in [Calls -> {"new", "found", "saved", "done"}]
        /\ request \in [Calls -> Requests \cup {NoItem}]
        /\ found \in [Calls -> Calls \cup {NoItem}]
        /\ reply \in [Calls -> {"none", "ok", "invalid", "notFound", "conflict", "rejected"}]
    BY DEF TypeOK
  <1>3. pc[c] # "done" /\ reply[c] = "none"
    BY DEF PastInv, CallsAnswerOnce, Refuse, NotFound, Answer, Find
  <1>4. \A d \in Calls \ {c} : /\ pc'[d] = pc[d] /\ request'[d] = request[d]
                               /\ found'[d] = found[d] /\ reply'[d] = reply[d]
    BY <1>2 DEF Refuse, NotFound, Answer, Find, End
  <1>5. \/ pc'[c] = "done"
        \/ reply'[c] = "none"
    BY <1>2, <1>3 DEF Refuse, NotFound, Answer, Find, End
  <1>6. /\ Applied(c)' <=> Applied(c)
        /\ Applied(c) => request'[c] = request[c]
    BY <1>2, <1>3 DEF Applied, Refuse, NotFound, Answer, Find, End
  <1>7. \A d \in Calls : /\ Applied(d)' <=> Applied(d)
                         /\ Applied(d) => request'[d] = request[d]
    BY <1>4, <1>6 DEF Applied
  <1>8. CallsAnswerOnce'
    BY <1>4, <1>5 DEF PastInv, CallsAnswerOnce
  <1>9. LastEventIsLevel'
    <2>1. \A id : SaveFailed(id) => SaveFailed(id)'
      BY <1>3, <1>4 DEF SaveFailed
    <2> QED
      BY <1>1, <2>1 DEF PastInv, LastEventIsLevel
  <1>10. HeldOnce'
    BY <1>1 DEF PastInv, HeldOnce, Held
  <1>11. HeldOrReleased'
    <2>1. \A q \in Calls : Holders(q)' = Holders(q)
      BY <1>1 DEF Holders, Held
    <2>2. \A q \in Calls : ReleasesOf(q)' = ReleasesOf(q)
      BY <1>7 DEF ReleasesOf
    <2> QED
      BY <1>1, <1>7, <2>1, <2>2 DEF PastInv, HeldOrReleased
  <1> QED
    BY <1>8, <1>9, <1>10, <1>11 DEF PastInv

(* Each use case that changes the stock saves its item once.                *)
LEMMA ChangesAreSavings ==
    ASSUME IInv, NEW c \in Calls,
           \/ ReceiveStock(c) \/ ReserveStock(c)
           \/ ReleaseReservation(c) \/ AdjustInventory(c)
    PROVE  \/ \E id \in Calls : \E item : Saving(c, id, item)
           \/ pc[c] = "found" /\ End(c, "conflict") /\ UNCHANGED stock
  <1>1. CASE ReceiveStock(c)
    <2>1. /\ request[c] \in Movements /\ request[c].quantity \in Nat /\ request[c] \in Requests
          /\ request[c].op = "receive" /\ pc[c] = "found" /\ c \notin Stored
      <3>1. /\ request[c] \in Requests /\ Valid(request[c])
            /\ request[c].op = "receive" /\ pc[c] = "found"
        BY <1>1 DEF IInv, TypeOK, ReceiveStock
      <3>2. request[c] \in Movements /\ request[c].quantity \in Nat
        BY <3>1 DEF Requests, Movements, Releases, Quantities, Valid
      <3>3. c \notin Stored
        BY <3>1 DEF IInv, FreshIds
      <3> QED
        BY <3>1, <3>2, <3>3
    <2>2. CASE found[c] = NoItem
      <3> DEFINE item == Received(NewItem(request[c].key), request[c].quantity)
      <3>1. item \in Item /\ item.reservations = {} /\ item.reserved = 0
        BY <2>1 DEF Received, NewItem, Item, Movements
      <3>2. Save(c, c, item, "received")
        BY <1>1, <2>2 DEF ReceiveStock
      <3> HIDE DEF item
      <3>3. MovesReservations(c, c, item)
        BY <2>1, <3>1 DEF MovesReservations, HeldBefore, ReservedBefore
      <3>4. Saving(c, c, item)
        BY <2>1, <3>1, <3>2, <3>3 DEF Saving
      <3> QED
        BY <3>4
    <2>3. CASE found[c] # NoItem
      <3> DEFINE item == Received(items[found[c]], request[c].quantity)
      <3>1. found[c] \in Calls /\ found[c] \in Stored /\ items[found[c]] \in Item
        BY <2>1, <2>3, ActsOnStoredItem DEF ActsOnItem
      <3>2. /\ item \in Item /\ item.reservations = items[found[c]].reservations
            /\ item.reserved = items[found[c]].reserved
        BY <2>1, <3>1 DEF Received, Item
      <3>3. Save(c, found[c], item, "received")
        BY <1>1, <2>3 DEF ReceiveStock
      <3> HIDE DEF item
      <3>4. MovesReservations(c, found[c], item)
        BY <2>1, <3>1, <3>2 DEF MovesReservations, HeldBefore, ReservedBefore
      <3>5. Saving(c, found[c], item)
        BY <2>1, <3>1, <3>2, <3>3, <3>4 DEF Saving
      <3> QED
        BY <3>1, <3>5
    <2> QED
      BY <2>2, <2>3
  <1>2. CASE ReserveStock(c)
    <2> DEFINE old  == items[found[c]]
               n    == request[c].quantity
               item == Reserved(old, c, n)
    <2>1. /\ pc[c] = "found" /\ found[c] \in Calls /\ found[c] \in Stored
          /\ old \in Item
          /\ request[c] \in Requests /\ Valid(request[c]) /\ request[c].op = "reserve"
      BY <1>2, ActsOnStoredItem DEF ReserveStock
    <2>2. n \in Nat
      BY <2>1 DEF Requests, Movements, Releases, Quantities, Valid
    <2>3. CASE Insufficient(old, n)
      BY <1>2, <2>1, <2>3 DEF ReserveStock
    <2>4. CASE ~Insufficient(old, n)
      <3>1. [id |-> c, quantity |-> n] \in Reservations
        BY <2>2 DEF Reservations
      <3>2. /\ item \in Item /\ item.reserved = old.reserved + n
            /\ item.reservations = old.reservations \cup {[id |-> c, quantity |-> n]}
        <4>1. /\ old.reserved \in Nat
              /\ old.reservations \in SUBSET Reservations
          BY <2>1 DEF Item
        <4>2. /\ old.reserved + n \in Nat
              /\ old.reservations \cup {[id |-> c, quantity |-> n]} \in SUBSET Reservations
          BY <2>2, <3>1, <4>1
        <4> QED
          BY <2>1, <4>2 DEF Reserved, Item
      <3>3. Save(c, found[c], item, "reserved")
        BY <1>2, <2>4 DEF ReserveStock
      <3> HIDE DEF item
      <3>4. MovesReservations(c, found[c], item)
        BY <2>1, <2>2, <3>2 DEF MovesReservations, HeldBefore, ReservedBefore
      <3>5. Saving(c, found[c], item)
        BY <2>1, <3>2, <3>3, <3>4 DEF Saving
      <3> QED
        BY <2>1, <3>5
    <2> QED
      BY <2>3, <2>4
  <1>3. CASE ReleaseReservation(c)
    <2> DEFINE old == items[found[c]]
               id  == request[c].reservation
    <2>1. /\ pc[c] = "found" /\ found[c] \in Calls /\ found[c] \in Stored
          /\ old \in Item
          /\ request[c] \in Requests /\ request[c].op = "release"
      BY <1>3, ActsOnStoredItem DEF ReleaseReservation
    <2>2. CASE End(c, "conflict") /\ UNCHANGED stock
      BY <2>1, <2>2
    <2>3. ASSUME NEW r \in Held(old, id),
                 Save(c, found[c], Released(old, r), "released")
          PROVE  \E item : Saving(c, found[c], item)
      <3> DEFINE item == Released(old, r)
      <3>1. /\ old.reserved \in Nat /\ r.quantity \in Nat
            /\ old.reservations \in SUBSET Reservations
            /\ r \in old.reservations /\ r.id = id
        BY <2>1, <2>3 DEF Item, Held, Reservations
      <3>2. /\ item.reservations = old.reservations \ {r}
            /\ item.reserved = IF old.reserved >= r.quantity
                               THEN old.reserved - r.quantity ELSE 0
        BY <2>1 DEF Released, GivenBack, Item
      <3>3. item \in Item
        <4>1. GivenBack(old, r.quantity) \in Nat
          BY <3>1 DEF GivenBack
        <4>2. old.reservations \ {r} \in SUBSET Reservations
          BY <3>1
        <4> QED
          BY <2>1, <4>1, <4>2 DEF Released, Item
      <3>4. Save(c, found[c], item, "released")
        BY <2>3
      <3> HIDE DEF item
      <3>5. MovesReservations(c, found[c], item)
        BY <2>1, <3>1, <3>2 DEF MovesReservations, HeldBefore, ReservedBefore
      <3>6. Saving(c, found[c], item)
        BY <2>1, <3>3, <3>4, <3>5 DEF Saving
      <3> QED
        BY <3>6
    <2> QED
      BY <1>3, <2>1, <2>2, <2>3 DEF ReleaseReservation
  <1>4. CASE AdjustInventory(c)
    <2> DEFINE old  == items[found[c]]
               n    == request[c].quantity
               item == Adjusted(old, n)
    <2>1. /\ pc[c] = "found" /\ found[c] \in Calls /\ found[c] \in Stored
          /\ old \in Item
          /\ request[c] \in Requests /\ Valid(request[c]) /\ request[c].op = "adjust"
      BY <1>4, ActsOnStoredItem DEF AdjustInventory
    <2>2. n \in Nat
      BY <2>1 DEF Requests, Movements, Releases, Quantities, Valid
    <2>3. CASE BelowReserved(old, n)
      BY <1>4, <2>1, <2>3 DEF AdjustInventory
    <2>4. CASE ~BelowReserved(old, n)
      <3>1. item \in Item /\ item.reservations = old.reservations /\ item.reserved = old.reserved
        BY <2>1, <2>2 DEF Adjusted, Item
      <3>2. Save(c, found[c], item, "adjusted")
        BY <1>4, <2>4 DEF AdjustInventory
      <3> HIDE DEF item
      <3>3. MovesReservations(c, found[c], item)
        BY <2>1, <3>1 DEF MovesReservations, HeldBefore, ReservedBefore
      <3>4. Saving(c, found[c], item)
        BY <2>1, <3>1, <3>2, <3>3 DEF Saving
      <3> QED
        BY <2>1, <3>4
    <2> QED
      BY <2>3, <2>4
  <1> QED
    BY <1>1, <1>2, <1>3, <1>4

LEMMA InitPast == Init => PastInv
  <1> SUFFICES ASSUME Init PROVE PastInv
    OBVIOUS
  <1>1. Stored = {}
    BY DEF Init, Stored
  <1>2. \A c \in Calls : Holders(c) = {} /\ ReleasesOf(c) = {} /\ ~ Applied(c)
    BY <1>1 DEF Init, Holders, ReleasesOf, Applied
  <1> QED
    BY <1>1, <1>2 DEF Init, PastInv, CallsAnswerOnce, LastEventIsLevel, HeldOnce, HeldOrReleased

LEMMA NextKeepsPast == IInv /\ PastInv /\ [Next]_vars => PastInv'
  <1> SUFFICES ASSUME IInv, PastInv, [Next]_vars PROVE PastInv'
    OBVIOUS
  <1>1. TypeOK
    BY DEF IInv
  <1>2. CASE UNCHANGED vars
    <2>1. /\ pc' = pc /\ request' = request /\ found' = found /\ reply' = reply
          /\ store' = store /\ items' = items /\ outbox' = outbox
      BY <1>2 DEF vars
    <2>2. Stored' = Stored
      BY <2>1 DEF Stored
    <2>3. CallsAnswerOnce' /\ LastEventIsLevel' /\ HeldOnce'
      BY <2>1, <2>2 DEF PastInv, CallsAnswerOnce, LastEventIsLevel, SaveFailed, HeldOnce, Held
    <2>4. HeldOrReleased'
      BY <2>1, <2>2 DEF PastInv, HeldOrReleased, Holders, Held, ReleasesOf, Applied
    <2> QED
      BY <2>3, <2>4 DEF PastInv
  <1>3. CASE Next
    <2>1. PICK c \in Calls :
            \/ Refuse(c) \/ NotFound(c) \/ Answer(c)
            \/ \E req \in Requests : Find(c, req)
            \/ ReceiveStock(c) \/ ReserveStock(c)
            \/ ReleaseReservation(c) \/ AdjustInventory(c)
      BY <1>3 DEF Next
    <2>2. CASE \/ Refuse(c) \/ NotFound(c) \/ Answer(c)
               \/ \E req \in Requests : Find(c, req)
      <3>1. UNCHANGED stock
        BY <2>2 DEF Refuse, NotFound, Answer, Find, stock
      <3> QED
        BY <1>1, <2>2, <3>1, IdleKeepsPast
    <2>3. CASE pc[c] = "found" /\ End(c, "conflict") /\ UNCHANGED stock
      BY <1>1, <2>3, IdleKeepsPast
    <2>4. ASSUME NEW id \in Calls, NEW item, Saving(c, id, item) PROVE PastInv'
      <3>1. CallsAnswerOnce'
        BY <1>1, <2>4, SavingCalls DEF PastInv
      <3>2. LastEventIsLevel'
        BY <1>1, <2>4, SavingEvents
      <3>3. HeldOnce' /\ HeldOrReleased'
        BY <1>1, <2>4, SavingReservations
      <3> QED
        BY <3>1, <3>2, <3>3 DEF PastInv
    <2> QED
      BY <2>1, <2>2, <2>3, <2>4, ChangesAreSavings
  <1> QED
    BY <1>2, <1>3

LEMMA ReleasedOnce == PastInv => ReservedUntilReleasedOnce
  <1> SUFFICES ASSUME PastInv, NEW c \in Calls, Applied(c), request[c].op = "reserve"
               PROVE  Cardinality(Holders(c)) + Cardinality(ReleasesOf(c)) = 1
    BY DEF ReservedUntilReleasedOnce
  <1>1. Cardinality({}) = 0 /\ \A x : Cardinality({x}) = 1
    BY FS_EmptySet, FS_Singleton
  <1>2. \/ ReleasesOf(c) = {} /\ \E id \in Stored : Holders(c) = {id}
        \/ Holders(c) = {} /\ \E d \in Calls : ReleasesOf(c) = {d}
    BY DEF PastInv, HeldOrReleased
  <1>3. ASSUME NEW x, Holders(c) = {x}, ReleasesOf(c) = {}
        PROVE  Cardinality(Holders(c)) + Cardinality(ReleasesOf(c)) = 1
    <2>1. Cardinality(Holders(c)) = 1 /\ Cardinality(ReleasesOf(c)) = 0
      BY <1>1, <1>3
    <2> QED
      BY <2>1
  <1>4. ASSUME NEW x, ReleasesOf(c) = {x}, Holders(c) = {}
        PROVE  Cardinality(Holders(c)) + Cardinality(ReleasesOf(c)) = 1
    <2>1. Cardinality(Holders(c)) = 0 /\ Cardinality(ReleasesOf(c)) = 1
      BY <1>1, <1>4
    <2> QED
      BY <2>1
  <1> QED
    BY <1>2, <1>3, <1>4

-----------------------------------------------------------------------------
(* What is reserved, unit by unit                                           *)

LEMMA UnitsOfOneMore ==
    ASSUME NEW held, IsFiniteSet(Units(held)),
           NEW r, r \notin held, r.quantity \in Nat
    PROVE  /\ IsFiniteSet(Units(held \cup {r}))
           /\ Cardinality(Units(held \cup {r})) = Cardinality(Units(held)) + r.quantity
  <1> DEFINE new == {r} \X (1..r.quantity)
  <1>1. Units(held \cup {r}) = Units(held) \cup new
    BY DEF Units
  <1>2. Units(held) \cap new = {}
    BY DEF Units
  <1>3. IsFiniteSet(new) /\ Cardinality(new) = r.quantity
    <2>1. PICK n \in Nat : n = r.quantity
      OBVIOUS
    <2>2. IsFiniteSet(1..n) /\ Cardinality(1..n) = n
      <3>1. /\ IsFiniteSet(1..n)
            /\ Cardinality(1..n) = IF 1 > n THEN 0 ELSE n - 1 + 1
        BY FS_Interval
      <3> QED
        BY <3>1
    <2>3. IsFiniteSet({r}) /\ Cardinality({r}) = 1
      BY FS_Singleton
    <2>4. IsFiniteSet({r} \X (1..n)) /\ Cardinality({r} \X (1..n)) = 1 * n
      BY <2>2, <2>3, FS_Product
    <2> QED
      BY <2>1, <2>4
  <1> HIDE DEF new
  <1>4. Cardinality({}) = 0 /\ Cardinality(Units(held)) \in Nat
    BY FS_EmptySet, FS_CardinalityType
  <1>5. /\ IsFiniteSet(Units(held) \cup new)
        /\ Cardinality(Units(held) \cup new)
              = Cardinality(Units(held)) + Cardinality(new) - Cardinality(Units(held) \cap new)
    BY <1>3, FS_Union
  <1>6. Cardinality(Units(held) \cap new) = 0
    BY <1>2, <1>4
  <1>7. Cardinality(Units(held) \cup new) = Cardinality(Units(held)) + r.quantity
    BY <1>3, <1>4, <1>5, <1>6
  <1> QED
    BY <1>1, <1>5, <1>7

LEMMA UnitsOfOneLess ==
    ASSUME NEW held, IsFiniteSet(Units(held)),
           NEW r \in held, r.quantity \in Nat
    PROVE  /\ IsFiniteSet(Units(held \ {r}))
           /\ Cardinality(Units(held \ {r})) \in Nat
           /\ Cardinality(Units(held)) = Cardinality(Units(held \ {r})) + r.quantity
  <1>1. Units(held \ {r}) \subseteq Units(held)
    BY DEF Units
  <1>2. IsFiniteSet(Units(held \ {r}))
    BY <1>1, FS_Subset
  <1>3. (held \ {r}) \cup {r} = held
    OBVIOUS
  <1>4. Cardinality(Units((held \ {r}) \cup {r})) = Cardinality(Units(held \ {r})) + r.quantity
    BY <1>2, UnitsOfOneMore
  <1> QED
    BY <1>2, <1>3, <1>4, FS_CardinalityType

(* The reserved quantity counts the units of finitely many reservations.     *)
UnitsInv ==
    /\ ReservedIsSumOfReservations
    /\ \A id \in Stored : IsFiniteSet(Units(items[id].reservations))

LEMMA SavingUnits ==
    ASSUME TypeOK, PastInv, UnitsInv, NEW c \in Calls, NEW id \in Calls, NEW item,
           Saving(c, id, item)
    PROVE  UnitsInv'
  <1>1. /\ Stored' = Stored \cup {id} /\ Stored \subseteq Calls
        /\ items'[id] = item
        /\ \A other \in Calls \ {id} : items'[other] = items[other]
    BY SavingItems
  <1> DEFINE held == HeldBefore(id)
             reserved == ReservedBefore(id)
  <1>2. IsFiniteSet(Units(held)) /\ reserved = Cardinality(Units(held)) /\ reserved \in Nat
    <2>1. CASE id \in Stored
      BY <2>1, FS_CardinalityType
      DEF UnitsInv, ReservedIsSumOfReservations, HeldBefore, ReservedBefore
    <2>2. CASE id \notin Stored
      <3>1. Units({}) = {}
        BY DEF Units
      <3> QED
        BY <2>2, <3>1, FS_EmptySet DEF HeldBefore, ReservedBefore
    <2> QED
      BY <2>1, <2>2
  <1>3. \A r \in held : r.quantity \in Nat
    <2>1. held \subseteq Reservations
      BY DEF HeldBefore, TypeOK, Item
    <2> QED
      BY <2>1 DEF Reservations
  <1>4. ASSUME request[c].op = "reserve"
        PROVE  \A r \in held : r.id # c
    <2>1. ~ Applied(c)
      BY SavingCalls DEF PastInv
    <2>2. Holders(c) = {}
      BY <2>1 DEF PastInv, HeldOrReleased
    <2> QED
      BY <2>2 DEF Holders, Held, HeldBefore
  <1>5. /\ IsFiniteSet(Units(item.reservations))
        /\ item.reserved = Cardinality(Units(item.reservations))
    <2> HIDE DEF held, reserved
    <2>1. CASE item.reservations = held /\ item.reserved = reserved
      BY <1>2, <2>1
    <2>2. ASSUME request[c].op = "reserve", NEW n \in Nat,
                 item.reservations = held \cup {[id |-> c, quantity |-> n]},
                 item.reserved = reserved + n
          PROVE  /\ IsFiniteSet(Units(item.reservations))
                 /\ item.reserved = Cardinality(Units(item.reservations))
      <3>1. PICK r : r = [id |-> c, quantity |-> n]
        OBVIOUS
      <3>2. r \notin held /\ r.quantity = n
        BY <1>4, <2>2, <3>1
      <3>3. /\ IsFiniteSet(Units(held \cup {r}))
            /\ Cardinality(Units(held \cup {r})) = Cardinality(Units(held)) + r.quantity
        BY <1>2, <3>2, UnitsOfOneMore
      <3> QED
        BY <1>2, <2>2, <3>1, <3>2, <3>3
    <2>3. ASSUME NEW r \in held,
                 item.reservations = held \ {r},
                 item.reserved = IF reserved >= r.quantity THEN reserved - r.quantity ELSE 0
          PROVE  /\ IsFiniteSet(Units(item.reservations))
                 /\ item.reserved = Cardinality(Units(item.reservations))
      <3>1. /\ IsFiniteSet(Units(held \ {r}))
            /\ Cardinality(Units(held \ {r})) \in Nat
            /\ Cardinality(Units(held)) = Cardinality(Units(held \ {r})) + r.quantity
        BY <1>2, <1>3, UnitsOfOneLess
      <3> QED
        BY <1>2, <1>3, <2>3, <3>1
    <2> QED
      BY <2>1, <2>2, <2>3 DEF Saving, MovesReservations, held, reserved
  <1> QED
    BY <1>1, <1>5 DEF UnitsInv, ReservedIsSumOfReservations

LEMMA NextKeepsUnits == IInv /\ PastInv /\ UnitsInv /\ [Next]_vars => UnitsInv'
  <1> SUFFICES ASSUME IInv, PastInv, UnitsInv, [Next]_vars PROVE UnitsInv'
    OBVIOUS
  <1>1. CASE UNCHANGED stock
    <2>1. items' = items /\ Stored' = Stored
      BY <1>1 DEF stock, Stored
    <2> QED
      BY <2>1 DEF UnitsInv, ReservedIsSumOfReservations
  <1>2. ASSUME NEW c \in Calls,
               \/ ReceiveStock(c) \/ ReserveStock(c)
               \/ ReleaseReservation(c) \/ AdjustInventory(c)
        PROVE  UnitsInv'
    BY <1>1, <1>2, ChangesAreSavings, SavingUnits DEF IInv
  <1>3. \A c \in Calls :
           \/ Refuse(c) \/ NotFound(c) \/ Answer(c)
           \/ \E req \in Requests : Find(c, req)
           => UNCHANGED stock
    BY DEF Refuse, NotFound, Answer, Find
  <1>4. UNCHANGED vars => UNCHANGED stock
    BY DEF vars, stock
  <1> QED
    BY <1>1, <1>2, <1>3, <1>4 DEF Next

-----------------------------------------------------------------------------
(* The natural key                                                          *)

(* What a use case's change does to the keys of the stored items: nothing,  *)
(* or it adds an item of the key that a first receipt is for.               *)
LEMMA ChangesOfKeys ==
    ASSUME IInv, NEW c \in Calls,
           \/ ReceiveStock(c) \/ ReserveStock(c)
           \/ ReleaseReservation(c) \/ AdjustInventory(c)
    PROVE  /\ pc'[c] # "found" /\ \A d \in Calls \ {c} : pc'[d] = pc[d]
           /\ request' = request /\ found' = found
           /\ \/ store' = store /\ items' = items
              \/ \E id \in Stored : \E item :
                    /\ item.key = items[id].key
                    /\ items' = [items EXCEPT ![id] = item] /\ store' = store
              \/ /\ FirstReceipt(c) /\ c \notin Stored
                 /\ \E item :
                       /\ item.key = request[c].key
                       /\ items' = [items EXCEPT ![c] = item] /\ store' = Append(store, c)
  <1>t. pc \in [Calls -> {"new", "found", "saved", "done"}]
    BY DEF IInv, TypeOK
  <1>1. ASSUME NEW id, NEW item, NEW reason, Save(c, id, item, reason)
        PROVE  /\ pc'[c] # "found" /\ \A d \in Calls \ {c} : pc'[d] = pc[d]
               /\ request' = request /\ found' = found
               /\ items' = [items EXCEPT ![id] = item]
               /\ store' = IF id \in Stored THEN store ELSE Append(store, id)
    BY <1>t, <1>1 DEF Save, End
  <1>2. ASSUME End(c, "conflict"), UNCHANGED stock
        PROVE  /\ pc'[c] # "found" /\ \A d \in Calls \ {c} : pc'[d] = pc[d]
               /\ request' = request /\ found' = found
               /\ store' = store /\ items' = items
    BY <1>t, <1>2 DEF End, stock
  <1>3. ASSUME NEW op, ActsOnItem(c, op)
        PROVE  /\ found[c] \in Stored /\ items[found[c]] \in Item
    BY <1>3, ActsOnStoredItem
  <1>4. CASE ReceiveStock(c)
    <2>1. CASE found[c] = NoItem
      <3> DEFINE item == Received(NewItem(request[c].key), request[c].quantity)
      <3>1. Save(c, c, item, "received")
        BY <1>4, <2>1 DEF ReceiveStock
      <3>2. item.key = request[c].key
        BY DEF Received, NewItem
      <3>3. FirstReceipt(c)
        BY <1>4, <2>1 DEF ReceiveStock, FirstReceipt
      <3>4. c \notin Stored
        BY <3>3 DEF IInv, FreshIds, FirstReceipt
      <3> HIDE DEF item
      <3> QED
        BY <1>1, <3>1, <3>2, <3>3, <3>4
    <2>2. CASE found[c] # NoItem
      <3> DEFINE item == Received(items[found[c]], request[c].quantity)
      <3>1. Save(c, found[c], item, "received")
        BY <1>4, <2>2 DEF ReceiveStock
      <3>2. found[c] \in Stored /\ items[found[c]] \in Item
        BY <1>3, <1>4, <2>2 DEF ReceiveStock, ActsOnItem
      <3>3. item.key = items[found[c]].key
        BY <3>2 DEF Received, Item
      <3> HIDE DEF item
      <3> QED
        BY <1>1, <3>1, <3>2, <3>3
    <2> QED
      BY <2>1, <2>2
  <1>5. CASE ReserveStock(c)
    <2> DEFINE item == Reserved(items[found[c]], c, request[c].quantity)
    <2>1. \/ End(c, "conflict") /\ UNCHANGED stock
          \/ Save(c, found[c], item, "reserved")
      BY <1>5 DEF ReserveStock
    <2>2. found[c] \in Stored /\ items[found[c]] \in Item
      BY <1>3, <1>5 DEF ReserveStock
    <2>3. item.key = items[found[c]].key
      BY <2>2 DEF Reserved, Item
    <2> HIDE DEF item
    <2> QED
      BY <1>1, <1>2, <2>1, <2>2, <2>3
  <1>6. CASE ReleaseReservation(c)
    <2>1. found[c] \in Stored /\ items[found[c]] \in Item
      BY <1>3, <1>6 DEF ReleaseReservation
    <2>2. CASE End(c, "conflict") /\ UNCHANGED stock
      BY <1>2, <2>2
    <2>3. ASSUME NEW r, Save(c, found[c], Released(items[found[c]], r), "released")
          PROVE  \E item : /\ item.key = items[found[c]].key
                           /\ Save(c, found[c], item, "released")
      <3>1. Released(items[found[c]], r).key = items[found[c]].key
        BY <2>1 DEF Released, Item
      <3> QED
        BY <2>3, <3>1
    <2>4. CASE \E item : /\ item.key = items[found[c]].key
                         /\ Save(c, found[c], item, "released")
      BY <1>1, <2>1, <2>4
    <2> QED
      BY <1>6, <2>2, <2>3, <2>4 DEF ReleaseReservation
  <1>7. CASE AdjustInventory(c)
    <2> DEFINE item == Adjusted(items[found[c]], request[c].quantity)
    <2>1. \/ End(c, "conflict") /\ UNCHANGED stock
          \/ Save(c, found[c], item, "adjusted")
      BY <1>7 DEF AdjustInventory
    <2>2. found[c] \in Stored /\ items[found[c]] \in Item
      BY <1>3, <1>7 DEF AdjustInventory
    <2>3. item.key = items[found[c]].key
      BY <2>2 DEF Adjusted, Item
    <2> HIDE DEF item
    <2> QED
      BY <1>1, <1>2, <2>1, <2>2, <2>3
  <1> QED
    BY <1>4, <1>5, <1>6, <1>7

(* A call that creates the item of a key nobody else is creating one of.    *)
LEMMA CreatingKeepsKeys ==
    ASSUME IInv, IInv', KeyInv, FirstReceiptsAreAlone, NEW c \in Calls,
           FirstReceipt(c), c \notin Stored,
           NEW item, item.key = request[c].key,
           items' = [items EXCEPT ![c] = item], store' = Append(store, c),
           pc'[c] # "found", \A d \in Calls \ {c} : pc'[d] = pc[d],
           request' = request, found' = found
    PROVE  KeyInv'
  <1>1. TypeOK /\ store \in Seq(Calls) /\ items \in [Calls -> Item \cup {NoItem}]
    BY DEF IInv, TypeOK
  <1>2. PICK n \in Nat : n = Len(store) /\ DOMAIN store = 1..n
    BY <1>1
  <1>3. /\ DOMAIN store' = 1..(n + 1)
        /\ \A i \in 1..n : store'[i] = store[i]
        /\ store'[n + 1] = c
    BY <1>1, <1>2
  <1>4. Stored' = Stored \cup {c} /\ Stored \subseteq Calls
    BY <1>1, <1>2, <1>3 DEF Stored
  <1>5. items'[c].key = request[c].key /\ \A id \in Stored : items'[id] = items[id]
    BY <1>1, <1>4
  <1>6. \A id \in Stored : items[id].key # request[c].key
    BY DEF KeyInv
  <1>7. OneItemPerKey'
    BY <1>4, <1>5, <1>6 DEF KeyInv, OneItemPerKey
  <1>8. \A key : \A x \in Calls : Lookup(key) = x => Lookup(key)' = x
    <2>1. item \in Item
      <3>1. items'[c] = item /\ items'[c] \in Item
        BY <1>1, <1>4 DEF IInv, TypeOK
      <3> QED
        BY <3>1
    <2> QED
      BY <1>1, <2>1, SaveKeepsLookups
  <1>9. ASSUME NEW id \in Stored', NEW key, key = items'[id].key
        PROVE  Lookup(key)' # NoItem
    <2>1. CASE id \in Stored
      <3>1. Lookup(key) # NoItem
        BY <1>5, <1>9, <2>1 DEF KeyInv
      <3>2. Lookup(key) \in Calls
        BY <1>1, <1>4, <3>1, LookupIsStored
      <3>3. Lookup(key)' = Lookup(key)
        BY <1>8, <3>2
      <3> QED
        BY <3>1, <3>3
    <2>2. CASE id = c
      <3>k. key = request[c].key
        BY <1>5, <1>9, <2>2
      <3>1. \A j \in PositionsOf(key)' : j = n + 1
        <4>1. ASSUME NEW j \in 1..n PROVE items'[store'[j]].key # key
          <5>1. store'[j] = store[j] /\ store[j] \in Stored
            BY <1>2, <1>3 DEF Stored
          <5> QED
            BY <1>5, <1>6, <3>k, <5>1
        <4>2. \A j \in 1..(n + 1) : j \in 1..n \/ j = n + 1
          OBVIOUS
        <4> QED
          BY <1>3, <4>1, <4>2 DEF PositionsOf
      <3>2. IsFirst(n + 1, key)'
        BY <1>3, <1>5, <3>k, <3>1 DEF IsFirst, PositionsOf
      <3>3. Lookup(key)' = c
        <4>1. Lookup(key)' = store'[CHOOSE i \in DOMAIN store' : IsFirst(i, key)']
          BY <1>3, <3>2 DEF Lookup
        <4>2. \A i : IsFirst(i, key)' => i = n + 1
          BY <3>1 DEF IsFirst
        <4> QED
          BY <1>3, <3>2, <4>1, <4>2
      <3> QED
        BY <3>3, InventoryAssumption
    <2> QED
      BY <1>4, <2>1, <2>2
  <1>10. ASSUME NEW d \in Calls, FirstReceipt(d)', NEW id \in Stored'
         PROVE  items'[id].key # request'[d].key
    <2>1. d # c /\ FirstReceipt(d)
      BY <1>10 DEF FirstReceipt
    <2>2. request[d].key # request[c].key
      BY <2>1 DEF FirstReceiptsAreAlone
    <2> QED
      BY <1>4, <1>5, <2>1, <2>2 DEF KeyInv
  <1> QED
    BY <1>7, <1>9, <1>10 DEF KeyInv

LEMMA NextKeepsKeys ==
    IInv /\ IInv' /\ KeyInv /\ FirstReceiptsAreAlone /\ [Next]_vars => KeyInv'
  <1> SUFFICES ASSUME IInv, IInv', KeyInv, FirstReceiptsAreAlone, [Next]_vars
               PROVE  KeyInv'
    OBVIOUS
  <1>t. TypeOK /\ pc \in [Calls -> {"new", "found", "saved", "done"}]
    BY DEF IInv, TypeOK
  (* The stored items stay, and who is about to create one was before, or   *)
  (* has just looked the key up in vain.                                    *)
  <1>k. ASSUME store' = store, items' = items,
               \A d \in Calls : FirstReceipt(d)' =>
                  \/ FirstReceipt(d) /\ request'[d] = request[d]
                  \/ Lookup(request'[d].key) = NoItem
        PROVE  KeyInv'
    <2>1. Stored' = Stored /\ \A key : Lookup(key)' = Lookup(key)
      BY <1>k DEF Stored, Lookup, IsFirst, PositionsOf
    <2>2. ASSUME NEW d \in Calls, FirstReceipt(d)', NEW id \in Stored
          PROVE  items[id].key # request'[d].key
      <3>1. CASE FirstReceipt(d) /\ request'[d] = request[d]
        BY <3>1 DEF KeyInv
      <3>2. CASE Lookup(request'[d].key) = NoItem
        BY <3>2 DEF KeyInv
      <3> QED
        BY <1>k, <2>2, <3>1, <3>2
    <2> QED
      BY <1>k, <2>1, <2>2 DEF KeyInv, OneItemPerKey
  <1>1. ASSUME NEW c \in Calls, Refuse(c) \/ NotFound(c) \/ Answer(c) PROVE KeyInv'
    <2>1. /\ store' = store /\ items' = items /\ request' = request /\ found' = found
          /\ pc' = [pc EXCEPT ![c] = "done"]
      BY <1>1 DEF Refuse, NotFound, Answer, End, stock
    <2>2. \A d \in Calls : FirstReceipt(d)' => FirstReceipt(d) /\ request'[d] = request[d]
      BY <1>t, <2>1 DEF FirstReceipt
    <2> QED
      BY <1>k, <2>1, <2>2
  <1>2. ASSUME NEW c \in Calls, NEW req \in Requests, Find(c, req) PROVE KeyInv'
    <2>1. /\ store' = store /\ items' = items
          /\ request' = [request EXCEPT ![c] = req]
          /\ found' = [found EXCEPT ![c] = Lookup(req.key)]
          /\ pc' = [pc EXCEPT ![c] = "found"]
      BY <1>2 DEF Find, stock
    <2>2. ASSUME NEW d \in Calls, FirstReceipt(d)'
          PROVE  \/ FirstReceipt(d) /\ request'[d] = request[d]
                 \/ Lookup(request'[d].key) = NoItem
      <3>1. /\ request \in [Calls -> Requests \cup {NoItem}]
            /\ found \in [Calls -> Calls \cup {NoItem}]
        BY <1>t DEF TypeOK
      <3>2. CASE d = c
        BY <2>1, <2>2, <3>1, <3>2 DEF FirstReceipt
      <3>3. CASE d # c
        BY <1>t, <2>1, <2>2, <3>1, <3>3 DEF FirstReceipt
      <3> QED
        BY <3>2, <3>3
    <2> QED
      BY <1>k, <2>1, <2>2
  <1>3. ASSUME NEW c \in Calls,
               \/ ReceiveStock(c) \/ ReserveStock(c)
               \/ ReleaseReservation(c) \/ AdjustInventory(c)
        PROVE  KeyInv'
    <2>1. /\ pc'[c] # "found" /\ \A d \in Calls \ {c} : pc'[d] = pc[d]
          /\ request' = request /\ found' = found
      BY <1>3, ChangesOfKeys
    <2>2. \A d \in Calls : FirstReceipt(d)' => FirstReceipt(d) /\ request'[d] = request[d]
      BY <2>1 DEF FirstReceipt
    <2>3. CASE store' = store /\ items' = items
      BY <1>k, <2>2, <2>3
    <2>4. ASSUME NEW id \in Stored, NEW item, item.key = items[id].key,
                 items' = [items EXCEPT ![id] = item], store' = store
          PROVE  KeyInv'
      <3>1. id \in Calls /\ items \in [Calls -> Item \cup {NoItem}]
        BY <1>t DEF TypeOK, Stored
      <3>2. Stored' = Stored /\ \A x \in Stored : items'[x].key = items[x].key
        BY <2>4, <3>1 DEF Stored
      <3>3. \A key : Lookup(key)' = Lookup(key)
        <4>1. \A i \in DOMAIN store : items'[store[i]].key = items[store[i]].key
          BY <3>2 DEF Stored
        <4>2. \A key : PositionsOf(key)' = PositionsOf(key)
          BY <2>4, <4>1 DEF PositionsOf
        <4>3. \A i, key : IsFirst(i, key)' <=> IsFirst(i, key)
          BY <4>2 DEF IsFirst
        <4> QED
          BY <2>4, <4>3 DEF Lookup
      <3> QED
        BY <2>1, <2>2, <3>2, <3>3 DEF KeyInv, OneItemPerKey
    <2>5. ASSUME FirstReceipt(c), c \notin Stored, NEW item, item.key = request[c].key,
                 items' = [items EXCEPT ![c] = item], store' = Append(store, c)
          PROVE  KeyInv'
      BY <2>1, <2>5, CreatingKeepsKeys
    <2> QED
      BY <1>3, <2>3, <2>4, <2>5, ChangesOfKeys
  <1>4. CASE UNCHANGED vars
    <2>1. store' = store /\ items' = items /\ pc' = pc /\ request' = request /\ found' = found
      BY <1>4 DEF vars
    <2> QED
      BY <1>k, <2>1 DEF FirstReceipt
  <1> QED
    BY <1>1, <1>2, <1>3, <1>4 DEF Next

-----------------------------------------------------------------------------
(* Theorems                                                                  *)

(* The inductive invariant holds in every reachable state: what a call found *)
(* stays what a lookup returns, through every overlap of calls and every     *)
(* failing save.                                                             *)
THEOREM InventoryInvariant == Spec => []IInv
  BY InitIsInvariant, NextKeepsInvariant, PTL DEF Spec

(* Stock is never promised twice: no item reserves more than it has on hand. *)
THEOREM StockIsNeverOversold == Spec => []NoOversell
  BY InventoryInvariant, PTL DEF IInv

(* Open reservations can always be found by product and warehouse.           *)
THEOREM ReservationsCanBeReleased == Spec => []ReservationsReachable
  BY InventoryInvariant, PTL DEF IInv

(* Overlapping first receipts are the only way to two items of one product  *)
(* and warehouse: while no two of them are between their lookup and their   *)
(* save, the natural key holds, whatever other calls overlap                *)
(* (receive-stock.use-case.ts, inventory-item-repository.ts:7).             *)
THEOREM KeysAreNaturalUnlessReceiptsOverlap ==
    Spec /\ []FirstReceiptsAreAlone => []OneItemPerKey
  <1>1. Init => KeyInv
    <2>1. Init => Stored = {}
      BY DEF Init, Stored
    <2> QED
      BY <2>1 DEF Init, KeyInv, OneItemPerKey, FirstReceipt
  <1>2. IInv /\ IInv' /\ KeyInv /\ FirstReceiptsAreAlone /\ [Next]_vars => KeyInv'
    BY NextKeepsKeys
  <1>3. KeyInv => OneItemPerKey
    BY DEF KeyInv
  <1> QED
    BY <1>1, <1>2, <1>3, InventoryInvariant, PTL DEF Spec

(* What past saves left behind is invariant as well.                         *)
THEOREM PastInvariant == Spec => []PastInv
  BY InitPast, NextKeepsPast, InventoryInvariant, PTL DEF Spec

(* The last event about an item tells its present levels, whatever calls     *)
(* overlapped, unless a save of the item failed (inventory-item.ts:20).      *)
THEOREM LastEventsTellTheLevels == Spec => []LastEventIsLevel
  BY PastInvariant, PTL DEF PastInv

(* A reservation is held by one item until one call releases it, and by none *)
(* after that (inventory-item.ts:53-61).                                     *)
THEOREM ReservationsAreReleasedOnce == Spec => []ReservedUntilReleasedOnce
  BY PastInvariant, ReleasedOnce, PTL

(* The reserved quantity is what the open reservations add up to, so that    *)
(* Math.max(0, ...) in StockLevel.release never hides a difference           *)
(* (inventory-item.ts:41-61).                                                *)
THEOREM ReservedQuantitiesAddUp == Spec => []ReservedIsSumOfReservations
  <1>1. Init => UnitsInv
    <2>1. Init => Stored = {}
      BY DEF Init, Stored
    <2> QED
      BY <2>1 DEF UnitsInv, ReservedIsSumOfReservations
  <1>2. UnitsInv => ReservedIsSumOfReservations
    BY DEF UnitsInv
  <1> QED
    BY <1>1, <1>2, NextKeepsUnits, InventoryInvariant, PastInvariant, PTL DEF Spec

USE BatchAssumption

-----------------------------------------------------------------------------
(* The slice and its use cases                                               *)

LEMMA SliceStepIsStep == [SliceNext]_sliceVars => [Next]_vars
  BY DEF SliceNext, sliceVars, UseCaseStep, DrainStep

(* The slice implements the inventory on its own: draining the outbox        *)
(* disturbs no use case.                                                     *)
THEOREM SliceImplementsInventory == SliceSpec => Spec
  <1>1. SliceInit => Init
    BY DEF SliceInit
  <1>2. [SliceNext]_sliceVars => [Next]_vars
    BY SliceStepIsStep
  <1> QED
    BY <1>1, <1>2, PTL DEF SliceSpec, Spec

-----------------------------------------------------------------------------
(* The relay                                                                 *)

(* drainOutbox is called by one caller.                                      *)
OneRelay == \A r, s \in Relays : r = s

(* Published, given to the sink and in the batch are initial stretches of    *)
(* the outbox: up to k, up to the number of deliveries, up to m.             *)
Stretches(k, m) ==
    /\ k \in Nat /\ m \in Nat
    /\ k <= Len(delivered) /\ Len(delivered) <= m /\ m <= Len(outbox)
    /\ published = 1..k
    /\ \A r \in Relays :
          \/ batch[r] = {} /\ todo[r] = {} /\ m = k
          \/ batch[r] = (k + 1)..m /\ todo[r] = (Len(delivered) + 1)..m /\ k < m
    /\ Relays = {} => m = k

DrainInv ==
    /\ delivered \in Seq(Nat)
    /\ SinkReadsOutbox
    /\ batch \in [Relays -> SUBSET Nat]
    /\ todo \in [Relays -> SUBSET Nat]
    /\ \E k, m \in Nat : Stretches(k, m)

LEMMA OutboxGrows ==
    ASSUME TypeOK, [Next]_vars
    PROVE  /\ Len(outbox) \in Nat /\ Len(outbox') \in Nat /\ Len(outbox) <= Len(outbox')
           /\ DOMAIN outbox = 1..Len(outbox)
  <1>1. outbox \in Seq(Event)
    BY DEF TypeOK
  <1>2. outbox' = outbox \/ \E e : outbox' = Append(outbox, e)
    BY DEF Next, vars, stock, Refuse, NotFound, Answer, Find, ReceiveStock, ReserveStock,
       ReleaseReservation, AdjustInventory, Save
  <1>3. /\ Len(outbox) \in Nat /\ DOMAIN outbox = 1..Len(outbox)
        /\ \A e : Len(Append(outbox, e)) = Len(outbox) + 1
    BY <1>1
  <1> QED
    BY <1>2, <1>3

(* SinkRelay counts with the same operator.                                  *)
LEMMA SinkCardinality == \A S : Sink!Cardinality(S) = Cardinality(S)
  BY Zenon DEF Sink!Cardinality, Cardinality

(* What fetchPending returns, the published entries being the first k.       *)
LEMMA OldestIsStretch ==
    ASSUME TypeOK, NEW k \in Nat, published = 1..k, k <= Len(outbox),
           Sink!OldestPending(BatchSize) # {}
    PROVE  \E m \in Nat : /\ k < m /\ m <= Len(outbox)
                          /\ Sink!OldestPending(BatchSize) = (k + 1)..m
  <1>1. PICK n \in Nat : n = Len(outbox) /\ DOMAIN outbox = 1..n
    BY DEF TypeOK
  <1>2. Sink!Pending = (k + 1)..n
    BY <1>1 DEF Sink!Pending, Sink!Entries
  <1>3. ASSUME NEW p \in (k + 1)..n
        PROVE  Cardinality({q \in (k + 1)..n : q < p}) = p - (k + 1)
    <2>1. PICK a \in Int, b \in Int : a = k + 1 /\ b = p - 1
      BY <1>3
    <2>2. {q \in (k + 1)..n : q < p} = a..b
      BY <1>3, <2>1
    <2>3. Cardinality(a..b) = IF a > b THEN 0 ELSE b - a + 1
      BY FS_Interval
    <2>4. (IF a > b THEN 0 ELSE b - a + 1) = p - (k + 1)
      BY <1>3, <2>1
    <2> QED
      BY <2>2, <2>3, <2>4
  <1>4. Sink!OldestPending(BatchSize) = {p \in (k + 1)..n : p - (k + 1) < BatchSize}
    <2>1. \A p \in Sink!Pending : Cardinality({q \in Sink!Pending : q < p}) = p - (k + 1)
      BY <1>2, <1>3
    <2>2. SUFFICES ASSUME NEW p
                   PROVE  p \in Sink!OldestPending(BatchSize)
                            <=> p \in Sink!Pending /\ p - (k + 1) < BatchSize
      BY <1>2
    <2>3. p \in Sink!OldestPending(BatchSize)
            <=> /\ p \in Sink!Pending
                /\ Sink!Cardinality({q \in Sink!Pending : q < p}) < BatchSize
      BY DEF Sink!OldestPending
    <2> QED
      BY <2>1, <2>3, SinkCardinality
  <1>5. PICK m \in Nat : m = IF k + BatchSize <= n THEN k + BatchSize ELSE n
    <2>1. (IF k + BatchSize <= n THEN k + BatchSize ELSE n) \in Nat
      OBVIOUS
    <2> QED
      BY <2>1
  <1>6. Sink!OldestPending(BatchSize) = (k + 1)..m
    BY <1>1, <1>4, <1>5
  <1>7. k < m /\ m <= n
    BY <1>1, <1>5, <1>6
  <1> QED
    BY <1>1, <1>6, <1>7

LEMMA StretchIsEmpty ==
    ASSUME NEW a \in Nat, NEW b \in Nat
    PROVE  (a + 1)..b = {} <=> b <= a
  <1>1. a < b => b \in (a + 1)..b
    OBVIOUS
  <1>2. b <= a => (a + 1)..b = {}
    OBVIOUS
  <1> QED
    BY <1>1, <1>2

LEMMA FetchStretches ==
    ASSUME OneRelay, TypeOK, DrainInv, NEW r \in Relays, Sink!FetchPending(r)
    PROVE  DrainInv'
  <1>1. PICK k \in Nat, m \in Nat : Stretches(k, m)
    BY DEF DrainInv
  <1>2. /\ batch[r] = {} /\ Sink!OldestPending(BatchSize) # {}
        /\ batch' = [batch EXCEPT ![r] = Sink!OldestPending(BatchSize)]
        /\ todo' = [todo EXCEPT ![r] = Sink!OldestPending(BatchSize)]
        /\ outbox' = outbox /\ published' = published /\ delivered' = delivered
    <2>1. \A p : RoutedToSink(p)
      BY DEF RoutedToSink, TopicOf, SinkTopics
    <2>2. {p \in Sink!OldestPending(BatchSize) : RoutedToSink(p)} = Sink!OldestPending(BatchSize)
      BY <2>1
    <2> QED
      BY <2>2 DEF Sink!FetchPending
  <1>3. /\ published = 1..k /\ m = k /\ Len(delivered) = k /\ k <= Len(outbox)
        /\ Len(delivered) \in Nat /\ Len(outbox) \in Nat
    <2>1. Len(delivered) \in Nat /\ Len(outbox) \in Nat
      BY DEF DrainInv, TypeOK
    <2>2. (k + 1)..m = {} => m <= k
      BY StretchIsEmpty
    <2>3. /\ k <= Len(delivered) /\ Len(delivered) <= m /\ m <= Len(outbox)
          /\ published = 1..k
          /\ \/ batch[r] = {} /\ m = k
             \/ batch[r] = (k + 1)..m /\ k < m
      BY <1>1 DEF Stretches
    <2> QED
      BY <1>2, <2>1, <2>2, <2>3
  <1>4. PICK l \in Nat : /\ k < l /\ l <= Len(outbox)
                         /\ Sink!OldestPending(BatchSize) = (k + 1)..l
    BY <1>2, <1>3, OldestIsStretch
  <1>5. /\ batch' \in [Relays -> SUBSET Nat] /\ todo' \in [Relays -> SUBSET Nat]
        /\ batch'[r] = (k + 1)..l /\ todo'[r] = (k + 1)..l
    BY <1>2, <1>4 DEF DrainInv
  <1>6. Stretches(k, l)'
    BY <1>2, <1>3, <1>4, <1>5 DEF Stretches, OneRelay
  <1> QED
    BY <1>2, <1>5, <1>6 DEF DrainInv, SinkReadsOutbox

LEMMA DeliverStretches ==
    ASSUME OneRelay, TypeOK, DrainInv, NEW r \in Relays, Sink!DeliverNext(r)
    PROVE  DrainInv'
  <1>1. PICK k \in Nat, m \in Nat : Stretches(k, m)
    BY DEF DrainInv
  <1>2. PICK n \in Nat : n = Len(delivered) /\ DOMAIN delivered = 1..n
    BY DEF DrainInv
  <1>3. PICK p \in todo[r] :
          /\ \A q \in todo[r] : p <= q
          /\ delivered' = Append(delivered, p)
          /\ todo' = [todo EXCEPT ![r] = @ \ {p}]
          /\ outbox' = outbox /\ published' = published /\ batch' = batch
    BY DEF Sink!DeliverNext
  <1>4. batch[r] = (k + 1)..m /\ todo[r] = (n + 1)..m /\ k < m /\ k <= n /\ n <= m
    BY <1>1, <1>2, <1>3 DEF Stretches
  <1>5. p = n + 1 /\ n + 1 <= m
    <2>1. p \in (n + 1)..m /\ n + 1 \in (n + 1)..m
      BY <1>3, <1>4
    <2>2. p <= n + 1
      BY <1>3, <1>4, <2>1
    <2> QED
      BY <2>1, <2>2
  <1>6. /\ delivered' \in Seq(Nat) /\ Len(delivered') = n + 1 /\ DOMAIN delivered' = 1..(n + 1)
        /\ \A i \in 1..n : delivered'[i] = delivered[i]
        /\ delivered'[n + 1] = n + 1
    BY <1>2, <1>3, <1>5 DEF DrainInv
  <1>7. SinkReadsOutbox'
    BY <1>2, <1>6 DEF DrainInv, SinkReadsOutbox
  <1>8. todo' \in [Relays -> SUBSET Nat] /\ todo'[r] = (n + 2)..m
    BY <1>3, <1>4, <1>5 DEF DrainInv
  <1>9. Stretches(k, m)'
    <2>1. Len(delivered)' = n + 1 /\ n + 2 = (n + 1) + 1 /\ n + 1 <= m /\ k <= n + 1
      BY <1>4, <1>5, <1>6
    <2>2. m <= Len(outbox') /\ published' = 1..k
      BY <1>1, <1>3 DEF Stretches
    <2>3. \A x \in Relays : batch'[x] = (k + 1)..m /\ todo'[x] = ((n + 1) + 1)..m
      BY <1>3, <1>4, <1>8, <2>1 DEF OneRelay
    <2> QED
      BY <1>4, <2>1, <2>2, <2>3 DEF Stretches
  <1> QED
    BY <1>3, <1>6, <1>7, <1>8, <1>9 DEF DrainInv

LEMMA MarkStretches ==
    ASSUME OneRelay, TypeOK, DrainInv, NEW r \in Relays, Sink!MarkPublished(r)
    PROVE  DrainInv'
  <1>1. PICK k \in Nat, m \in Nat : Stretches(k, m)
    BY DEF DrainInv
  <1>2. PICK n \in Nat : n = Len(delivered)
    BY DEF DrainInv
  <1>3. /\ batch[r] # {} /\ todo[r] = {}
        /\ published' = published \cup batch[r]
        /\ batch' = [batch EXCEPT ![r] = {}]
        /\ outbox' = outbox /\ todo' = todo /\ delivered' = delivered
    BY DEF Sink!MarkPublished
  <1>4. batch[r] = (k + 1)..m /\ todo[r] = (n + 1)..m /\ k < m /\ n <= m /\ published = 1..k
    BY <1>1, <1>2, <1>3 DEF Stretches
  <1>5. n = m /\ published' = 1..m
    <2>0. (n + 1)..m = {}
      BY <1>3, <1>4
    <2>1. n = m
      <3>1. m <= n
        BY <2>0, StretchIsEmpty
      <3> QED
        BY <1>4, <3>1
    <2>2. 1..k \cup (k + 1)..m = 1..m
      BY <1>4
    <2> QED
      BY <1>3, <1>4, <2>1, <2>2
  <1>6. batch' \in [Relays -> SUBSET Nat] /\ batch'[r] = {}
    BY <1>3 DEF DrainInv
  <1>7. Stretches(m, m)'
    BY <1>1, <1>2, <1>3, <1>5, <1>6 DEF Stretches, OneRelay
  <1> QED
    BY <1>3, <1>6, <1>7 DEF DrainInv, SinkReadsOutbox

LEMMA InitDrain == SliceInit => DrainInv
  <1> SUFFICES ASSUME SliceInit PROVE DrainInv
    OBVIOUS
  <1>1. /\ published = {} /\ delivered = <<>> /\ outbox = <<>>
        /\ batch = [r \in Relays |-> {}] /\ todo = [r \in Relays |-> {}]
    BY DEF SliceInit, Init, Sink!RelayInit
  <1>2. Stretches(0, 0)
    BY <1>1 DEF Stretches
  <1> QED
    BY <1>1, <1>2 DEF DrainInv, SinkReadsOutbox

LEMMA StepDrain ==
    ASSUME OneRelay
    PROVE  TypeOK /\ DrainInv /\ [SliceNext]_sliceVars => DrainInv'
  <1> SUFFICES ASSUME TypeOK, DrainInv, [SliceNext]_sliceVars PROVE DrainInv'
    OBVIOUS
  <1>1. CASE [Next]_vars /\ UNCHANGED relayVars
    <2>1. /\ published' = published /\ batch' = batch /\ todo' = todo /\ delivered' = delivered
      BY <1>1 DEF relayVars
    <2>2. Len(outbox) \in Nat /\ Len(outbox') \in Nat /\ Len(outbox) <= Len(outbox')
      BY <1>1, OutboxGrows
    <2>3. PICK k \in Nat, m \in Nat : Stretches(k, m)
      BY DEF DrainInv
    <2>4. Stretches(k, m)'
      BY <2>1, <2>2, <2>3 DEF Stretches
    <2> QED
      BY <2>1, <2>4 DEF DrainInv, SinkReadsOutbox
  <1>2. ASSUME NEW r \in Relays, DrainStep(r) PROVE DrainInv'
    BY <1>2, FetchStretches, DeliverStretches, MarkStretches DEF DrainStep, Sink!Drain
  <1> QED
    BY <1>1, <1>2 DEF SliceNext, sliceVars, UseCaseStep

(* With one caller of drainOutbox the published entries, the deliveries and  *)
(* the batch are stretches of the outbox, for any batch size.                *)
THEOREM DrainInvariant ==
    ASSUME OneRelay
    PROVE  SliceSpec => []DrainInv
  <1>1. SliceInit => DrainInv
    BY InitDrain
  <1>2. TypeOK /\ DrainInv /\ [SliceNext]_sliceVars => DrainInv'
    BY StepDrain
  <1>3. SliceSpec => []TypeOK
    BY SliceImplementsInventory, InventoryInvariant, PTL DEF IInv
  <1> QED
    BY <1>1, <1>2, <1>3, PTL DEF SliceSpec

-----------------------------------------------------------------------------
(* What the sink is given                                                    *)

(* The sink reads the outbox: each entry once, in order, while calls append  *)
(* to it (in-memory-bus.ts:7-8).                                             *)
THEOREM TheSinkReadsTheOutbox ==
    ASSUME OneRelay
    PROVE  SliceSpec => []SinkReadsOutbox
  <1>1. DrainInv => SinkReadsOutbox
    BY DEF DrainInv
  <1> QED
    BY <1>1, DrainInvariant, PTL

(* The stock and the relay keep to their types.                              *)
THEOREM SliceTypes ==
    ASSUME OneRelay
    PROVE  SliceSpec => []SliceTypeOK
  <1>1. TypeOK /\ DrainInv => SliceTypeOK
    <2> SUFFICES ASSUME TypeOK, DrainInv PROVE Sink!RelayTypeOK
      BY DEF SliceTypeOK
    <2>1. PICK k \in Nat, m \in Nat : Stretches(k, m)
      BY DEF DrainInv
    <2>2. PICK n \in Nat : n = Len(outbox) /\ DOMAIN outbox = 1..n
      BY DEF TypeOK
    <2>3. PICK d \in Nat : d = Len(delivered) /\ DOMAIN delivered = 1..d
      BY DEF DrainInv
    <2>4. /\ published \subseteq 1..n
          /\ \A r \in Relays : batch[r] \subseteq 1..n /\ todo[r] \subseteq 1..n
          /\ d <= n
      BY <2>1, <2>2, <2>3 DEF Stretches
    <2>5. /\ batch \in [Relays -> SUBSET (1..n)]
          /\ todo \in [Relays -> SUBSET (1..n)]
      BY <2>4 DEF DrainInv
    <2>6. delivered \in Seq(1..n)
      <3>1. \A i \in 1..d : delivered[i] \in 1..n
        BY <2>3, <2>4 DEF DrainInv, SinkReadsOutbox
      <3> QED
        BY <2>3, <3>1 DEF DrainInv
    <2> QED
      BY <2>2, <2>4, <2>5, <2>6 DEF Sink!RelayTypeOK, Sink!Entries
  <1>2. SliceSpec => []TypeOK
    BY SliceImplementsInventory, InventoryInvariant, PTL DEF IInv
  <1> QED
    BY <1>1, <1>2, DrainInvariant, PTL

(* A sink that has read the outbox knows the stock, whatever calls           *)
(* overlapped each other and the drains, for any batch size.                 *)
THEOREM TheSinkKnowsTheStock ==
    ASSUME OneRelay
    PROVE  SliceSpec => []SinkKnowsStock
  <1>1. TypeOK /\ DrainInv /\ LastEventIsLevel => SinkKnowsStock
    <2> SUFFICES ASSUME TypeOK, DrainInv, LastEventIsLevel, Sink!Pending = {},
                        NEW id \in Stored, ~ SaveFailed(id)
                 PROVE  SinkKnows(id)
      BY DEF SinkKnowsStock
    <2>1. PICK k \in Nat, m \in Nat : Stretches(k, m)
      BY DEF DrainInv
    <2>2. PICK n \in Nat : n = Len(outbox) /\ DOMAIN outbox = 1..n
      BY DEF TypeOK
    <2>3. PICK d \in Nat : d = Len(delivered) /\ DOMAIN delivered = 1..d
      BY DEF DrainInv
    <2>4. k = n /\ d = n
      <3>1. published = 1..k /\ k <= d /\ d <= n
        BY <2>1, <2>2, <2>3 DEF Stretches
      <3>2. 1..n \ 1..k = {}
        BY <2>2, <3>1 DEF Sink!Pending, Sink!Entries
      <3> QED
        BY <3>1, <3>2
    <2>5. \A i \in 1..n : delivered[i] = i
      BY <2>3, <2>4 DEF DrainInv, SinkReadsOutbox
    <2>6. PICK i \in 1..n :
            /\ outbox[i].item = id
            /\ \A j \in 1..n : j > i => outbox[j].item # id
            /\ outbox[i].onHand = items[id].onHand
            /\ outbox[i].reserved = items[id].reserved
      BY <2>2 DEF LastEventIsLevel
    <2> QED
      BY <2>3, <2>4, <2>5, <2>6 DEF SinkKnows
  <1>2. SliceSpec => [](TypeOK /\ LastEventIsLevel)
    BY SliceImplementsInventory, InventoryInvariant, LastEventsTellTheLevels, PTL DEF IInv
  <1> QED
    BY <1>1, <1>2, DrainInvariant, PTL
=============================================================================
