---------------------------- MODULE PricingProofs ----------------------------
(***************************************************************************)
(* Proofs about Pricing, for any number of calls, currencies and amounts.  *)
(***************************************************************************)
EXTENDS Pricing, FiniteSetTheorems, TLAPS

USE PricingAssumption, MissingAssumption

-----------------------------------------------------------------------------
(* The data                                                                  *)

LEMMA RequestFields ==
    ASSUME NEW r \in Requests
    PROVE  /\ r # Missing
           /\ r.op \in {"activate", "change"}
           /\ r.id \in Calls
           /\ r.op = "change" => r.money \in Money
  BY DEF Requests

LEMMA DraftIsDraft ==
    ASSUME NEW currency \in Currencies
    PROVE  /\ Draft(currency) \in PriceList
           /\ Draft(currency) # Missing
           /\ ~ IsActive(Draft(currency))
  BY DEF PriceList, Draft, IsActive

LEMMA ActivatedIsActive ==
    ASSUME NEW list \in PriceList
    PROVE  /\ Activated(list) \in PriceList
           /\ Activated(list) # Missing
           /\ IsActive(Activated(list))
  BY DEF PriceList, Activated, IsActive

LEMMA PriceFields ==
    ASSUME NEW price \in Price, NEW money \in Money, NEW id \in Calls
    PROVE  /\ price # Missing /\ price.money \in Money
           /\ Changed(price, money) \in Price
           /\ Changed(price, money) # Missing
           /\ Changed(price, money).money = money
           /\ EventOf(id, price) \in Event
           /\ EventOf(id, price).price = id
           /\ EventOf(id, price).money = price.money
  BY DEF Price, Changed, EventOf, Event

LEMMA NewPrice ==
    ASSUME NEW list \in Calls, NEW money \in Money
    PROVE  /\ [list |-> list, money |-> money] \in Price
           /\ [list |-> list, money |-> money] # Missing
           /\ [list |-> list, money |-> money].money = money
  BY DEF Price

(* The types by variable.                                                    *)
LEMMA Types ==
    ASSUME TypeOK
    PROVE  /\ pc \in [Calls -> {"new", "found", "saved", "done"}]
           /\ request \in [Calls -> Requests \cup {Missing}]
           /\ found \in [Calls -> Calls \cup {Missing}]
           /\ reply \in [Calls -> {"none", "ok", "invalid", "notFound", "conflict", "rejected"}]
           /\ lists \in [Calls -> PriceList \cup {Missing}]
           /\ prices \in [Calls -> Price \cup {Missing}]
           /\ outbox \in Seq(Event)
           /\ ListIds \subseteq Calls /\ PriceIds \subseteq Calls
           /\ \A l \in ListIds : lists[l] \in PriceList
           /\ \A p \in PriceIds : prices[p] \in Price
  BY DEF TypeOK, ListIds, PriceIds

LEMMA LookupFinds ==
    ASSUME NEW req \in Requests, Lookup(req) # Missing
    PROVE  Lookup(req) = req.id /\ Lookup(req) \in IdsFor(req.op)
  BY DEF Lookup

-----------------------------------------------------------------------------
(* The kinds of step                                                         *)

(* A step in which no call changes what it was sent to.                      *)
NobodyApplies ==
    /\ \A op, id : Applied(op, id)' = Applied(op, id)
    /\ \A c \in Calls : (reply[c] = "rejected") <=> (reply'[c] = "rejected")

(* The steps that change neither repository: a refusal, an answer, a lookup, *)
(* a conflict.                                                               *)
Idles(c) ==
    \/ Refuse(c) \/ NotFound(c) \/ Answer(c)
    \/ \E req \in Requests : Find(c, req)
    \/ ActivatePriceList(c) /\ IsActive(lists[found[c]])

LEMMA IdleKind ==
    ASSUME TypeOK, CallsAreInOrder, NEW c \in Calls, Idles(c)
    PROVE  NobodyApplies /\ lists' = lists /\ prices' = prices /\ outbox' = outbox
  <1>1. lists' = lists /\ prices' = prices /\ outbox' = outbox
    BY DEF Idles, Refuse, NotFound, Answer, Find, ActivatePriceList, repositories
  <1>2. /\ pc \in [Calls -> {"new", "found", "saved", "done"}]
        /\ request \in [Calls -> Requests \cup {Missing}]
        /\ reply \in [Calls -> {"none", "ok", "invalid", "notFound", "conflict", "rejected"}]
    BY Types
  <1>3. reply[c] = "none" /\ (pc[c] = "new" => request[c] = Missing)
    BY <1>2 DEF CallsAreInOrder, Idles, Refuse, NotFound, Answer, Find, ActivatePriceList, ActsOn
  <1>4. \A d \in Calls \ {c} : pc'[d] = pc[d] /\ request'[d] = request[d] /\ reply'[d] = reply[d]
    BY <1>2 DEF Idles, Refuse, NotFound, Answer, Find, ActivatePriceList, End
  <1>5. reply'[c] # "rejected"
    BY <1>2, <1>3 DEF Idles, Refuse, NotFound, Answer, Find, ActivatePriceList, End
  <1>6. ASSUME NEW op, NEW id PROVE c \in Applied(op, id)' <=> c \in Applied(op, id)
    <2>1. CASE Answer(c)
      BY <1>2, <2>1 DEF Answer, End, Applied
    <2>2. CASE Refuse(c)
      BY <1>2, <1>3, <2>2 DEF Refuse, End, Applied
    <2>3. CASE NotFound(c) \/ (ActivatePriceList(c) /\ IsActive(lists[found[c]]))
      BY <1>2, <1>3, <2>3 DEF NotFound, ActivatePriceList, ActsOn, End, Applied
    <2>4. CASE \E req \in Requests : Find(c, req)
      BY <1>2, <1>3, <2>4 DEF Find, Applied
    <2> QED
      BY <2>1, <2>2, <2>3, <2>4 DEF Idles
  <1>7. ASSUME NEW op, NEW id PROVE Applied(op, id)' = Applied(op, id)
    <2>1. \A d \in Calls \ {c} : d \in Applied(op, id)' <=> d \in Applied(op, id)
      BY <1>4 DEF Applied
    <2>2. Applied(op, id) \subseteq Calls /\ Applied(op, id)' \subseteq Calls
      BY DEF Applied
    <2> QED
      BY <1>6, <2>1, <2>2
  <1> QED
    BY <1>1, <1>3, <1>4, <1>5, <1>7 DEF NobodyApplies

(* A call that creates a list or a price.                                    *)
Creates(c) ==
    \/ \E currency \in Currencies : CreatePriceList(c, currency)
    \/ \E list \in Calls, money \in Money : CreatePrice(c, list, money)

LEMMA CreateKind ==
    ASSUME TypeOK, CallsAreInOrder, NEW c \in Calls, Creates(c)
    PROVE  /\ NobodyApplies /\ outbox' = outbox
           /\ pc[c] = "new" /\ pc' = [pc EXCEPT ![c] = "saved"]
           /\ request' = request /\ found' = found /\ reply' = reply
           /\ request[c] = Missing /\ found[c] = Missing /\ reply[c] = "none"
           /\ lists[c] = Missing /\ prices[c] = Missing
  <1>1. /\ pc[c] = "new" /\ pc' = [pc EXCEPT ![c] = "saved"] /\ outbox' = outbox
        /\ request' = request /\ found' = found /\ reply' = reply
    BY DEF Creates, CreatePriceList, CreatePrice, Saved
  <1>2. /\ request[c] = Missing /\ found[c] = Missing /\ reply[c] = "none"
        /\ lists[c] = Missing /\ prices[c] = Missing
    BY <1>1 DEF CallsAreInOrder
  <1>3. pc \in [Calls -> {"new", "found", "saved", "done"}]
    BY Types
  <1>4. \A op, id : Applied(op, id)' = Applied(op, id)
    BY <1>1, <1>2, <1>3 DEF Applied
  <1> QED
    BY <1>1, <1>2, <1>4 DEF NobodyApplies

(* A call that changes the list or price p it found, by its operation op.    *)
Applies(c, op, p) ==
    /\ pc[c] = "found" /\ found[c] = p /\ p \in Calls
    /\ p \in IdsFor(op)
    /\ request[c] \in Requests /\ request[c].op = op /\ request[c].id = p
    /\ reply[c] = "none"

(* What it changes of the calls.                                             *)
Settles(c) ==
    /\ request' = request /\ found' = found
    /\ \A d \in Calls \ {c} : reply'[d] = reply[d] /\ pc'[d] = pc[d]
    /\ \/ pc'[c] = "saved" /\ reply'[c] = "none"
       \/ pc'[c] = "done" /\ reply'[c] = "rejected"

LEMMA ActsApplies ==
    ASSUME TypeOK, CallsAreInOrder, NEW c \in Calls, NEW op, ActsOn(c, op)
    PROVE  Applies(c, op, found[c])
  <1>1. ListIds \subseteq Calls /\ PriceIds \subseteq Calls
    BY Types
  <1> QED
    BY <1>1 DEF CallsAreInOrder, ActsOn, Applies, IdsFor

LEMMA AppliedGrows ==
    ASSUME TypeOK, NEW c \in Calls, NEW op, NEW p,
           Applies(c, op, p), Settles(c)
    PROVE  /\ \A o, id : c \notin Applied(o, id)
           /\ \A o, id : Applied(o, id)' =
                IF o = op /\ id = p THEN Applied(o, id) \cup {c} ELSE Applied(o, id)
  <1>1. pc[c] = "found" /\ reply[c] = "none" /\ request[c].op = op /\ request[c].id = p
    BY DEF Applies
  <1>2. request[c] # Missing
    BY RequestFields DEF Applies
  <1>3. \A o, id : c \notin Applied(o, id)
    BY <1>1 DEF Applied
  <1>4. ASSUME NEW o, NEW id
        PROVE  Applied(o, id)' =
                 IF o = op /\ id = p THEN Applied(o, id) \cup {c} ELSE Applied(o, id)
    <2>1. Applied(o, id) \subseteq Calls /\ Applied(o, id)' \subseteq Calls
      BY DEF Applied
    <2>2. \A d \in Calls \ {c} : d \in Applied(o, id)' <=> d \in Applied(o, id)
      BY DEF Applied, Settles
    <2>3. c \in Applied(o, id)' <=> o = op /\ id = p
      BY <1>1, <1>2 DEF Applied, Settles
    <2>4. CASE o = op /\ id = p
      BY <2>1, <2>2, <2>3, <2>4
    <2>5. CASE ~ (o = op /\ id = p)
      BY <1>3, <2>1, <2>2, <2>3, <2>5
    <2> QED
      BY <2>4, <2>5
  <1> QED
    BY <1>3, <1>4

(* An activation that is not refused.                                        *)
Activates(c, l) ==
    /\ Applies(c, "activate", l)
    /\ Settles(c)
    /\ ~ IsActive(lists[l])
    /\ lists' = [lists EXCEPT ![l] = Activated(lists[l])]
    /\ prices' = prices /\ outbox' = outbox

LEMMA ActivateKind ==
    ASSUME TypeOK, CallsAreInOrder, NEW c \in Calls,
           ActivatePriceList(c), ~ IsActive(lists[found[c]])
    PROVE  Activates(c, found[c])
  <1>1. /\ ActsOn(c, "activate")
        /\ lists' = [lists EXCEPT ![found[c]] = Activated(lists[found[c]])]
        /\ Saved(c) /\ prices' = prices
    BY DEF ActivatePriceList
  <1>2. Applies(c, "activate", found[c])
    BY <1>1, ActsApplies
  <1>3. /\ pc \in [Calls -> {"new", "found", "saved", "done"}]
        /\ reply[c] = "none"
    BY <1>2, Types DEF Applies
  <1>4. Settles(c) /\ outbox' = outbox
    BY <1>1, <1>3 DEF Settles, Saved
  <1> QED
    BY <1>1, <1>2, <1>4 DEF Activates

(* A change of price p to price, with its event or without.                  *)
Changes(c, p, price) ==
    /\ Applies(c, "change", p)
    /\ Settles(c)
    /\ price = Changed(prices[p], request[c].money)
    /\ Accepted(request[c].money.currency)
    /\ prices' = [prices EXCEPT ![p] = price]
    /\ lists' = lists
    /\ \/ outbox' = Append(outbox, EventOf(p, price)) /\ reply'[c] = "none"
       \/ outbox' = outbox /\ reply'[c] = "rejected"

LEMMA ChangeKind ==
    ASSUME TypeOK, CallsAreInOrder, NEW c \in Calls, ChangePrice(c)
    PROVE  \E price : Changes(c, found[c], price)
  <1>1. /\ ActsOn(c, "change")
        /\ prices' = [prices EXCEPT ![found[c]] = Changed(prices[found[c]], request[c].money)]
        /\ lists' = lists
    BY DEF ChangePrice
  <1>2. Applies(c, "change", found[c])
    BY <1>1, ActsApplies
  <1>3. /\ pc \in [Calls -> {"new", "found", "saved", "done"}]
        /\ reply \in [Calls -> {"none", "ok", "invalid", "notFound", "conflict", "rejected"}]
        /\ prices \in [Calls -> Price \cup {Missing}]
        /\ reply[c] = "none" /\ found[c] \in Calls
        /\ Accepted(request[c].money.currency)
    BY <1>2, Types DEF Applies, CallsAreInOrder
  <1> DEFINE price == Changed(prices[found[c]], request[c].money)
  <1>4. prices'[found[c]] = price
    BY <1>1, <1>3
  <1>5. CASE /\ outbox' = Append(outbox, EventOf(found[c], prices'[found[c]]))
             /\ pc' = [pc EXCEPT ![c] = "saved"]
             /\ UNCHANGED <<request, found, reply>>
    <2>1. outbox' = Append(outbox, EventOf(found[c], price)) /\ reply'[c] = "none"
      BY <1>3, <1>4, <1>5
    <2>2. Settles(c)
      BY <1>3, <1>5 DEF Settles
    <2>3. Changes(c, found[c], price)
      BY <1>1, <1>2, <1>3, <2>1, <2>2 DEF Changes
    <2> QED
      BY <2>3
  <1>6. CASE End(c, "rejected") /\ outbox' = outbox
    <2>1. Settles(c) /\ reply'[c] = "rejected"
      BY <1>3, <1>6 DEF Settles, End
    <2>2. Changes(c, found[c], price)
      BY <1>1, <1>2, <1>3, <1>6, <2>1 DEF Changes
    <2> QED
      BY <2>2
  <1> QED
    BY <1>5, <1>6 DEF ChangePrice

-----------------------------------------------------------------------------
(* The history of the lists                                                  *)

LEMMA ListsStay ==
    ASSUME ActivatorIsSole,
           \A l \in Calls : Applied("activate", l)' = Applied("activate", l),
           ListIds \subseteq ListIds', ListIds' \subseteq Calls,
           \A l \in ListIds : lists'[l] = lists[l],
           \A l \in ListIds' \ ListIds : ~ IsActive(lists'[l])
    PROVE  ActivatorIsSole'
  BY DEF ActivatorIsSole

LEMMA ActivateStep ==
    ASSUME TypeOK, ActivatorIsSole, NEW c \in Calls, NEW l \in Calls, Activates(c, l)
    PROVE  /\ ActivatorIsSole'
           /\ Applied("activate", l) = {} /\ Applied("activate", l)' = {c}
           /\ ListIds' = ListIds
           /\ lists' \in [Calls -> PriceList \cup {Missing}]
  <1>1. /\ l \in ListIds /\ ListIds \subseteq Calls
        /\ lists \in [Calls -> PriceList \cup {Missing}]
        /\ lists[l] \in PriceList
    BY Types DEF Activates, Applies, IdsFor
  <1>2. /\ ~ IsActive(lists[l])
        /\ lists' = [lists EXCEPT ![l] = Activated(lists[l])]
    BY DEF Activates
  <1>3. /\ lists'[l] = Activated(lists[l]) /\ IsActive(lists'[l])
        /\ \A k \in Calls \ {l} : lists'[k] = lists[k]
        /\ lists' \in [Calls -> PriceList \cup {Missing}]
        /\ lists'[l] # Missing
    BY <1>1, <1>2, ActivatedIsActive
  <1>4. ListIds' = ListIds
    BY <1>1, <1>3 DEF ListIds
  <1>5. Applied("activate", l) = {}
    BY <1>1, <1>2 DEF ActivatorIsSole
  <1>6. /\ Applied("activate", l)' = {c}
        /\ \A k \in Calls \ {l} : Applied("activate", k)' = Applied("activate", k)
    BY <1>5, AppliedGrows DEF Activates
  <1>7. ASSUME NEW k \in Calls
        PROVE  /\ Applied("activate", k)' # {} => k \in ListIds' /\ IsActive(lists'[k])
               /\ k \in ListIds' /\ IsActive(lists'[k]) =>
                     \E d \in Calls : Applied("activate", k)' = {d}
    <2>1. CASE k = l
      BY <1>1, <1>3, <1>4, <1>6, <2>1
    <2>2. CASE k # l
      BY <1>3, <1>4, <1>6, <2>2 DEF ActivatorIsSole
    <2> QED
      BY <2>1, <2>2
  <1>8. ActivatorIsSole'
    BY <1>7 DEF ActivatorIsSole
  <1> QED
    BY <1>3, <1>4, <1>5, <1>6, <1>8

-----------------------------------------------------------------------------
(* The history of the prices                                                 *)

PriceHistory ==
    /\ EventsAreOfPrices
    /\ ChangesAreOfPrices
    /\ LastEventIsAmount

LEMMA PricesStay ==
    ASSUME PriceHistory, outbox' = outbox,
           \A p \in Calls : /\ Applied("change", p)' = Applied("change", p)
                            /\ FailedChanges(p)' = FailedChanges(p),
           PriceIds \subseteq PriceIds', PriceIds' \subseteq Calls,
           \A p \in PriceIds : prices'[p] = prices[p]
    PROVE  PriceHistory'
  <1>1. \A p : EventsOf(p)' = EventsOf(p)
    BY DEF EventsOf
  <1>2. EventsAreOfPrices'
    BY DEF PriceHistory, EventsAreOfPrices
  <1>3. ChangesAreOfPrices'
    BY <1>1 DEF PriceHistory, ChangesAreOfPrices
  <1>4. ASSUME NEW p \in PriceIds'
        PROVE  /\ Cardinality(EventsOf(p)') = Cardinality(Applied("change", p)' \ FailedChanges(p)')
               /\ FailedChanges(p)' = {} =>
                    \A i \in EventsOf(p)' :
                      (\A j \in EventsOf(p)' : j <= i) => outbox'[i].money = prices'[p].money
    <2>1. CASE p \in PriceIds
      BY <1>1, <2>1 DEF PriceHistory, LastEventIsAmount
    <2>2. CASE p \notin PriceIds
      <3>1. Applied("change", p) = {} /\ EventsOf(p) = {}
        BY <2>2 DEF PriceHistory, ChangesAreOfPrices, EventsAreOfPrices, EventsOf
      <3>2. Applied("change", p) \ FailedChanges(p) = {}
        BY <3>1
      <3> QED
        BY <1>1, <3>1, <3>2
    <2> QED
      BY <2>1, <2>2
  <1>5. LastEventIsAmount'
    BY <1>4 DEF LastEventIsAmount
  <1> QED
    BY <1>2, <1>3, <1>5 DEF PriceHistory

(* What a change does to the price, its event and its count of changes.      *)
LEMMA ChangeEffects ==
    ASSUME TypeOK, NEW c \in Calls, NEW p \in Calls, NEW price, Changes(c, p, price)
    PROVE  /\ p \in PriceIds /\ PriceIds' = PriceIds /\ PriceIds \subseteq Calls
           /\ prices' \in [Calls -> Price \cup {Missing}]
           /\ price \in Price /\ prices'[p] = price
           /\ price.money = request[c].money
           /\ \A q \in Calls \ {p} : prices'[q] = prices[q]
           /\ EventOf(p, price) \in Event
           /\ EventOf(p, price).price = p /\ EventOf(p, price).money = price.money
  <1>1. /\ p \in PriceIds /\ PriceIds \subseteq Calls
        /\ prices \in [Calls -> Price \cup {Missing}]
        /\ prices[p] \in Price /\ request[c].money \in Money
    BY Types, RequestFields DEF Changes, Applies, IdsFor
  <1>2. /\ price = Changed(prices[p], request[c].money)
        /\ prices' = [prices EXCEPT ![p] = price]
    BY DEF Changes
  <1>3. price \in Price /\ price # Missing /\ price.money = request[c].money
    BY <1>1, <1>2, PriceFields
  <1>4. /\ EventOf(p, price) \in Event
        /\ EventOf(p, price).price = p /\ EventOf(p, price).money = price.money
    BY <1>1, <1>3, PriceFields
  <1>5. /\ prices' \in [Calls -> Price \cup {Missing}] /\ prices'[p] = price
        /\ \A q \in Calls \ {p} : prices'[q] = prices[q]
    BY <1>1, <1>2, <1>3
  <1>6. PriceIds' = PriceIds
    BY <1>1, <1>3, <1>5 DEF PriceIds
  <1> QED
    BY <1>1, <1>3, <1>4, <1>5, <1>6

(* The positions of a price's events after a change.                         *)
LEMMA EventsGrow ==
    ASSUME TypeOK, NEW p \in Calls, NEW event \in Event, event.price = p
    PROVE  outbox' = Append(outbox, event) =>
             \E n \in Nat :
                /\ DOMAIN outbox = 1..n /\ DOMAIN outbox' = 1..(n + 1)
                /\ \A i \in 1..n : outbox'[i] = outbox[i]
                /\ outbox'[n + 1] = event
                /\ EventsOf(p)' = EventsOf(p) \cup {n + 1}
                /\ EventsOf(p) \subseteq 1..n
                /\ \A q \in Calls \ {p} : EventsOf(q)' = EventsOf(q)
  <1> SUFFICES ASSUME outbox' = Append(outbox, event)
               PROVE  \E n \in Nat :
                        /\ DOMAIN outbox = 1..n /\ DOMAIN outbox' = 1..(n + 1)
                        /\ \A i \in 1..n : outbox'[i] = outbox[i]
                        /\ outbox'[n + 1] = event
                        /\ EventsOf(p)' = EventsOf(p) \cup {n + 1}
                        /\ EventsOf(p) \subseteq 1..n
                        /\ \A q \in Calls \ {p} : EventsOf(q)' = EventsOf(q)
    OBVIOUS
  <1>1. outbox \in Seq(Event)
    BY Types
  <1>2. PICK n \in Nat : n = Len(outbox)
    BY <1>1
  <1>3. /\ DOMAIN outbox = 1..n /\ DOMAIN outbox' = 1..(n + 1)
        /\ \A i \in 1..n : outbox'[i] = outbox[i]
        /\ outbox'[n + 1] = event
    BY <1>1, <1>2
  <1>4. EventsOf(p)' = EventsOf(p) \cup {n + 1} /\ EventsOf(p) \subseteq 1..n
    BY <1>3 DEF EventsOf
  <1>5. \A q \in Calls \ {p} : EventsOf(q)' = EventsOf(q)
    BY <1>3 DEF EventsOf
  <1> QED
    BY <1>3, <1>4, <1>5

LEMMA ChangeStep ==
    ASSUME TypeOK, PriceHistory, NEW c \in Calls, NEW p \in Calls, NEW price,
           Changes(c, p, price)
    PROVE  PriceHistory'
  <1>1. /\ p \in PriceIds /\ PriceIds' = PriceIds /\ PriceIds \subseteq Calls
        /\ price \in Price /\ prices'[p] = price
        /\ \A q \in Calls \ {p} : prices'[q] = prices[q]
        /\ EventOf(p, price) \in Event
        /\ EventOf(p, price).price = p /\ EventOf(p, price).money = price.money
    BY ChangeEffects
  <1>2. /\ Applies(c, "change", p) /\ Settles(c)
        /\ reply[c] = "none"
        /\ \A d \in Calls \ {c} : reply'[d] = reply[d]
    BY DEF Changes, Applies, Settles
  <1>3. /\ c \notin Applied("change", p)
        /\ Applied("change", p)' = Applied("change", p) \cup {c}
        /\ \A q \in Calls \ {p} :
              /\ c \notin Applied("change", q)
              /\ Applied("change", q)' = Applied("change", q)
    BY <1>2, AppliedGrows
  <1>4. \A q \in Calls : Applied("change", q) \subseteq Calls
    BY DEF Applied
  <1>5. \A q \in Calls \ {p} : FailedChanges(q)' = FailedChanges(q)
    BY <1>2, <1>3, <1>4 DEF FailedChanges
  <1>6. /\ EventsAreOfPrices /\ ChangesAreOfPrices /\ LastEventIsAmount
        /\ IsFiniteSet(Applied("change", p)) /\ IsFiniteSet(EventsOf(p))
        /\ IsFiniteSet(Applied("change", p)')
    BY <1>3, FS_AddElement DEF PriceHistory, ChangesAreOfPrices
  <1>7. CASE outbox' = outbox /\ reply'[c] = "rejected"
    <2>1. \A q : EventsOf(q)' = EventsOf(q)
      BY <1>7 DEF EventsOf
    <2>2. FailedChanges(p)' = FailedChanges(p) \cup {c}
      BY <1>2, <1>3, <1>4, <1>7 DEF FailedChanges
    <2>3. EventsAreOfPrices'
      BY <1>1, <1>6, <1>7 DEF EventsAreOfPrices
    <2>4. ChangesAreOfPrices'
      BY <1>1, <1>3, <1>6, <2>1 DEF ChangesAreOfPrices
    <2>5. Applied("change", p)' \ FailedChanges(p)' = Applied("change", p) \ FailedChanges(p)
      BY <1>3, <2>2
    <2>6. LastEventIsAmount'
      <3>1. FailedChanges(p)' # {}
        BY <2>2
      <3> QED
        BY <1>1, <1>3, <1>5, <1>6, <1>7, <2>1, <2>5, <3>1 DEF LastEventIsAmount
    <2> QED
      BY <2>3, <2>4, <2>6 DEF PriceHistory
  <1>8. CASE outbox' = Append(outbox, EventOf(p, price)) /\ reply'[c] = "none"
    <2>1. PICK n \in Nat :
            /\ DOMAIN outbox = 1..n /\ DOMAIN outbox' = 1..(n + 1)
            /\ \A i \in 1..n : outbox'[i] = outbox[i]
            /\ outbox'[n + 1] = EventOf(p, price)
            /\ EventsOf(p)' = EventsOf(p) \cup {n + 1}
            /\ EventsOf(p) \subseteq 1..n
            /\ \A q \in Calls \ {p} : EventsOf(q)' = EventsOf(q)
      BY <1>1, <1>8, EventsGrow
    <2>2. FailedChanges(p)' = FailedChanges(p) /\ c \notin FailedChanges(p)
      BY <1>2, <1>3, <1>4, <1>8 DEF FailedChanges
    <2>3. EventsAreOfPrices'
      BY <1>1, <1>6, <2>1 DEF EventsAreOfPrices
    <2>4. n + 1 \notin EventsOf(p)
      BY <2>1
    <2>5. /\ IsFiniteSet(EventsOf(p)')
          /\ Cardinality(EventsOf(p)') = Cardinality(EventsOf(p)) + 1
      <3>1. PICK m : m = n + 1
        OBVIOUS
      <3>2. EventsOf(p)' = EventsOf(p) \cup {m} /\ m \notin EventsOf(p)
        BY <2>1, <2>4, <3>1
      <3> QED
        BY <1>6, <3>2, FS_AddElement
    <2>6. ChangesAreOfPrices'
      BY <1>1, <1>3, <1>6, <2>1, <2>5 DEF ChangesAreOfPrices
    <2>7. /\ IsFiniteSet(Applied("change", p) \ FailedChanges(p))
          /\ Applied("change", p)' \ FailedChanges(p)'
                = (Applied("change", p) \ FailedChanges(p)) \cup {c}
      <3>1. Applied("change", p) \ FailedChanges(p) \subseteq Applied("change", p)
        OBVIOUS
      <3> QED
        BY <1>3, <1>6, <2>2, <3>1, FS_Subset
    <2>8. Cardinality(Applied("change", p)' \ FailedChanges(p)')
            = Cardinality(Applied("change", p) \ FailedChanges(p)) + 1
      BY <1>3, <2>7, FS_AddElement
    <2>9. LastEventIsAmount'
      <3>1. ASSUME NEW q \in PriceIds, q # p
            PROVE  /\ Cardinality(EventsOf(q)') = Cardinality(Applied("change", q)' \ FailedChanges(q)')
                   /\ FailedChanges(q)' = {} =>
                        \A i \in EventsOf(q)' :
                          (\A j \in EventsOf(q)' : j <= i) => outbox'[i].money = prices'[q].money
        <4>1. /\ EventsOf(q)' = EventsOf(q) /\ prices'[q] = prices[q]
              /\ Applied("change", q)' = Applied("change", q)
              /\ FailedChanges(q)' = FailedChanges(q)
          BY <1>1, <1>3, <1>5, <2>1, <3>1
        <4>2. \A i \in EventsOf(q) : outbox'[i] = outbox[i]
          BY <2>1 DEF EventsOf
        <4> QED
          BY <1>6, <4>1, <4>2 DEF LastEventIsAmount
      <3>2. Cardinality(EventsOf(p)') = Cardinality(Applied("change", p)' \ FailedChanges(p)')
        BY <1>1, <1>6, <2>5, <2>8 DEF LastEventIsAmount
      <3>3. \A i \in EventsOf(p)' :
              (\A j \in EventsOf(p)' : j <= i) => outbox'[i].money = prices'[p].money
        <4>1. ASSUME NEW i \in EventsOf(p)', \A j \in EventsOf(p)' : j <= i
              PROVE  i = n + 1
          BY <2>1, <4>1
        <4> QED
          BY <1>1, <2>1, <4>1
      <3> QED
        BY <1>1, <3>1, <3>2, <3>3 DEF LastEventIsAmount
    <2> QED
      BY <2>3, <2>6, <2>9 DEF PriceHistory
  <1> QED
    BY <1>7, <1>8 DEF Changes

-----------------------------------------------------------------------------
(* The calls                                                                 *)

(* CallsAreInOrder follows from how the variables of one call change, if     *)
(* lists and prices are only added.                                          *)
LEMMA CallsStay ==
    ASSUME CallsAreInOrder, NEW c \in Calls,
           \A d \in Calls \ {c} : pc'[d] = pc[d],
           \A d \in Calls \ {c} : request'[d] = request[d],
           \A d \in Calls \ {c} : found'[d] = found[d],
           \A d \in Calls \ {c} : reply'[d] = reply[d],
           \A d \in Calls \ {c} : lists[d] = Missing => lists'[d] = Missing,
           \A d \in Calls \ {c} : prices[d] = Missing => prices'[d] = Missing,
           ListIds \subseteq ListIds', PriceIds \subseteq PriceIds',
           pc'[c] # "new",
           pc'[c] # "done" => reply'[c] = "none",
           pc'[c] = "found" =>
              /\ request'[c] \in Requests
              /\ request'[c].op = "change" => Accepted(request'[c].money.currency),
           found'[c] # Missing =>
              /\ request'[c] \in Requests
              /\ found'[c] = request'[c].id /\ found'[c] \in IdsFor(request[c].op)'
    PROVE  CallsAreInOrder'
  <1> SUFFICES ASSUME NEW d \in Calls
               PROVE  /\ pc'[d] = "new" => /\ request'[d] = Missing /\ found'[d] = Missing
                                           /\ lists'[d] = Missing /\ prices'[d] = Missing
                      /\ pc'[d] # "done" => reply'[d] = "none"
                      /\ pc'[d] = "found" =>
                            /\ request'[d] \in Requests
                            /\ request'[d].op = "change" => Accepted(request'[d].money.currency)
                      /\ found'[d] # Missing =>
                            /\ request'[d] \in Requests
                            /\ found'[d] = request'[d].id
                            /\ found'[d] \in IdsFor(request[d].op)'
    BY DEF CallsAreInOrder, Accepted
  <1>1. CASE d = c
    BY <1>1 DEF IdsFor
  <1>2. CASE d # c
    <2>1. /\ pc'[d] = pc[d] /\ request'[d] = request[d]
          /\ found'[d] = found[d] /\ reply'[d] = reply[d]
          /\ lists[d] = Missing => lists'[d] = Missing
          /\ prices[d] = Missing => prices'[d] = Missing
      BY <1>2
    <2> QED
      BY <2>1 DEF CallsAreInOrder, IdsFor
  <1> QED
    BY <1>1, <1>2

LEMMA IdleCalls ==
    ASSUME TypeOK, CallsAreInOrder, NEW c \in Calls, Idles(c)
    PROVE  TypeOK' /\ CallsAreInOrder'
  <1>1. lists' = lists /\ prices' = prices /\ outbox' = outbox
    BY IdleKind
  <1>2. ListIds' = ListIds /\ PriceIds' = PriceIds
    BY <1>1 DEF ListIds, PriceIds
  <1>4. /\ pc \in [Calls -> {"new", "found", "saved", "done"}]
        /\ request \in [Calls -> Requests \cup {Missing}]
        /\ found \in [Calls -> ListIds \cup PriceIds \cup {Missing}]
        /\ reply \in [Calls -> {"none", "ok", "invalid", "notFound", "conflict", "rejected"}]
        /\ lists \in [Calls -> PriceList \cup {Missing}]
        /\ prices \in [Calls -> Price \cup {Missing}]
        /\ outbox \in Seq(Event)
        /\ \A p \in PriceIds : Accepted(prices[p].money.currency)
    BY DEF TypeOK
  <1>5. CASE \E status \in {"ok", "invalid", "notFound", "conflict"} : End(c, status)
    <2>1. PICK status \in {"ok", "invalid", "notFound", "conflict"} : End(c, status)
      BY <1>5
    <2>2. /\ pc' = [pc EXCEPT ![c] = "done"] /\ reply' = [reply EXCEPT ![c] = status]
          /\ request' = request /\ found' = found
      BY <2>1 DEF End
    <2>3. /\ pc'[c] = "done"
          /\ \A d \in Calls \ {c} : pc'[d] = pc[d]
          /\ \A d \in Calls \ {c} : reply'[d] = reply[d]
          /\ pc' \in [Calls -> {"new", "found", "saved", "done"}]
          /\ reply' \in [Calls -> {"none", "ok", "invalid", "notFound", "conflict", "rejected"}]
      BY <1>4, <2>2
    <2>4. found[c] # Missing =>
             /\ request[c] \in Requests
             /\ found[c] = request[c].id /\ found[c] \in IdsFor(request[c].op)'
      BY <1>2, <2>2 DEF CallsAreInOrder, IdsFor
    <2>5. CallsAreInOrder'
      BY <1>1, <1>2, <2>2, <2>3, <2>4, CallsStay
    <2> QED
      BY <1>1, <1>2, <1>4, <2>2, <2>3, <2>5 DEF TypeOK, Accepted
  <1>6. CASE \E req \in Requests : Find(c, req)
    <2>1. PICK req \in Requests : Find(c, req)
      BY <1>6
    <2>2. /\ pc' = [pc EXCEPT ![c] = "found"] /\ pc[c] = "new"
          /\ request' = [request EXCEPT ![c] = req]
          /\ found' = [found EXCEPT ![c] = Lookup(req)]
          /\ reply' = reply
          /\ req.op = "change" => Accepted(req.money.currency)
      BY <2>1 DEF Find
    <2>3. Lookup(req) # Missing => Lookup(req) = req.id /\ Lookup(req) \in IdsFor(req.op)
      BY LookupFinds
    <2>4. /\ pc'[c] = "found" /\ reply[c] = "none"
          /\ request'[c] = req /\ found'[c] = Lookup(req)
          /\ \A d \in Calls \ {c} : pc'[d] = pc[d]
          /\ \A d \in Calls \ {c} : request'[d] = request[d]
          /\ \A d \in Calls \ {c} : found'[d] = found[d]
      BY <1>4, <2>2 DEF CallsAreInOrder
    <2>5. found'[c] # Missing =>
             /\ request'[c] \in Requests
             /\ found'[c] = request'[c].id /\ found'[c] \in IdsFor(request[c].op)'
      BY <1>2, <2>3, <2>4 DEF IdsFor
    <2>6. CallsAreInOrder'
      BY <1>1, <1>2, <2>2, <2>4, <2>5, CallsStay
    <2>7. /\ pc' \in [Calls -> {"new", "found", "saved", "done"}]
          /\ request' \in [Calls -> Requests \cup {Missing}]
          /\ found' \in [Calls -> ListIds' \cup PriceIds' \cup {Missing}]
      BY <1>2, <1>4, <2>2, <2>3 DEF IdsFor
    <2> QED
      BY <1>1, <1>2, <1>4, <2>2, <2>6, <2>7 DEF TypeOK, Accepted
  <1> QED
    BY <1>5, <1>6 DEF Idles, Refuse, NotFound, Answer, ActivatePriceList

LEMMA CreateCalls ==
    ASSUME TypeOK, CallsAreInOrder, NEW c \in Calls, Creates(c)
    PROVE  /\ TypeOK' /\ CallsAreInOrder'
           /\ ListIds \subseteq ListIds' /\ PriceIds \subseteq PriceIds'
           /\ \A l \in ListIds : lists'[l] = lists[l]
           /\ \A l \in ListIds' \ ListIds : ~ IsActive(lists'[l])
           /\ \A p \in PriceIds : prices'[p] = prices[p]
  <1>1. /\ outbox' = outbox
        /\ pc[c] = "new" /\ pc' = [pc EXCEPT ![c] = "saved"]
        /\ request' = request /\ found' = found /\ reply' = reply
        /\ found[c] = Missing /\ reply[c] = "none"
        /\ lists[c] = Missing /\ prices[c] = Missing
    BY CreateKind
  <1>2. /\ pc \in [Calls -> {"new", "found", "saved", "done"}]
        /\ found \in [Calls -> ListIds \cup PriceIds \cup {Missing}]
        /\ lists \in [Calls -> PriceList \cup {Missing}]
        /\ prices \in [Calls -> Price \cup {Missing}]
        /\ \A p \in PriceIds : Accepted(prices[p].money.currency)
    BY DEF TypeOK
  <1>3. /\ lists' \in [Calls -> PriceList \cup {Missing}]
        /\ \A d \in Calls \ {c} : lists'[d] = lists[d]
        /\ lists'[c] # Missing => ~ IsActive(lists'[c])
        /\ prices' \in [Calls -> Price \cup {Missing}]
        /\ \A d \in Calls \ {c} : prices'[d] = prices[d]
        /\ prices'[c] # Missing => Accepted(prices'[c].money.currency)
    <2>1. CASE \E currency \in Currencies : CreatePriceList(c, currency)
      <3>1. PICK currency \in Currencies : CreatePriceList(c, currency)
        BY <2>1
      <3>2. lists' = [lists EXCEPT ![c] = Draft(currency)] /\ prices' = prices
        BY <3>1 DEF CreatePriceList
      <3> QED
        BY <1>1, <1>2, <3>2, DraftIsDraft
    <2>2. CASE \E list \in Calls, money \in Money : CreatePrice(c, list, money)
      <3>1. PICK list \in Calls, money \in Money : CreatePrice(c, list, money)
        BY <2>2
      <3>2. /\ prices' = [prices EXCEPT ![c] = [list |-> list, money |-> money]]
            /\ lists' = lists /\ Accepted(money.currency)
        BY <3>1 DEF CreatePrice
      <3> QED
        BY <1>1, <1>2, <3>2, NewPrice
    <2> QED
      BY <2>1, <2>2 DEF Creates
  <1>4. /\ ListIds \subseteq ListIds' /\ PriceIds \subseteq PriceIds'
        /\ ListIds' \subseteq ListIds \cup {c} /\ PriceIds' \subseteq PriceIds \cup {c}
        /\ c \notin ListIds /\ c \notin PriceIds
        /\ ListIds \subseteq Calls /\ PriceIds \subseteq Calls
    BY <1>1, <1>3 DEF ListIds, PriceIds
  <1>5. pc'[c] = "saved" /\ \A d \in Calls \ {c} : pc'[d] = pc[d]
    BY <1>1, <1>2
  <1>6. CallsAreInOrder'
    BY <1>1, <1>3, <1>4, <1>5, CallsStay
  <1>7. /\ pc' \in [Calls -> {"new", "found", "saved", "done"}]
        /\ found' \in [Calls -> ListIds' \cup PriceIds' \cup {Missing}]
    BY <1>1, <1>2, <1>4
  <1>8. \A p \in PriceIds' : Accepted(prices'[p].money.currency)
    BY <1>2, <1>3, <1>4 DEF PriceIds
  <1>9. TypeOK'
    BY <1>1, <1>3, <1>7, <1>8 DEF TypeOK, Accepted
  <1>10. /\ \A l \in ListIds : lists'[l] = lists[l]
         /\ \A l \in ListIds' \ ListIds : ~ IsActive(lists'[l])
         /\ \A p \in PriceIds : prices'[p] = prices[p]
    BY <1>3, <1>4 DEF ListIds
  <1> QED
    BY <1>4, <1>6, <1>9, <1>10

LEMMA AppliedCalls ==
    ASSUME TypeOK, CallsAreInOrder, NEW c \in Calls, NEW p, NEW op,
           Applies(c, op, p), Settles(c),
           lists' \in [Calls -> PriceList \cup {Missing}], ListIds' = ListIds,
           prices' \in [Calls -> Price \cup {Missing}], PriceIds' = PriceIds,
           \A q \in PriceIds : Accepted(prices'[q].money.currency),
           outbox' \in Seq(Event),
           pc' \in [Calls -> {"new", "found", "saved", "done"}],
           reply' \in [Calls -> {"none", "ok", "invalid", "notFound", "conflict", "rejected"}]
    PROVE  TypeOK' /\ CallsAreInOrder'
  <1>1. request' = request /\ found' = found
    BY DEF Settles
  <1>2. TypeOK'
    BY <1>1 DEF TypeOK, Accepted
  <1>3. /\ request[c] \in Requests
        /\ found[c] = request[c].id /\ found[c] \in IdsFor(request[c].op)'
    BY <1>1 DEF Applies, IdsFor
  <1>4. /\ \A d \in Calls \ {c} : pc'[d] = pc[d]
        /\ \A d \in Calls \ {c} : reply'[d] = reply[d]
        /\ pc'[c] \in {"saved", "done"}
        /\ pc'[c] # "done" => reply'[c] = "none"
    BY DEF Settles
  <1>5. /\ \A d \in Calls \ {c} : lists[d] = Missing => lists'[d] = Missing
        /\ \A d \in Calls \ {c} : prices[d] = Missing => prices'[d] = Missing
    BY DEF ListIds, PriceIds
  <1>6. CallsAreInOrder'
    BY <1>1, <1>3, <1>4, <1>5, CallsStay
  <1> QED
    BY <1>2, <1>6

(* Settles, with the types of what it changes.                               *)
LEMMA SettledTypes ==
    ASSUME TypeOK, NEW c \in Calls,
           \/ ActivatePriceList(c) /\ ~ IsActive(lists[found[c]])
           \/ ChangePrice(c)
    PROVE  /\ pc' \in [Calls -> {"new", "found", "saved", "done"}]
           /\ reply' \in [Calls -> {"none", "ok", "invalid", "notFound", "conflict", "rejected"}]
  <1>1. /\ pc \in [Calls -> {"new", "found", "saved", "done"}]
        /\ reply \in [Calls -> {"none", "ok", "invalid", "notFound", "conflict", "rejected"}]
    BY Types
  <1> QED
    BY <1>1 DEF ActivatePriceList, ChangePrice, Saved, End

-----------------------------------------------------------------------------
(* The inductive invariant                                                   *)

LEMMA InitHolds == Init => IInv
  <1> SUFFICES ASSUME Init PROVE IInv
    OBVIOUS
  <1>1. ListIds = {} /\ PriceIds = {} /\ outbox = <<>> /\ DOMAIN outbox = {}
    BY DEF Init, ListIds, PriceIds
  <1>2. \A op, id : Applied(op, id) = {}
    BY DEF Init, Applied
  <1>3. \A p : EventsOf(p) = {}
    BY <1>1 DEF EventsOf
  <1>4. TypeOK
    BY <1>1 DEF Init, TypeOK
  <1>5. CallsAreInOrder
    BY DEF Init, CallsAreInOrder
  <1>6. ActivatorIsSole
    BY <1>1, <1>2 DEF ActivatorIsSole
  <1>7. ChangesAreOfPrices
    BY <1>2, <1>3, FS_EmptySet DEF ChangesAreOfPrices
  <1>8. EventsAreOfPrices /\ LastEventIsAmount
    BY <1>1 DEF EventsAreOfPrices, LastEventIsAmount
  <1> QED
    BY <1>4, <1>5, <1>6, <1>7, <1>8 DEF IInv

LEMMA FailuresStay ==
    ASSUME NobodyApplies, NEW p
    PROVE  FailedChanges(p)' = FailedChanges(p)
  <1>1. Applied("change", p)' = Applied("change", p) /\ Applied("change", p) \subseteq Calls
    BY DEF NobodyApplies, Applied
  <1> QED
    BY <1>1 DEF NobodyApplies, FailedChanges

LEMMA StepPreserves == IInv /\ [Next]_vars => IInv'
  <1> SUFFICES ASSUME IInv, [Next]_vars PROVE IInv'
    OBVIOUS
  <1>1. TypeOK /\ CallsAreInOrder /\ ActivatorIsSole /\ PriceHistory
    BY DEF IInv, PriceHistory
  <1>2. ListIds \subseteq Calls /\ PriceIds \subseteq Calls
    BY <1>1, Types
  <1>3. CASE UNCHANGED vars
    <2>1. /\ pc' = pc /\ request' = request /\ found' = found /\ reply' = reply
          /\ lists' = lists /\ prices' = prices /\ outbox' = outbox
      BY <1>3 DEF vars
    <2>2. ListIds' = ListIds /\ PriceIds' = PriceIds
      BY <2>1 DEF ListIds, PriceIds
    <2>3. TypeOK' /\ CallsAreInOrder'
      BY <1>1, <2>1, <2>2 DEF TypeOK, CallsAreInOrder, IdsFor, Accepted
    <2>4. NobodyApplies
      BY <2>1 DEF NobodyApplies, Applied
    <2>5. ActivatorIsSole' /\ PriceHistory'
      BY <1>1, <1>2, <2>1, <2>2, <2>4, ListsStay, PricesStay, FailuresStay DEF NobodyApplies
    <2> QED
      BY <2>3, <2>5 DEF IInv, PriceHistory
  <1>4. CASE Next
    <2> PICK c \in Calls :
          \/ Refuse(c) \/ NotFound(c) \/ Answer(c)
          \/ \E currency \in Currencies : CreatePriceList(c, currency)
          \/ \E list \in Calls, money \in Money : CreatePrice(c, list, money)
          \/ \E req \in Requests : Find(c, req)
          \/ ActivatePriceList(c) \/ ChangePrice(c)
      BY <1>4 DEF Next
    <2>1. CASE Idles(c)
      <3>1. TypeOK' /\ CallsAreInOrder'
        BY <1>1, <2>1, IdleCalls
      <3>2. NobodyApplies /\ lists' = lists /\ prices' = prices /\ outbox' = outbox
        BY <1>1, <2>1, IdleKind
      <3>3. ListIds' = ListIds /\ PriceIds' = PriceIds
        BY <3>2 DEF ListIds, PriceIds
      <3>4. ActivatorIsSole' /\ PriceHistory'
        BY <1>1, <1>2, <3>2, <3>3, ListsStay, PricesStay, FailuresStay DEF NobodyApplies
      <3> QED
        BY <3>1, <3>4 DEF IInv, PriceHistory
    <2>2. CASE Creates(c)
      <3>1. /\ TypeOK' /\ CallsAreInOrder'
            /\ ListIds \subseteq ListIds' /\ PriceIds \subseteq PriceIds'
            /\ \A l \in ListIds : lists'[l] = lists[l]
            /\ \A l \in ListIds' \ ListIds : ~ IsActive(lists'[l])
            /\ \A p \in PriceIds : prices'[p] = prices[p]
        BY <1>1, <2>2, CreateCalls
      <3>2. NobodyApplies /\ outbox' = outbox
        BY <1>1, <2>2, CreateKind
      <3>3. ListIds' \subseteq Calls /\ PriceIds' \subseteq Calls
        BY DEF ListIds, PriceIds
      <3>4. ActivatorIsSole'
        BY <1>1, <3>1, <3>2, <3>3, ListsStay DEF NobodyApplies
      <3>5. PriceHistory'
        BY <1>1, <3>1, <3>2, <3>3, PricesStay, FailuresStay DEF NobodyApplies
      <3> QED
        BY <3>1, <3>4, <3>5 DEF IInv, PriceHistory
    <2>3. CASE ActivatePriceList(c) /\ ~ IsActive(lists[found[c]])
      <3>1. Activates(c, found[c]) /\ found[c] \in Calls
        BY <1>1, <2>3, ActivateKind DEF Activates, Applies
      <3>2. PICK l \in Calls : Activates(c, l)
        BY <3>1
      <3>3. /\ ActivatorIsSole' /\ ListIds' = ListIds
            /\ lists' \in [Calls -> PriceList \cup {Missing}]
        BY <1>1, <3>2, ActivateStep
      <3>4. /\ prices' = prices /\ outbox' = outbox
            /\ Applies(c, "activate", l) /\ Settles(c)
        BY <3>2 DEF Activates
      <3>5. PriceIds' = PriceIds
        BY <3>4 DEF PriceIds
      <3>6. TypeOK' /\ CallsAreInOrder'
        BY <1>1, <2>3, <3>3, <3>4, <3>5, AppliedCalls, SettledTypes DEF TypeOK
      <3>7. \A p \in Calls : /\ Applied("change", p)' = Applied("change", p)
                             /\ c \notin Applied("change", p)
        BY <1>1, <3>4, AppliedGrows
      <3>8. \A p \in Calls : FailedChanges(p)' = FailedChanges(p)
        BY <3>4, <3>7 DEF FailedChanges, Settles, Applied
      <3>9. PriceHistory'
        BY <1>1, <1>2, <3>4, <3>5, <3>7, <3>8, PricesStay
      <3> QED
        BY <3>3, <3>6, <3>9 DEF IInv, PriceHistory
    <2>4. CASE ChangePrice(c)
      <3>1. PICK price : Changes(c, found[c], price)
        BY <1>1, <2>4, ChangeKind
      <3>2. PICK p \in Calls : Changes(c, p, price)
        BY <3>1 DEF Changes, Applies
      <3>3. /\ p \in PriceIds /\ PriceIds' = PriceIds
            /\ prices' \in [Calls -> Price \cup {Missing}]
            /\ prices'[p] = price /\ price.money = request[c].money
            /\ \A q \in Calls \ {p} : prices'[q] = prices[q]
            /\ EventOf(p, price) \in Event
        BY <1>1, <3>2, ChangeEffects
      <3>4. /\ lists' = lists /\ Applies(c, "change", p) /\ Settles(c)
            /\ Accepted(request[c].money.currency)
            /\ outbox' = outbox \/ outbox' = Append(outbox, EventOf(p, price))
        BY <3>2 DEF Changes
      <3>5. ListIds' = ListIds
        BY <3>4 DEF ListIds
      <3>6. outbox' \in Seq(Event)
        BY <1>1, <3>3, <3>4, Types
      <3>7. \A q \in PriceIds : Accepted(prices'[q].money.currency)
        BY <1>1, <1>2, <3>3, <3>4 DEF TypeOK
      <3>8. TypeOK' /\ CallsAreInOrder'
        BY <1>1, <2>4, <3>3, <3>4, <3>5, <3>6, <3>7, Types, AppliedCalls, SettledTypes
      <3>9. \A l \in Calls : Applied("activate", l)' = Applied("activate", l)
        BY <1>1, <3>4, AppliedGrows
      <3>10. ActivatorIsSole'
        BY <1>1, <1>2, <3>4, <3>5, <3>9, ListsStay
      <3>11. PriceHistory'
        BY <1>1, <3>2, ChangeStep
      <3> QED
        BY <3>8, <3>10, <3>11 DEF IInv, PriceHistory
    <2> QED
      BY <2>1, <2>2, <2>3, <2>4 DEF Idles, Creates
  <1> QED
    BY <1>3, <1>4

(* Every reachable state satisfies the inductive invariant.                  *)
THEOREM PricingInvariant == Spec => []IInv
  <1>1. Init => IInv
    BY InitHolds
  <1>2. IInv /\ [Next]_vars => IInv'
    BY StepPreserves
  <1> QED
    BY <1>1, <1>2, PTL DEF Spec

(* Types are kept, and no price has a currency that Currency.create refuses. *)
THEOREM PricingTypes == Spec => []TypeOK
  <1>1. IInv => TypeOK
    BY DEF IInv
  <1> QED
    BY <1>1, PricingInvariant, PTL

(* There is one event per change of a price whose save did not fail, and the *)
(* last one has the present amount, however changes overlap                  *)
(* (price.ts:23-36).                                                         *)
THEOREM EventsEndWithTheAmount == Spec => []LastEventIsAmount
  <1>1. IInv => LastEventIsAmount
    BY DEF IInv
  <1> QED
    BY <1>1, PricingInvariant, PTL

(* Of overlapping activations of a list exactly one succeeds                 *)
(* (price-list.ts:18-23).                                                    *)
THEOREM ListsAreActivatedOnce == Spec => []ActivatedOnce
  <1>1. IInv => ActivatedOnce
    <2> SUFFICES ASSUME IInv, NEW l \in ListIds
                 PROVE  Cardinality(Applied("activate", l)) = IF IsActive(lists[l]) THEN 1 ELSE 0
      BY DEF ActivatedOnce
    <2>1. ActivatorIsSole /\ l \in Calls
      BY DEF IInv, ListIds
    <2>2. Cardinality({}) = 0 /\ \A x : Cardinality({x}) = 1
      BY FS_EmptySet, FS_Singleton
    <2>3. CASE IsActive(lists[l])
      <3>1. PICK c \in Calls : Applied("activate", l) = {c}
        BY <2>1, <2>3 DEF ActivatorIsSole
      <3> QED
        BY <2>2, <2>3, <3>1
    <2>4. CASE ~ IsActive(lists[l])
      <3>1. Applied("activate", l) = {}
        BY <2>1, <2>4 DEF ActivatorIsSole
      <3> QED
        BY <2>2, <2>4, <3>1
    <2> QED
      BY <2>3, <2>4
  <1> QED
    BY <1>1, PricingInvariant, PTL

-----------------------------------------------------------------------------
(* Activation implements SoleClaim                                           *)

LEMMA WinnersStay ==
    ASSUME NEW l \in Calls, Applied("activate", l)' = Applied("activate", l)
    PROVE  WinnerOf(l)' = WinnerOf(l)
  BY DEF WinnerOf

(* A step that changes no activation and no answer to one.                   *)
LEMMA ClaimsStay ==
    ASSUME \A l \in Calls : Applied("activate", l)' = Applied("activate", l),
           \A c \in Calls : c \in ActivateCalls' <=> c \in ActivateCalls,
           \A c \in ActivateCalls : request'[c].id = request[c].id,
           \A c \in ActivateCalls : reply'[c] = "conflict" <=> reply[c] = "conflict"
    PROVE  Aim' = Aim /\ Winner' = Winner /\ Outcome' = Outcome
  <1>1. Winners' = Winners
    BY DEF Winners
  <1>2. Aim' = Aim
    BY DEF Aim
  <1>3. Winner' = Winner
    BY WinnersStay DEF Winner
  <1>4. Outcome' = Outcome
    BY <1>1 DEF Outcome
  <1> QED
    BY <1>2, <1>3, <1>4

(* The steps that are no claim.                                              *)
LEMMA NoClaim ==
    ASSUME IInv, NEW c \in Calls,
           \/ Refuse(c) \/ NotFound(c) \/ Answer(c) \/ Creates(c) \/ ChangePrice(c)
           \/ \E req \in Requests : req.op = "change" /\ Find(c, req)
    PROVE  Aim' = Aim /\ Winner' = Winner /\ Outcome' = Outcome
  <1>1. TypeOK /\ CallsAreInOrder
    BY DEF IInv
  <1>2. /\ request \in [Calls -> Requests \cup {Missing}]
        /\ reply \in [Calls -> {"none", "ok", "invalid", "notFound", "conflict", "rejected"}]
    BY <1>1, Types
  <1>3. CASE ChangePrice(c)
    <2>1. PICK price : Changes(c, found[c], price)
      BY <1>1, <1>3, ChangeKind
    <2>2. Applies(c, "change", found[c]) /\ Settles(c)
      BY <2>1 DEF Changes
    <2>3. \A l \in Calls : Applied("activate", l)' = Applied("activate", l)
      BY <1>1, <2>2, AppliedGrows
    <2>4. request' = request /\ \A d \in Calls \ {c} : reply'[d] = reply[d]
      BY <2>2 DEF Settles
    <2>5. c \notin ActivateCalls /\ ActivateCalls' = ActivateCalls
      BY <2>2, <2>4 DEF ActivateCalls, Applies
    <2>6. \A d \in ActivateCalls : reply'[d] = reply[d]
      BY <2>4, <2>5 DEF ActivateCalls
    <2> QED
      BY <2>3, <2>4, <2>5, <2>6, ClaimsStay
  <1>4. CASE ~ ChangePrice(c)
    <2>1. NobodyApplies
      BY <1>1, <1>4, IdleKind, CreateKind DEF Idles
    <2>2. reply[c] = "none" /\ (pc[c] = "new" => request[c] = Missing)
      BY <1>1, <1>2, <1>4
      DEF CallsAreInOrder, Refuse, NotFound, Answer, Find, Creates, CreatePriceList, CreatePrice
    <2>3. \A d \in Calls \ {c} : request'[d] = request[d] /\ reply'[d] = reply[d]
      BY <1>2, <1>4
      DEF Refuse, NotFound, Answer, Find, Creates, CreatePriceList, CreatePrice, Saved, End
    <2>4. /\ reply'[c] # "conflict"
          /\ request'[c] = request[c] \/ (request[c] = Missing /\ request'[c].op = "change")
      BY <1>2, <1>4, <2>2
      DEF Refuse, NotFound, Answer, Find, Creates, CreatePriceList, CreatePrice, Saved, End
    <2>5. \A d \in Calls : d \in ActivateCalls' <=> d \in ActivateCalls
      BY <2>2, <2>3, <2>4 DEF ActivateCalls
    <2>6. /\ \A d \in ActivateCalls : request'[d].id = request[d].id
          /\ \A d \in ActivateCalls : reply'[d] = "conflict" <=> reply[d] = "conflict"
      BY <2>2, <2>3, <2>4 DEF ActivateCalls
    <2>7. \A l \in Calls : Applied("activate", l)' = Applied("activate", l)
      BY <2>1 DEF NobodyApplies
    <2> QED
      BY <2>5, <2>6, <2>7, ClaimsStay
  <1> QED
    BY <1>3, <1>4

(* An activate call that looks its list up asks for it.                      *)
LEMMA FindAsks ==
    ASSUME IInv, NEW c \in Calls, NEW req \in Requests, req.op = "activate", Find(c, req)
    PROVE  Activation!Ask(c, req.id)
  <1>1. TypeOK /\ CallsAreInOrder
    BY DEF IInv
  <1>2. NobodyApplies
    BY <1>1, IdleKind DEF Idles
  <1>3. /\ request \in [Calls -> Requests \cup {Missing}]
        /\ request[c] = Missing /\ reply[c] = "none" /\ reply' = reply
        /\ request' = [request EXCEPT ![c] = req]
    BY <1>1, Types DEF CallsAreInOrder, Find
  <1>4. /\ c \notin ActivateCalls /\ c \in ActivateCalls'
        /\ \A d \in Calls \ {c} : d \in ActivateCalls' <=> d \in ActivateCalls
        /\ \A d \in Calls \ {c} : request'[d] = request[d]
        /\ request'[c].id = req.id
    BY <1>3, RequestFields DEF ActivateCalls
  <1>5. Aim[c] = Missing /\ Aim' = [Aim EXCEPT ![c] = req.id]
    BY <1>4 DEF Aim
  <1>6. \A l \in Calls : Applied("activate", l)' = Applied("activate", l)
    BY <1>2 DEF NobodyApplies
  <1>7. Winners' = Winners
    BY <1>6 DEF Winners
  <1>8. Winner' = Winner
    BY <1>6, WinnersStay DEF Winner
  <1>9. Outcome' = Outcome
    BY <1>3, <1>4, <1>7 DEF Outcome
  <1> QED
    BY <1>5, <1>8, <1>9 DEF Activation!Ask

(* What holds of an activate call that has found its list.                   *)
LEMMA Asking ==
    ASSUME IInv, NEW c \in Calls, ActsOn(c, "activate")
    PROVE  /\ found[c] \in Calls /\ found[c] \in ListIds
           /\ Aim[c] = found[c] /\ Outcome[c] = "open"
           /\ c \in ActivateCalls /\ c \notin Winners
  <1>1. TypeOK /\ CallsAreInOrder
    BY DEF IInv
  <1>2. /\ pc[c] = "found" /\ found[c] \in Calls /\ found[c] \in ListIds
        /\ request[c] \in Requests /\ request[c].op = "activate" /\ request[c].id = found[c]
        /\ reply[c] = "none"
    BY <1>1, ActsApplies DEF Applies, IdsFor
  <1>3. c \in ActivateCalls /\ Aim[c] = found[c]
    BY <1>2, RequestFields DEF ActivateCalls, Aim
  <1>4. c \notin Winners
    BY <1>2 DEF Winners, Applied
  <1>5. Outcome[c] = "open"
    BY <1>2, <1>4 DEF Outcome
  <1> QED
    BY <1>2, <1>3, <1>4, <1>5

LEMMA ConflictRefuses ==
    ASSUME IInv, NEW c \in Calls, ActivatePriceList(c), IsActive(lists[found[c]])
    PROVE  Activation!Refuse(c, found[c])
  <1>1. /\ TypeOK /\ CallsAreInOrder /\ ActivatorIsSole
        /\ ActsOn(c, "activate") /\ End(c, "conflict")
    BY DEF IInv, ActivatePriceList
  <1>2. /\ found[c] \in Calls /\ found[c] \in ListIds
        /\ Aim[c] = found[c] /\ Outcome[c] = "open"
        /\ c \in ActivateCalls /\ c \notin Winners
    BY <1>1, Asking
  <1>3. PICK d \in Calls : Applied("activate", found[c]) = {d}
    BY <1>1, <1>2 DEF ActivatorIsSole
  <1>4. Winner[found[c]] # Missing
    BY <1>2, <1>3 DEF Winner, WinnerOf, OneOf
  <1>5. NobodyApplies
    BY <1>1, IdleKind DEF Idles
  <1>6. \A l \in Calls : Applied("activate", l)' = Applied("activate", l)
    BY <1>5 DEF NobodyApplies
  <1>7. Winners' = Winners
    BY <1>6 DEF Winners
  <1>8. Winner' = Winner
    BY <1>6, WinnersStay DEF Winner
  <1>9. /\ reply \in [Calls -> {"none", "ok", "invalid", "notFound", "conflict", "rejected"}]
        /\ reply' = [reply EXCEPT ![c] = "conflict"]
        /\ request' = request
    BY <1>1, Types DEF End
  <1>10. ActivateCalls' = ActivateCalls /\ Aim' = Aim
    BY <1>9 DEF ActivateCalls, Aim
  <1>11. Outcome' = [Outcome EXCEPT ![c] = "refused"]
    BY <1>2, <1>7, <1>9, <1>10 DEF Outcome
  <1> QED
    BY <1>2, <1>4, <1>8, <1>10, <1>11 DEF Activation!Refuse, Activation!Open

LEMMA ActivateWins ==
    ASSUME IInv, NEW c \in Calls, ActivatePriceList(c), ~ IsActive(lists[found[c]])
    PROVE  Activation!Win(c, found[c])
  <1>1. /\ TypeOK /\ CallsAreInOrder /\ ActivatorIsSole
        /\ ActsOn(c, "activate") /\ Activates(c, found[c])
    BY ActivateKind DEF IInv, ActivatePriceList
  <1>2. PICK l \in Calls : l = found[c]
    BY <1>1, Asking
  <1>3. /\ Aim[c] = l /\ Outcome[c] = "open"
        /\ c \in ActivateCalls /\ c \notin Winners
    BY <1>1, <1>2, Asking
  <1>4. Applied("activate", l) = {} /\ Applied("activate", l)' = {c}
    BY <1>1, <1>2, ActivateStep
  <1>5. Applies(c, "activate", l) /\ Settles(c)
    BY <1>1, <1>2 DEF Activates
  <1>6. \A k \in Calls \ {l} : Applied("activate", k)' = Applied("activate", k)
    BY <1>1, <1>5, AppliedGrows
  <1>7. request' = request /\ \A d \in Calls \ {c} : reply'[d] = reply[d]
    BY <1>5 DEF Settles
  <1>8. Winner[l] = Missing /\ Winner' = [Winner EXCEPT ![l] = c]
    <2>1. WinnerOf(l) = Missing
      BY <1>4 DEF WinnerOf
    <2>2. OneOf({c}) = c
      BY DEF OneOf
    <2>3. WinnerOf(l)' = c
      BY <1>4, <2>2 DEF WinnerOf
    <2>4. \A k \in Calls \ {l} : WinnerOf(k)' = WinnerOf(k)
      BY <1>6, WinnersStay
    <2>5. Winner[l] = Missing
      BY <2>1 DEF Winner
    <2>6. Winner' = [k \in Calls |-> IF k = l THEN c ELSE WinnerOf(k)]
      BY <2>3, <2>4 DEF Winner
    <2>7. Winner' = [Winner EXCEPT ![l] = c]
      BY <2>6 DEF Winner
    <2> QED
      BY <2>5, <2>7
  <1>9. Winners' = Winners \cup {c}
    BY <1>4, <1>6 DEF Winners
  <1>10. ActivateCalls' = ActivateCalls /\ Aim' = Aim
    BY <1>7 DEF ActivateCalls, Aim
  <1>11. Outcome' = [Outcome EXCEPT ![c] = "won"]
    BY <1>3, <1>7, <1>9, <1>10 DEF Outcome
  <1> QED
    BY <1>2, <1>3, <1>8, <1>10, <1>11 DEF Activation!Win, Activation!Open

LEMMA InitClaims == Init => Activation!Init
  <1> SUFFICES ASSUME Init PROVE Activation!Init
    OBVIOUS
  <1>1. \A op, id : Applied(op, id) = {}
    BY DEF Init, Applied
  <1>2. \A c \in Calls : c \notin ActivateCalls /\ c \notin Winners
    BY <1>1 DEF Init, ActivateCalls, Winners
  <1> QED
    BY <1>1, <1>2 DEF Activation!Init, Aim, Winner, WinnerOf, Outcome

LEMMA StepClaims == IInv /\ [Next]_vars => [Activation!Next]_(Activation!claims)
  <1> SUFFICES ASSUME IInv, [Next]_vars
               PROVE  Activation!Next \/ UNCHANGED <<Aim, Winner, Outcome>>
    BY DEF Activation!claims
  <1>1. CASE UNCHANGED vars
    <2>1. request' = request /\ reply' = reply /\ pc' = pc
      BY <1>1 DEF vars
    <2> QED
      BY <2>1 DEF Aim, Winner, WinnerOf, Outcome, Winners, Applied, ActivateCalls
  <1>2. CASE Next
    <2> PICK c \in Calls :
          \/ Refuse(c) \/ NotFound(c) \/ Answer(c)
          \/ \E currency \in Currencies : CreatePriceList(c, currency)
          \/ \E list \in Calls, money \in Money : CreatePrice(c, list, money)
          \/ \E req \in Requests : Find(c, req)
          \/ ActivatePriceList(c) \/ ChangePrice(c)
      BY <1>2 DEF Next
    <2>1. CASE \/ Refuse(c) \/ NotFound(c) \/ Answer(c) \/ Creates(c) \/ ChangePrice(c)
               \/ \E req \in Requests : req.op = "change" /\ Find(c, req)
      BY <2>1, NoClaim
    <2>2. CASE \E req \in Requests : req.op = "activate" /\ Find(c, req)
      <3>1. PICK req \in Requests : req.op = "activate" /\ Find(c, req)
        BY <2>2
      <3> QED
        BY <3>1, FindAsks, RequestFields DEF Activation!Next
    <2>3. CASE ActivatePriceList(c)
      <3>1. found[c] \in Calls
        BY <2>3, Asking DEF ActivatePriceList
      <3> QED
        BY <2>3, <3>1, ConflictRefuses, ActivateWins DEF Activation!Next
    <2> QED
      BY <2>1, <2>2, <2>3, RequestFields DEF Creates
  <1> QED
    BY <1>1, <1>2

(* Activating a list is a claim that one call wins for good, and "already    *)
(* active" is answered only to a call that another one has beaten            *)
(* (price-list.ts:18-23).                                                    *)
THEOREM ActivationImplementsSoleClaim == Spec => ActivationIsSoleClaim
  <1>1. Init => Activation!Init
    BY InitClaims
  <1>2. IInv /\ [Next]_vars => [Activation!Next]_(Activation!claims)
    BY StepClaims
  <1> QED
    BY <1>1, <1>2, PricingInvariant, PTL DEF Spec, ActivationIsSoleClaim, Activation!Spec
=============================================================================
