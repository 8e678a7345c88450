------------------------------- MODULE Pricing -------------------------------
(***************************************************************************)
(* services/pricing: price lists, created as drafts and activated once,    *)
(* and prices within them, which can be changed.                           *)
(*                                                                         *)
(* As in Inventory, a use case looks its aggregate up, awaits, changes and *)
(* saves it in one uninterrupted stretch, awaits the save and answers; a   *)
(* call stands for the list or price it creates.  A price names its list   *)
(* by id and no use case looks from one to the other.                      *)
(***************************************************************************)
EXTENDS Naturals, Sequences, FiniteSets

CONSTANTS
    Calls,              \* calls of the two controllers
    Currencies,         \* what callers send as a currency
    Malformed,          \* the currencies that Currency.create refuses
    Amounts,            \* what callers send as an amount, all integers
    Missing,            \* null
    SerializerMayThrow  \* TRUE iff serializing an event may throw

ASSUME PricingAssumption ==
    /\ Malformed \subseteq Currencies
    /\ Missing \notin Calls
    /\ SerializerMayThrow \in BOOLEAN

VARIABLES
    pc,       \* how far each call has come
    request,  \* the input of each call that looked something up
    found,    \* the id of the list or price it found
    reply,    \* how each call ended
    lists,    \* the price list repository
    prices,   \* the price repository
    outbox    \* the price.changed events appended, oldest first

vars == <<pc, request, found, reply, lists, prices, outbox>>

repositories == <<lists, prices, outbox>>

Money == [amount : Amounts, currency : Currencies]

Requests ==
    [op : {"activate"}, id : Calls] \cup [op : {"change"}, id : Calls, money : Money]

PriceList == [currency : Currencies, status : {"draft", "active"}]

Price == [list : Calls, money : Money]

Event == [price : Calls, list : Calls, money : Money]

(* null is neither an input nor a list nor a price.                          *)
ASSUME MissingAssumption == Missing \notin Requests \cup PriceList \cup Price

ListIds  == {l \in Calls : lists[l] # Missing}
PriceIds == {p \in Calls : prices[p] # Missing}

(* Currency.create accepts the code.                                         *)
Accepted(currency) == currency \notin Malformed

(* PriceList.create: a draft.                                                *)
Draft(currency) == [currency |-> currency, status |-> "draft"]

IsActive(list) == list.status = "active"

Activated(list) == [list EXCEPT !.status = "active"]

(* Price.change, and the price.changed event of a price as it is.            *)
Changed(price, money) == [price EXCEPT !.money = money]

EventOf(id, price) == [price |-> id, list |-> price.list, money |-> price.money]

(* The ids in the repository that an operation reads, and its findById.      *)
IdsFor(op) == IF op = "activate" THEN ListIds ELSE PriceIds

Lookup(req) == IF req.id \in IdsFor(req.op) THEN req.id ELSE Missing

TypeOK ==
    /\ pc \in [Calls -> {"new", "found", "saved", "done"}]
    /\ request \in [Calls -> Requests \cup {Missing}]
    /\ found \in [Calls -> ListIds \cup PriceIds \cup {Missing}]
    /\ reply \in [Calls -> {"none", "ok", "invalid", "notFound", "conflict", "rejected"}]
    /\ lists \in [Calls -> PriceList \cup {Missing}]
    /\ prices \in [Calls -> Price \cup {Missing}]
    /\ outbox \in Seq(Event)
    /\ \A p \in PriceIds : Accepted(prices[p].money.currency)

-----------------------------------------------------------------------------
(* Actions                                                                   *)

Init ==
    /\ pc = [c \in Calls |-> "new"]
    /\ request = [c \in Calls |-> Missing]
    /\ found = [c \in Calls |-> Missing]
    /\ reply = [c \in Calls |-> "none"]
    /\ lists = [c \in Calls |-> Missing]
    /\ prices = [c \in Calls |-> Missing]
    /\ outbox = <<>>

End(c, status) ==
    /\ pc' = [pc EXCEPT ![c] = "done"]
    /\ reply' = [reply EXCEPT ![c] = status]
    /\ UNCHANGED <<request, found>>

(* Currency.create (or Money.create, or ProductRef.create) refuses the input.*)
Refuse(c) ==
    /\ pc[c] = "new"
    /\ Malformed # {}
    /\ End(c, "invalid")
    /\ UNCHANGED repositories

(* A save without events does not reach the serializer.                      *)
Saved(c) ==
    /\ pc' = [pc EXCEPT ![c] = "saved"]
    /\ UNCHANGED <<request, found, reply, outbox>>

CreatePriceList(c, currency) ==
    /\ pc[c] = "new"
    /\ Accepted(currency)
    /\ lists' = [lists EXCEPT ![c] = Draft(currency)]
    /\ Saved(c)
    /\ UNCHANGED prices

(* CreatePrice takes any list id and looks nothing up.                       *)
CreatePrice(c, list, money) ==
    /\ pc[c] = "new"
    /\ Accepted(money.currency)
    /\ prices' = [prices EXCEPT ![c] = [list |-> list, money |-> money]]
    /\ Saved(c)
    /\ UNCHANGED lists

(* Mutant: ChangePrice does not check the currency it is given.              *)
Find_Unvalidated(c, req) ==
    /\ pc[c] = "new"
    /\ request' = [request EXCEPT ![c] = req]
    /\ found' = [found EXCEPT ![c] = Lookup(req)]
    /\ pc' = [pc EXCEPT ![c] = "found"]
    /\ UNCHANGED <<reply, repositories>>

(* ActivatePriceList looks its list up by id, ChangePrice its price.         *)
Find(c, req) ==
    /\ pc[c] = "new"
    /\ req.op = "change" => Accepted(req.money.currency)
    /\ request' = [request EXCEPT ![c] = req]
    /\ found' = [found EXCEPT ![c] = Lookup(req)]
    /\ pc' = [pc EXCEPT ![c] = "found"]
    /\ UNCHANGED <<reply, repositories>>

NotFound(c) ==
    /\ pc[c] = "found"
    /\ found[c] = Missing
    /\ End(c, "notFound")
    /\ UNCHANGED repositories

ActsOn(c, op) == pc[c] = "found" /\ found[c] # Missing /\ request[c].op = op

(* Mutant: activating an active list is not refused.                         *)
ActivatePriceList_Again(c) ==
    /\ ActsOn(c, "activate")
    /\ lists' = [lists EXCEPT ![found[c]] = Activated(@)]
    /\ Saved(c)
    /\ UNCHANGED prices

(* Mutant: a call gives up when another one is about to activate the list,   *)
(* as a lock would make it.                                                  *)
ActivatePriceList_Busy(c) ==
    /\ ActsOn(c, "activate")
    /\ IF \E other \in Calls \ {c} : ActsOn(other, "activate") /\ found[other] = found[c]
       THEN End(c, "conflict") /\ UNCHANGED repositories
       ELSE /\ lists' = [lists EXCEPT ![found[c]] = Activated(@)]
            /\ Saved(c)
            /\ UNCHANGED prices

(* PriceList.activate asks for the status when it changes it; a list raises  *)
(* no event.                                                                 *)
ActivatePriceList(c) ==
    /\ ActsOn(c, "activate")
    /\ IF IsActive(lists[found[c]])
       THEN End(c, "conflict") /\ UNCHANGED repositories
       ELSE /\ lists' = [lists EXCEPT ![found[c]] = Activated(@)]
            /\ Saved(c)
            /\ UNCHANGED prices

(* Mutant: the event carries the amount before the change.                   *)
ChangePrice_OldAmount(c) ==
    /\ ActsOn(c, "change")
    /\ prices' = [prices EXCEPT ![found[c]] = Changed(@, request[c].money)]
    /\ outbox' = Append(outbox, EventOf(found[c], prices[found[c]]))
    /\ pc' = [pc EXCEPT ![c] = "saved"]
    /\ UNCHANGED <<request, found, reply, lists>>

(* Price.change and the save of its event.  When the serializer throws, the  *)
(* price stays changed and the event is gone.                                *)
ChangePrice(c) ==
    /\ ActsOn(c, "change")
    /\ prices' = [prices EXCEPT ![found[c]] = Changed(@, request[c].money)]
    /\ \/ /\ outbox' = Append(outbox, EventOf(found[c], prices'[found[c]]))
          /\ pc' = [pc EXCEPT ![c] = "saved"]
          /\ UNCHANGED <<request, found, reply>>
       \/ /\ SerializerMayThrow
          /\ End(c, "rejected")
          /\ UNCHANGED outbox
    /\ UNCHANGED lists

(* The awaited save returns and the use case answers.                        *)
Answer(c) ==
    /\ pc[c] = "saved"
    /\ End(c, "ok")
    /\ UNCHANGED repositories

Next ==
    \E c \in Calls :
        \/ Refuse(c) \/ NotFound(c) \/ Answer(c)
        \/ \E currency \in Currencies : CreatePriceList(c, currency)
        \/ \E list \in Calls, money \in Money : CreatePrice(c, list, money)
        \/ \E req \in Requests : Find(c, req)
        \/ ActivatePriceList(c) \/ ChangePrice(c)

Spec == Init /\ [][Next]_vars

-----------------------------------------------------------------------------
(* Properties                                                                *)

(* The calls that have changed the list or price they were sent to.          *)
Applied(op, id) ==
    {c \in Calls : /\ pc[c] = "saved" \/ reply[c] \in {"ok", "rejected"}
                   /\ request[c] # Missing
                   /\ request[c].op = op
                   /\ request[c].id = id}

(* Of overlapping activations of a list exactly one succeeds                 *)
(* (price-list.ts:18-23), and an active list stays active.                   *)
ActivatedOnce ==
    \A l \in ListIds :
        Cardinality(Applied("activate", l)) = IF IsActive(lists[l]) THEN 1 ELSE 0

EventsOf(p) == {i \in DOMAIN outbox : outbox[i].price = p}

FailedChanges(p) == {c \in Applied("change", p) : reply[c] = "rejected"}

(* There is one event per change of a price, less the changes whose save     *)
(* failed (price.ts:23-36), and a reader of the outbox in order ends with    *)
(* the present amount of a price no save of which failed, whatever changes   *)
(* overlapped.                                                               *)
LastEventIsAmount ==
    \A p \in PriceIds :
        /\ Cardinality(EventsOf(p)) = Cardinality(Applied("change", p) \ FailedChanges(p))
        /\ FailedChanges(p) = {} =>
              \A i \in EventsOf(p) :
                  (\A j \in EventsOf(p) : j <= i) => outbox[i].money = prices[p].money

(* The prices of a list are in the list's currency: price-list.ts:12 calls a *)
(* list a collection of prices in a single currency.                         *)
SingleCurrency ==
    \A p \in PriceIds :
        prices[p].list \in ListIds =>
            prices[p].money.currency = lists[prices[p].list].currency

-----------------------------------------------------------------------------
(* What activation promises                                                  *)

ActivateCalls == {c \in Calls : request[c] # Missing /\ request[c].op = "activate"}

Winners == UNION {Applied("activate", l) : l \in Calls}

Aim == [c \in Calls |-> IF c \in ActivateCalls THEN request[c].id ELSE Missing]

OneOf(calls) == CHOOSE c \in calls : TRUE

WinnerOf(l) ==
    IF Applied("activate", l) = {} THEN Missing ELSE OneOf(Applied("activate", l))

Winner == [l \in Calls |-> WinnerOf(l)]

Outcome ==
    [c \in Calls |->
        IF c \in Winners THEN "won"
        ELSE IF c \in ActivateCalls /\ reply[c] = "conflict" THEN "refused" ELSE "open"]

Activation == INSTANCE SoleClaim WITH
    Claimants <- Calls, Things <- Calls, None <- Missing,
    aim <- Aim, winner <- Winner, outcome <- Outcome

(* Activating a list is a claim that one call wins for good: a call that is  *)
(* answered "already active" was beaten by another one                       *)
(* (price-list.ts:18-23).                                                    *)
ActivationIsSoleClaim == Activation!Spec

-----------------------------------------------------------------------------
(* The inductive invariant                                                   *)

(* A call has a request from its lookup on and no answer before its end, and *)
(* what it found is what it asked for; a list or price is created by the     *)
(* call it is named after.                                                   *)
CallsAreInOrder ==
    \A c \in Calls :
        /\ pc[c] = "new" => /\ request[c] = Missing /\ found[c] = Missing
                            /\ lists[c] = Missing /\ prices[c] = Missing
        /\ pc[c] # "done" => reply[c] = "none"
        /\ pc[c] = "found" =>
              /\ request[c] \in Requests
              /\ request[c].op = "change" => Accepted(request[c].money.currency)
        /\ found[c] # Missing =>
              /\ request[c] \in Requests
              /\ found[c] = request[c].id /\ found[c] \in IdsFor(request[c].op)

EventsAreOfPrices == \A i \in DOMAIN outbox : outbox[i].price \in PriceIds

(* A list is active exactly if one call activated it.                        *)
ActivatorIsSole ==
    \A l \in Calls :
        /\ Applied("activate", l) # {} => l \in ListIds /\ IsActive(lists[l])
        /\ l \in ListIds /\ IsActive(lists[l]) => \E c \in Calls : Applied("activate", l) = {c}

ChangesAreOfPrices ==
    \A p \in Calls :
        /\ Applied("change", p) # {} => p \in PriceIds
        /\ IsFiniteSet(Applied("change", p)) /\ IsFiniteSet(EventsOf(p))

(* The strengthening of the properties that every step preserves.            *)
IInv ==
    /\ TypeOK
    /\ CallsAreInOrder
    /\ EventsAreOfPrices
    /\ ActivatorIsSole
    /\ ChangesAreOfPrices
    /\ LastEventIsAmount
=============================================================================
