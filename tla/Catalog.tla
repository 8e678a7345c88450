------------------------------- MODULE Catalog -------------------------------
(***************************************************************************)
(* services/catalog: products are created as drafts, published once and    *)
(* updated at any time; categories are only created.                       *)
(*                                                                         *)
(* As in Inventory, a use case looks its product up, awaits, changes and   *)
(* saves it in one uninterrupted stretch, awaits the save and answers; a   *)
(* call stands for the product or category it creates.                     *)
(***************************************************************************)
EXTENDS Naturals, Sequences, FiniteSets

CONSTANTS
    Calls,              \* calls of the two controllers
    Contents,           \* what callers send as name and slug
    Malformed,          \* the contents whose slug is not lower kebab-case
    NoProduct,          \* null
    SerializerMayThrow  \* TRUE iff serializing an event may throw

ASSUME CatalogAssumption ==
    /\ Malformed \subseteq Contents
    /\ NoProduct \notin Calls
    /\ SerializerMayThrow \in BOOLEAN

VARIABLES
    pc,          \* how far each call has come
    request,     \* the input of each call that looked a product up
    found,       \* the product it found
    reply,       \* how each call ended
    products,    \* the product repository
    categories,  \* the category repository: the ids saved
    outbox       \* the events appended, oldest first

vars == <<pc, request, found, reply, products, categories, outbox>>

Requests ==
    [op : {"publish"}, product : Calls]
        \cup [op : {"update"}, product : Calls, content : Contents]

Product == [content : Contents, status : {"draft", "published"}]

Event ==
    [product : Calls, kind : {"published", "updated"}, content : Contents]

(* null is neither an input nor a product.                                   *)
ASSUME NoProductAssumption == NoProduct \notin Requests \cup Product

Created == {p \in Calls : products[p] # NoProduct}

(* What the value objects tell apart in the input of CreateProduct: a text,  *)
(* one of nothing but spaces; an amount, integer or not; a currency code.    *)
(* One variant is enough: each reason to refuse it is there.                 *)
Texts == {"text", " "}

VariantInputs == [sku : Texts, integer : BOOLEAN, currency : {"USD", "usd"}]

ProductInputs ==
    [content : Contents, sku : Texts, media : SUBSET Texts,
     variants : {{}} \cup {{variant} : variant \in VariantInputs}]

(* Guard.againstEmpty, on which Sku and MediaRef rely; Slug; Money.          *)
NotEmpty(text) == text # " "

SkuAccepted(sku) == NotEmpty(sku)

MediaAccepted(assetId) == NotEmpty(assetId)

SlugAccepted(content) == content \notin Malformed

PriceAccepted(variant) == variant.integer /\ variant.currency = "USD"

VariantAccepted(variant) == SkuAccepted(variant.sku) /\ PriceAccepted(variant)

Accepted(input) ==
    /\ SkuAccepted(input.sku)
    /\ SlugAccepted(input.content)
    /\ input.variants # {}
    /\ \A variant \in input.variants : VariantAccepted(variant)
    /\ \A assetId \in input.media : MediaAccepted(assetId)

AcceptedInputs == {input \in ProductInputs : Accepted(input)}

(* Some input of some use case is refused.                                   *)
SomeRefused == AcceptedInputs # ProductInputs \/ Malformed # {}

(* Product.create: a draft.                                                  *)
Draft(content) == [content |-> content, status |-> "draft"]

IsPublished(product) == product.status = "published"

(* Product.publish and Product.update, each of which raises an event with    *)
(* the content the product has after it.                                     *)
Published(product) == [product EXCEPT !.status = "published"]

Updated(product, content) == [product EXCEPT !.content = content]

EventOf(id, product, kind) ==
    [product |-> id, kind |-> kind, content |-> product.content]

(* findById of the product repository.                                       *)
Lookup(id) == IF id \in Created THEN id ELSE NoProduct

TypeOK ==
    /\ pc \in [Calls -> {"new", "found", "saved", "done"}]
    /\ request \in [Calls -> Requests \cup {NoProduct}]
    /\ found \in [Calls -> Created \cup {NoProduct}]
    /\ reply \in [Calls -> {"none", "ok", "invalid", "notFound", "conflict", "rejected"}]
    /\ products \in [Calls -> Product \cup {NoProduct}]
    /\ categories \subseteq Calls
    /\ outbox \in Seq(Event)
    /\ \A p \in Created : SlugAccepted(products[p].content)

-----------------------------------------------------------------------------
(* Actions                                                                   *)

Init ==
    /\ pc = [c \in Calls |-> "new"]
    /\ request = [c \in Calls |-> NoProduct]
    /\ found = [c \in Calls |-> NoProduct]
    /\ reply = [c \in Calls |-> "none"]
    /\ products = [c \in Calls |-> NoProduct]
    /\ categories = {}
    /\ outbox = <<>>

End(c, status) ==
    /\ pc' = [pc EXCEPT ![c] = "done"]
    /\ reply' = [reply EXCEPT ![c] = status]
    /\ UNCHANGED <<request, found>>

(* The value objects of an input refuse it before anything is read.          *)
Refuse(c) ==
    /\ pc[c] = "new"
    /\ SomeRefused
    /\ End(c, "invalid")
    /\ UNCHANGED <<products, categories, outbox>>

(* CreateProduct saves a draft, which raises no event.                       *)
CreateProduct(c, input) ==
    /\ pc[c] = "new"
    /\ products' = [products EXCEPT ![c] = Draft(input.content)]
    /\ pc' = [pc EXCEPT ![c] = "saved"]
    /\ UNCHANGED <<request, found, reply, categories, outbox>>

(* The category repository's save: categories raise no events.               *)
CategorySaved(id) == categories \cup {id}

CreateCategory(c) ==
    /\ pc[c] = "new"
    /\ \E content \in Contents : SlugAccepted(content)
    /\ categories' = CategorySaved(c)
    /\ pc' = [pc EXCEPT ![c] = "saved"]
    /\ UNCHANGED <<request, found, reply, products, outbox>>

(* Mutant: UpdateProduct does not check the slug it is given.                *)
Find_Unvalidated(c, req) ==
    /\ pc[c] = "new"
    /\ request' = [request EXCEPT ![c] = req]
    /\ found' = [found EXCEPT ![c] = Lookup(req.product)]
    /\ pc' = [pc EXCEPT ![c] = "found"]
    /\ UNCHANGED <<reply, products, categories, outbox>>

(* PublishProduct and UpdateProduct look their product up by id.             *)
Find(c, req) ==
    /\ pc[c] = "new"
    /\ req.op = "update" => SlugAccepted(req.content)
    /\ request' = [request EXCEPT ![c] = req]
    /\ found' = [found EXCEPT ![c] = Lookup(req.product)]
    /\ pc' = [pc EXCEPT ![c] = "found"]
    /\ UNCHANGED <<reply, products, categories, outbox>>

NotFound(c) ==
    /\ pc[c] = "found"
    /\ found[c] = NoProduct
    /\ End(c, "notFound")
    /\ UNCHANGED <<products, categories, outbox>>

(* repository.save of a changed product: its event is pulled and written.    *)
(* When the serializer throws, the change stays and the event is gone.       *)
Save(c, product, kind) ==
    /\ products' = [products EXCEPT ![found[c]] = product]
    /\ \/ /\ outbox' = Append(outbox, EventOf(found[c], product, kind))
          /\ pc' = [pc EXCEPT ![c] = "saved"]
          /\ UNCHANGED <<request, found, reply>>
       \/ /\ SerializerMayThrow
          /\ End(c, "rejected")
          /\ UNCHANGED outbox
    /\ UNCHANGED categories

ActsOnProduct(c, op) == pc[c] = "found" /\ found[c] # NoProduct /\ request[c].op = op

(* Mutant: a published product is published again.                           *)
PublishProduct_Again(c) ==
    /\ ActsOnProduct(c, "publish")
    /\ Save(c, Published(products[found[c]]), "published")

(* Product.publish asks for the status when it changes it.                   *)
PublishProduct(c) ==
    /\ ActsOnProduct(c, "publish")
    /\ IF IsPublished(products[found[c]])
       THEN End(c, "conflict") /\ UNCHANGED <<products, categories, outbox>>
       ELSE Save(c, Published(products[found[c]]), "published")

(* Mutant: the event of an update has the old content.                       *)
UpdateProduct_OldContent(c) ==
    /\ ActsOnProduct(c, "update")
    /\ products' = [products EXCEPT ![found[c]] = Updated(@, request[c].content)]
    /\ outbox' = Append(outbox, EventOf(found[c], products[found[c]], "updated"))
    /\ pc' = [pc EXCEPT ![c] = "saved"]
    /\ UNCHANGED <<request, found, reply, categories>>

(* Mutant: a changed product has to be published anew.                       *)
UpdateProduct_Redrafts(c) ==
    /\ ActsOnProduct(c, "update")
    /\ Save(c, Draft(request[c].content), "updated")

UpdateProduct(c) ==
    /\ ActsOnProduct(c, "update")
    /\ Save(c, Updated(products[found[c]], request[c].content), "updated")

(* The awaited save returns and the use case answers.                        *)
Answer(c) ==
    /\ pc[c] = "saved"
    /\ End(c, "ok")
    /\ UNCHANGED <<products, categories, outbox>>

Next ==
    \E c \in Calls :
        \/ Refuse(c) \/ CreateCategory(c) \/ NotFound(c)
        \/ \E input \in AcceptedInputs : CreateProduct(c, input)
        \/ \E req \in Requests : Find(c, req)
        \/ PublishProduct(c) \/ UpdateProduct(c) \/ Answer(c)

Spec == Init /\ [][Next]_vars

-----------------------------------------------------------------------------
(* Properties                                                                *)

(* The publish calls that have changed a product.                            *)
PublishersOf(p) ==
    {c \in Calls : /\ pc[c] = "saved" \/ reply[c] \in {"ok", "rejected"}
                   /\ request[c] # NoProduct
                   /\ request[c] = [op |-> "publish", product |-> p]}

Announcements(p) ==
    {i \in DOMAIN outbox : outbox[i].product = p /\ outbox[i].kind = "published"}

(* Of overlapping publish calls exactly one publishes a product, no update   *)
(* takes that back, and product.published is emitted by that call or, if     *)
(* its save failed, never: a repeated call meets "already published"         *)
(* (product.ts:46-57).                                                       *)
PublishedOnce ==
    \A p \in Created :
        /\ Cardinality(PublishersOf(p)) = IF IsPublished(products[p]) THEN 1 ELSE 0
        /\ Cardinality(Announcements(p))
             = Cardinality({c \in PublishersOf(p) : reply[c] # "rejected"})

SaveFailed(p) == \E c \in Calls : found[c] = p /\ reply[c] = "rejected"

(* A reader of the outbox in order ends with a published product's present   *)
(* name and slug, in whatever order updates and the publication overlapped   *)
(* (product-published.event.ts:9: consumed downstream by search and feed),   *)
(* unless a save of the product failed.                                      *)
LastEventIsContent ==
    \A p \in Created :
        IsPublished(products[p]) /\ ~SaveFailed(p) =>
            \E i \in DOMAIN outbox :
                /\ outbox[i].product = p
                /\ \A j \in DOMAIN outbox : j > i => outbox[j].product # p
                /\ outbox[i].content = products[p].content

-----------------------------------------------------------------------------
(* What publication promises                                                 *)

PublishCalls == {c \in Calls : request[c] # NoProduct /\ request[c].op = "publish"}

Winners == UNION {PublishersOf(p) : p \in Calls}

Aim == [c \in Calls |-> IF c \in PublishCalls THEN request[c].product ELSE NoProduct]

OneOf(calls) == CHOOSE c \in calls : TRUE

WinnerOf(p) == IF PublishersOf(p) = {} THEN NoProduct ELSE OneOf(PublishersOf(p))

Winner == [p \in Calls |-> WinnerOf(p)]

Outcome ==
    [c \in Calls |->
        IF c \in Winners THEN "won"
        ELSE IF c \in PublishCalls /\ reply[c] = "conflict" THEN "refused" ELSE "open"]

Publication == INSTANCE SoleClaim WITH
    Claimants <- Calls, Things <- Calls, None <- NoProduct,
    aim <- Aim, winner <- Winner, outcome <- Outcome

(* Publishing is a claim that one call wins for good: a call changes a       *)
(* product to published only if no call did before, a published product      *)
(* stays published, and "already published" is answered only to a call that  *)
(* another one has beaten (product.ts:46-57).                                *)
PublicationIsSoleClaim == Publication!Spec

-----------------------------------------------------------------------------
(* The inductive invariant                                                   *)

(* A call has a request from its lookup on and no answer before its end, and *)
(* the product it found is the one it asked for; a product is created by     *)
(* the call it is named after.                                               *)
CallsAreInOrder ==
    \A c \in Calls :
        /\ pc[c] = "new" =>
              request[c] = NoProduct /\ found[c] = NoProduct /\ products[c] = NoProduct
        /\ pc[c] # "done" => reply[c] = "none"
        /\ pc[c] = "found" =>
              /\ request[c] \in Requests
              /\ request[c].op = "update" => SlugAccepted(request[c].content)
        /\ found[c] # NoProduct =>
              /\ found[c] \in Created
              /\ request[c] \in Requests /\ found[c] = request[c].product

EventsAreOfProducts == \A i \in DOMAIN outbox : outbox[i].product \in Created

(* A product is published exactly if one call published it.                  *)
PublisherIsSole ==
    \A p \in Calls :
        /\ PublishersOf(p) # {} => p \in Created /\ IsPublished(products[p])
        /\ p \in Created /\ IsPublished(products[p]) => \E c \in Calls : PublishersOf(p) = {c}

(* It is announced exactly once if that call's save succeeded.               *)
AnnouncedByPublisher ==
    \A p \in Calls :
        IF \E c \in PublishersOf(p) : reply[c] # "rejected"
        THEN \E i \in DOMAIN outbox : Announcements(p) = {i}
        ELSE Announcements(p) = {}

(* The strengthening of the properties that every step preserves.            *)
IInv ==
    /\ TypeOK
    /\ CallsAreInOrder
    /\ EventsAreOfProducts
    /\ PublisherIsSole
    /\ AnnouncedByPublisher
    /\ LastEventIsContent
=============================================================================
