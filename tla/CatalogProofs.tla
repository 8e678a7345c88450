---------------------------- MODULE CatalogProofs ----------------------------
(***************************************************************************)
(* Proofs about Catalog, for any number of calls and any contents.         *)
(***************************************************************************)
EXTENDS Catalog, FiniteSetTheorems, TLAPS

USE CatalogAssumption, NoProductAssumption

-----------------------------------------------------------------------------
(* The data                                                                  *)

LEMMA RequestFields ==
    ASSUME NEW r \in Requests
    PROVE  /\ r # NoProduct
           /\ r.op \in {"publish", "update"}
           /\ r.product \in Calls
           /\ r.op = "update" => r.content \in Contents
           /\ r.op = "publish" => r = [op |-> "publish", product |-> r.product]
           /\ r.op = "update" => \A p : r # [op |-> "publish", product |-> p]
  BY DEF Requests

LEMMA DraftIsDraft ==
    ASSUME NEW content \in Contents
    PROVE  /\ Draft(content) \in Product
           /\ Draft(content) # NoProduct
           /\ Draft(content).content = content
           /\ ~ IsPublished(Draft(content))
  BY DEF Product, Draft, IsPublished

LEMMA ProductsAreProducts ==
    ASSUME NEW content \in Contents, NEW product \in Product
    PROVE  /\ product # NoProduct
           /\ product.content \in Contents
           /\ Published(product) \in Product
           /\ Published(product).content = product.content
           /\ IsPublished(Published(product))
           /\ Updated(product, content) \in Product
           /\ Updated(product, content).content = content
           /\ IsPublished(Updated(product, content)) <=> IsPublished(product)
  BY DEF Product, IsPublished, Published, Updated

LEMMA EventFields ==
    ASSUME NEW id \in Calls, NEW product \in Product, NEW kind \in {"published", "updated"}
    PROVE  /\ EventOf(id, product, kind) \in Event
           /\ EventOf(id, product, kind).product = id
           /\ EventOf(id, product, kind).kind = kind
           /\ EventOf(id, product, kind).content = product.content
  BY DEF EventOf, Event, Product

LEMMA AcceptedContent ==
    ASSUME NEW input \in AcceptedInputs
    PROVE  input.content \in Contents /\ SlugAccepted(input.content)
  BY DEF AcceptedInputs, Accepted, ProductInputs

(* The types by variable.                                                    *)
LEMMA Types ==
    ASSUME TypeOK
    PROVE  /\ pc \in [Calls -> {"new", "found", "saved", "done"}]
           /\ request \in [Calls -> Requests \cup {NoProduct}]
           /\ found \in [Calls -> Calls \cup {NoProduct}]
           /\ reply \in [Calls -> {"none", "ok", "invalid", "notFound", "conflict", "rejected"}]
           /\ products \in [Calls -> Product \cup {NoProduct}]
           /\ categories \subseteq Calls
           /\ outbox \in Seq(Event)
           /\ Created \subseteq Calls
           /\ \A p \in Created : products[p] \in Product
  BY DEF TypeOK, Created

LEMMA LookupCreated ==
    ASSUME NEW id \in Calls
    PROVE  /\ Lookup(id) \in Created \cup {NoProduct}
           /\ Lookup(id) # NoProduct => Lookup(id) = id
  BY DEF Lookup

-----------------------------------------------------------------------------
(* The kinds of step                                                         *)

(* A step in which no call wins and no save fails.                           *)
NobodyWins ==
    /\ \A p \in Calls : PublishersOf(p)' = PublishersOf(p)
    /\ \A c \in Calls : (reply[c] = "rejected") <=> (reply'[c] = "rejected")
    /\ \A c \in Calls : reply[c] = "rejected" => found'[c] = found[c]

(* What a save of call c to product p changes.                               *)
Saves(c, p, product, kind) ==
    /\ pc[c] = "found" /\ found[c] = p
    /\ p \in Created
    /\ product \in Product /\ SlugAccepted(product.content)
    /\ \/ /\ kind = "published"
          /\ request[c].op = "publish"
          /\ ~ IsPublished(products[p]) /\ IsPublished(product)
       \/ /\ kind = "updated"
          /\ request[c].op = "update"
          /\ IsPublished(product) <=> IsPublished(products[p])
    /\ Save(c, product, kind)

LEMMA PublishSaves ==
    ASSUME TypeOK, CallsAreInOrder, NEW c \in Calls,
           PublishProduct(c), ~ IsPublished(products[found[c]])
    PROVE  Saves(c, found[c], Published(products[found[c]]), "published")
  <1>1. /\ ActsOnProduct(c, "publish")
        /\ Save(c, Published(products[found[c]]), "published")
    BY DEF PublishProduct
  <1>2. found[c] \in Created /\ products[found[c]] \in Product
    BY <1>1, Types DEF ActsOnProduct, CallsAreInOrder
  <1>3. SlugAccepted(products[found[c]].content) /\ products[found[c]].content \in Contents
    BY <1>2, ProductsAreProducts DEF TypeOK, Product
  <1> QED
    BY <1>1, <1>2, <1>3, ProductsAreProducts DEF Saves, ActsOnProduct

LEMMA UpdateSaves ==
    ASSUME TypeOK, CallsAreInOrder, NEW c \in Calls, UpdateProduct(c)
    PROVE  Saves(c, found[c], Updated(products[found[c]], request[c].content), "updated")
  <1>1. /\ ActsOnProduct(c, "update")
        /\ Save(c, Updated(products[found[c]], request[c].content), "updated")
    BY DEF UpdateProduct
  <1>2. /\ found[c] \in Created /\ products[found[c]] \in Product
        /\ request[c] \in Requests /\ request[c].op = "update"
        /\ SlugAccepted(request[c].content)
    BY <1>1, Types DEF ActsOnProduct, CallsAreInOrder
  <1>3. request[c].content \in Contents
    BY <1>2, RequestFields
  <1> QED
    BY <1>1, <1>2, <1>3, ProductsAreProducts DEF Saves, ActsOnProduct

(* Every step is of one of four kinds.                                       *)
LEMMA Kinds ==
    ASSUME TypeOK, CallsAreInOrder, NEW c \in Calls,
           \/ Refuse(c) \/ CreateCategory(c) \/ NotFound(c) \/ Answer(c)
           \/ \E req \in Requests : Find(c, req)
           \/ PublishProduct(c) /\ IsPublished(products[found[c]])
    PROVE  NobodyWins /\ products' = products /\ outbox' = outbox
  <1>1. products' = products /\ outbox' = outbox
    BY DEF Refuse, CreateCategory, NotFound, Answer, Find, PublishProduct
  <1>2. /\ pc \in [Calls -> {"new", "found", "saved", "done"}]
        /\ request \in [Calls -> Requests \cup {NoProduct}]
        /\ found \in [Calls -> Calls \cup {NoProduct}]
        /\ reply \in [Calls -> {"none", "ok", "invalid", "notFound", "conflict", "rejected"}]
    BY Types
  <1>3. reply[c] = "none" /\ (pc[c] = "new" => request[c] = NoProduct)
    BY <1>2 DEF CallsAreInOrder, Refuse, CreateCategory, NotFound, Answer, Find,
       PublishProduct, ActsOnProduct
  <1>4. \A d \in Calls \ {c} : /\ pc'[d] = pc[d] /\ request'[d] = request[d]
                               /\ found'[d] = found[d] /\ reply'[d] = reply[d]
    BY <1>2 DEF Refuse, CreateCategory, NotFound, Answer, Find, PublishProduct, End
  <1>5. reply'[c] # "rejected"
    BY <1>2, <1>3 DEF Refuse, CreateCategory, NotFound, Answer, Find, PublishProduct, End
  <1>6. ASSUME NEW p \in Calls PROVE c \in PublishersOf(p)' <=> c \in PublishersOf(p)
    <2>1. CASE Answer(c)
      BY <1>2, <2>1 DEF Answer, End, PublishersOf
    <2>2. CASE Refuse(c) \/ CreateCategory(c)
      BY <1>2, <1>3, <2>2 DEF Refuse, CreateCategory, End, PublishersOf
    <2>3. CASE NotFound(c) \/ (PublishProduct(c) /\ IsPublished(products[found[c]]))
      BY <1>2, <1>3, <2>3 DEF NotFound, PublishProduct, ActsOnProduct, End, PublishersOf
    <2>4. CASE \E req \in Requests : Find(c, req)
      BY <1>2, <1>3, <2>4 DEF Find, PublishersOf
    <2> QED
      BY <2>1, <2>2, <2>3, <2>4
  <1>7. \A p \in Calls : PublishersOf(p)' = PublishersOf(p)
    <2>1. \A p \in Calls : \A d \in Calls \ {c} : d \in PublishersOf(p)' <=> d \in PublishersOf(p)
      BY <1>4 DEF PublishersOf
    <2>2. \A p \in Calls : PublishersOf(p) \subseteq Calls /\ PublishersOf(p)' \subseteq Calls
      BY DEF PublishersOf
    <2> SUFFICES ASSUME NEW p \in Calls PROVE PublishersOf(p)' = PublishersOf(p)
      OBVIOUS
    <2>3. \A d \in Calls : d \in PublishersOf(p)' <=> d \in PublishersOf(p)
      BY <1>6, <2>1
    <2> QED
      BY <2>2, <2>3
  <1> QED
    BY <1>1, <1>3, <1>4, <1>5, <1>7 DEF NobodyWins

LEMMA CreateKind ==
    ASSUME TypeOK, CallsAreInOrder, NEW c \in Calls, NEW input \in AcceptedInputs,
           CreateProduct(c, input)
    PROVE  /\ NobodyWins /\ outbox' = outbox
           /\ products[c] = NoProduct
           /\ products' = [products EXCEPT ![c] = Draft(input.content)]
  <1>1. /\ pc \in [Calls -> {"new", "found", "saved", "done"}]
        /\ products[c] = NoProduct
        /\ request[c] = NoProduct /\ reply[c] = "none" /\ pc[c] = "new"
    BY Types DEF CallsAreInOrder, CreateProduct
  <1>2. /\ pc' = [pc EXCEPT ![c] = "saved"]
        /\ request' = request /\ reply' = reply /\ found' = found
    BY DEF CreateProduct
  <1>3. \A p \in Calls : PublishersOf(p)' = PublishersOf(p)
    BY <1>1, <1>2 DEF PublishersOf
  <1> QED
    BY <1>1, <1>2, <1>3 DEF NobodyWins, CreateProduct

(* A save changes one product; its event, if it is written, is the last one; *)
(* and its call is a publisher if it published.                              *)
SaveChanges(c, p, product, kind) ==
    /\ products' = [products EXCEPT ![p] = product]
    /\ Created' = Created
    /\ request' = request /\ found' = found
    /\ \A d \in Calls \ {c} : reply'[d] = reply[d]
    /\ reply[c] = "none"
    /\ \/ /\ outbox' = Append(outbox, EventOf(p, product, kind))
          /\ reply'[c] = "none"
       \/ outbox' = outbox /\ reply'[c] = "rejected"
    /\ \A q \in Calls : c \notin PublishersOf(q)
    /\ \A q \in Calls : PublishersOf(q)' =
          IF kind = "published" /\ q = p THEN PublishersOf(q) \cup {c} ELSE PublishersOf(q)

LEMMA SaveChange ==
    ASSUME TypeOK, CallsAreInOrder, NEW c \in Calls, NEW p \in Calls,
           NEW product, NEW kind, Saves(c, p, product, kind)
    PROVE  SaveChanges(c, p, product, kind)
  <1>1. /\ pc \in [Calls -> {"new", "found", "saved", "done"}]
        /\ request \in [Calls -> Requests \cup {NoProduct}]
        /\ reply \in [Calls -> {"none", "ok", "invalid", "notFound", "conflict", "rejected"}]
        /\ products \in [Calls -> Product \cup {NoProduct}]
    BY Types
  <1>2. /\ pc[c] = "found" /\ found[c] = p /\ reply[c] = "none"
        /\ request[c] \in Requests /\ request[c].product = p
        /\ p \in Created /\ product \in Product
        /\ kind = "published" <=> request[c].op = "publish"
    BY DEF Saves, CallsAreInOrder, Created
  <1>3. /\ products' = [products EXCEPT ![p] = product]
        /\ request' = request /\ found' = found
        /\ \/ /\ outbox' = Append(outbox, EventOf(p, product, kind))
              /\ pc' = [pc EXCEPT ![c] = "saved"] /\ reply' = reply
           \/ /\ outbox' = outbox
              /\ pc' = [pc EXCEPT ![c] = "done"] /\ reply' = [reply EXCEPT ![c] = "rejected"]
    BY <1>2 DEF Saves, Save, End
  <1>4. Created' = Created
    BY <1>1, <1>2, <1>3, ProductsAreProducts DEF Created
  <1>5. \A d \in Calls \ {c} : reply'[d] = reply[d] /\ pc'[d] = pc[d]
    BY <1>1, <1>3
  <1>6. /\ pc'[c] = "saved" \/ reply'[c] = "rejected"
        /\ reply'[c] \in {"none", "rejected"}
    BY <1>1, <1>2, <1>3
  <1>7. \A q \in Calls : c \notin PublishersOf(q)
    BY <1>2 DEF PublishersOf
  <1>8. \A q \in Calls : c \in PublishersOf(q)' <=> kind = "published" /\ q = p
    BY <1>2, <1>3, <1>6, RequestFields DEF PublishersOf
  <1>9. \A q \in Calls : \A d \in Calls \ {c} : d \in PublishersOf(q)' <=> d \in PublishersOf(q)
    BY <1>3, <1>5 DEF PublishersOf
  <1>10. \A q \in Calls : PublishersOf(q) \subseteq Calls /\ PublishersOf(q)' \subseteq Calls
    BY DEF PublishersOf
  <1>11. \A q \in Calls : PublishersOf(q)' =
           IF kind = "published" /\ q = p THEN PublishersOf(q) \cup {c} ELSE PublishersOf(q)
    <2> SUFFICES ASSUME NEW q \in Calls
                 PROVE  PublishersOf(q)' =
                          IF kind = "published" /\ q = p THEN PublishersOf(q) \cup {c}
                          ELSE PublishersOf(q)
      OBVIOUS
    <2>1. PublishersOf(q) \subseteq Calls /\ PublishersOf(q)' \subseteq Calls
      BY <1>10
    <2>2. \A d \in Calls \ {c} : d \in PublishersOf(q)' <=> d \in PublishersOf(q)
      BY <1>9
    <2>3. c \notin PublishersOf(q) /\ (c \in PublishersOf(q)' <=> kind = "published" /\ q = p)
      BY <1>7, <1>8
    <2>4. CASE kind = "published" /\ q = p
      BY <2>1, <2>2, <2>3, <2>4
    <2>5. CASE ~ (kind = "published" /\ q = p)
      BY <2>1, <2>2, <2>3, <2>5
    <2> QED
      BY <2>4, <2>5
  <1>12. \/ outbox' = Append(outbox, EventOf(p, product, kind)) /\ reply'[c] = "none"
         \/ outbox' = outbox /\ reply'[c] = "rejected"
    <2>1. CASE outbox' = Append(outbox, EventOf(p, product, kind)) /\ reply' = reply
      BY <1>2, <2>1
    <2>2. CASE outbox' = outbox /\ reply' = [reply EXCEPT ![c] = "rejected"]
      BY <1>1, <2>2
    <2> QED
      BY <1>3, <2>1, <2>2
  <1> QED
    BY <1>2, <1>3, <1>4, <1>5, <1>7, <1>11, <1>12 DEF SaveChanges

-----------------------------------------------------------------------------
(* The history: who published, what was announced, what the last event says  *)

History ==
    /\ EventsAreOfProducts
    /\ PublisherIsSole
    /\ AnnouncedByPublisher
    /\ LastEventIsContent

(* A step in which nobody wins and no product or event changes.              *)
LEMMA QuietStep ==
    ASSUME TypeOK, History, NobodyWins, products' = products, outbox' = outbox
    PROVE  History'
  <1>1. Created' = Created /\ Created \subseteq Calls
    BY DEF Created
  <1>2. EventsAreOfProducts'
    BY <1>1 DEF History, EventsAreOfProducts
  <1>3. PublisherIsSole'
    BY <1>1 DEF History, PublisherIsSole, NobodyWins
  <1>4. AnnouncedByPublisher'
    <2>1. \A p : Announcements(p)' = Announcements(p)
      BY DEF Announcements
    <2>2. \A p \in Calls : PublishersOf(p) \subseteq Calls
      BY DEF PublishersOf
    <2> QED
      BY <2>1, <2>2 DEF History, AnnouncedByPublisher, NobodyWins
  <1>5. LastEventIsContent'
    <2>1. \A p \in Created : SaveFailed(p) => SaveFailed(p)'
      BY DEF SaveFailed, NobodyWins
    <2> QED
      BY <1>1, <2>1 DEF History, LastEventIsContent
  <1> QED
    BY <1>2, <1>3, <1>4, <1>5 DEF History

(* A step that creates a draft, of which there are no events yet.            *)
LEMMA CreateStep ==
    ASSUME TypeOK, History, NobodyWins, outbox' = outbox,
           NEW c \in Calls, NEW content \in Contents,
           products[c] = NoProduct, products' = [products EXCEPT ![c] = Draft(content)]
    PROVE  History'
  <1>1. products \in [Calls -> Product \cup {NoProduct}]
    BY Types
  <1>2. /\ Draft(content) \in Product /\ ~ IsPublished(Draft(content))
        /\ Draft(content) # NoProduct
    BY DraftIsDraft
  <1>3. /\ Created' = Created \cup {c} /\ c \notin Created
        /\ products'[c] = Draft(content)
        /\ \A p \in Calls \ {c} : products'[p] = products[p]
        /\ Created \subseteq Calls
    BY <1>1, <1>2 DEF Created
  <1>4. EventsAreOfProducts'
    BY <1>3 DEF History, EventsAreOfProducts
  <1>5. PublisherIsSole'
    BY <1>2, <1>3 DEF History, PublisherIsSole, NobodyWins
  <1>6. AnnouncedByPublisher'
    <2>1. \A p : Announcements(p)' = Announcements(p)
      BY DEF Announcements
    <2>2. \A p \in Calls : PublishersOf(p) \subseteq Calls
      BY DEF PublishersOf
    <2> QED
      BY <2>1, <2>2 DEF History, AnnouncedByPublisher, NobodyWins
  <1>7. LastEventIsContent'
    <2>1. \A p \in Created : SaveFailed(p) => SaveFailed(p)'
      BY DEF SaveFailed, NobodyWins
    <2> QED
      BY <1>2, <1>3, <2>1 DEF History, LastEventIsContent
  <1> QED
    BY <1>4, <1>5, <1>6, <1>7 DEF History

(* A step that saves a product.                                              *)
LEMMA SaveStep ==
    ASSUME TypeOK, CallsAreInOrder, History,
           NEW c \in Calls, NEW p \in Calls, NEW product, NEW kind,
           Saves(c, p, product, kind)
    PROVE  History'
  <1>1. /\ p \in Created /\ Created \subseteq Calls
        /\ product \in Product /\ kind \in {"published", "updated"}
        /\ products \in [Calls -> Product \cup {NoProduct}]
        /\ outbox \in Seq(Event)
        /\ found[c] = p
    BY Types DEF Saves
  <1>2. /\ products' = [products EXCEPT ![p] = product]
        /\ Created' = Created
        /\ found' = found
        /\ \A d \in Calls \ {c} : reply'[d] = reply[d]
        /\ reply[c] = "none"
        /\ \/ /\ outbox' = Append(outbox, EventOf(p, product, kind))
              /\ reply'[c] = "none"
           \/ outbox' = outbox /\ reply'[c] = "rejected"
        /\ \A q \in Calls : c \notin PublishersOf(q)
        /\ \A q \in Calls : PublishersOf(q)' =
              IF kind = "published" /\ q = p THEN PublishersOf(q) \cup {c} ELSE PublishersOf(q)
    BY SaveChange DEF SaveChanges
  <1>3. /\ products'[p] = product
        /\ \A q \in Calls \ {p} : products'[q] = products[q]
    BY <1>1, <1>2
  <1>4. /\ kind = "published" => ~ IsPublished(products[p]) /\ IsPublished(product)
        /\ kind = "updated" => (IsPublished(product) <=> IsPublished(products[p]))
    BY DEF Saves
  <1>5. PICK n \in Nat :
          /\ DOMAIN outbox = 1..n
          /\ \/ /\ outbox' = outbox /\ DOMAIN outbox' = 1..n /\ reply'[c] = "rejected"
             \/ /\ DOMAIN outbox' = 1..(n + 1)
                /\ \A i \in 1..n : outbox'[i] = outbox[i]
                /\ outbox'[n + 1] = EventOf(p, product, kind)
                /\ reply'[c] = "none"
    <2>1. /\ Len(outbox) \in Nat /\ DOMAIN outbox = 1..Len(outbox)
          /\ EventOf(p, product, kind) \in Event
      BY <1>1, EventFields
    <2>2. CASE outbox' = outbox /\ reply'[c] = "rejected"
      BY <2>1, <2>2
    <2>3. CASE outbox' = Append(outbox, EventOf(p, product, kind)) /\ reply'[c] = "none"
      <3>1. /\ DOMAIN outbox' = 1..(Len(outbox) + 1)
            /\ \A i \in 1..Len(outbox) : outbox'[i] = outbox[i]
            /\ outbox'[Len(outbox) + 1] = EventOf(p, product, kind)
        BY <1>1, <2>1, <2>3
      <3> QED
        BY <2>1, <2>3, <3>1
    <2> QED
      BY <1>2, <2>2, <2>3
  <1>6. /\ EventOf(p, product, kind).product = p
        /\ EventOf(p, product, kind).kind = kind
        /\ EventOf(p, product, kind).content = product.content
    BY <1>1, EventFields
  <1>7. EventsAreOfProducts'
    BY <1>1, <1>2, <1>5, <1>6 DEF History, EventsAreOfProducts
  <1>8. PublisherIsSole'
    <2>1. ASSUME NEW q \in Calls, kind = "published", q = p
          PROVE  /\ PublishersOf(q)' = {c}
                 /\ q \in Created /\ IsPublished(products'[q])
      BY <1>1, <1>2, <1>3, <1>4, <2>1 DEF History, PublisherIsSole
    <2>2. ASSUME NEW q \in Calls, ~ (kind = "published" /\ q = p)
          PROVE  /\ PublishersOf(q)' = PublishersOf(q)
                 /\ IsPublished(products'[q]) <=> IsPublished(products[q])
      BY <1>1, <1>2, <1>3, <1>4, <2>2
    <2> QED
      BY <1>2, <2>1, <2>2 DEF History, PublisherIsSole
  <1>9. AnnouncedByPublisher'
    <2>1. ASSUME NEW q \in Calls, kind = "published", q = p
          PROVE  IF \E d \in PublishersOf(q)' : reply'[d] # "rejected"
                 THEN \E i \in DOMAIN outbox' : Announcements(q)' = {i}
                 ELSE Announcements(q)' = {}
      <3>1. PublishersOf(q) = {} /\ PublishersOf(q)' = {c}
        BY <1>1, <1>2, <1>4, <2>1 DEF History, PublisherIsSole
      <3>2. Announcements(q) = {}
        BY <3>1 DEF History, AnnouncedByPublisher
      <3>3. CASE outbox' = outbox /\ reply'[c] = "rejected"
        BY <3>1, <3>2, <3>3 DEF Announcements
      <3>4. CASE /\ DOMAIN outbox' = 1..(n + 1)
                 /\ \A i \in 1..n : outbox'[i] = outbox[i]
                 /\ outbox'[n + 1] = EventOf(p, product, kind)
                 /\ reply'[c] = "none"
        <4>1. Announcements(q)' = {n + 1}
          BY <1>5, <1>6, <2>1, <3>2, <3>4 DEF Announcements
        <4> QED
          BY <3>1, <3>4, <4>1
      <3> QED
        BY <1>5, <3>3, <3>4
    <2>2. ASSUME NEW q \in Calls, ~ (kind = "published" /\ q = p)
          PROVE  /\ PublishersOf(q)' = PublishersOf(q)
                 /\ \A d \in PublishersOf(q) : reply'[d] = reply[d]
                 /\ Announcements(q)' = Announcements(q)
      <3>1. /\ PublishersOf(q)' = PublishersOf(q)
            /\ \A d \in PublishersOf(q) : reply'[d] = reply[d]
        BY <1>2, <2>2 DEF PublishersOf
      <3>2. Announcements(q)' = Announcements(q)
        BY <1>5, <1>6, <2>2 DEF Announcements
      <3> QED
        BY <3>1, <3>2
    <2>3. DOMAIN outbox \subseteq DOMAIN outbox'
      BY <1>5
    <2> QED
      BY <2>1, <2>2, <2>3 DEF History, AnnouncedByPublisher
  <1>10. LastEventIsContent'
    <2>1. \A q \in Created : SaveFailed(q) => SaveFailed(q)'
      BY <1>1, <1>2 DEF SaveFailed
    <2>2. CASE outbox' = outbox /\ DOMAIN outbox' = 1..n /\ reply'[c] = "rejected"
      <3>1. SaveFailed(p)'
        BY <1>1, <1>2, <2>2 DEF SaveFailed
      <3> QED
        BY <1>2, <1>3, <1>1, <2>1, <2>2, <3>1 DEF History, LastEventIsContent
    <2>3. CASE /\ DOMAIN outbox' = 1..(n + 1)
               /\ \A i \in 1..n : outbox'[i] = outbox[i]
               /\ outbox'[n + 1] = EventOf(p, product, kind)
      <3>1. /\ n + 1 \in DOMAIN outbox'
            /\ \A j \in DOMAIN outbox' : ~ (j > n + 1)
            /\ outbox'[n + 1].product = p /\ outbox'[n + 1].content = products'[p].content
        BY <1>3, <1>6, <2>3
      <3>2. ASSUME NEW q \in Created, q # p, IsPublished(products[q]), ~ SaveFailed(q)
            PROVE  \E i \in DOMAIN outbox' :
                     /\ outbox'[i].product = q
                     /\ \A j \in DOMAIN outbox' : j > i => outbox'[j].product # q
                     /\ outbox'[i].content = products[q].content
        <4>1. PICK i \in DOMAIN outbox :
                     /\ outbox[i].product = q
                     /\ \A j \in DOMAIN outbox : j > i => outbox[j].product # q
                     /\ outbox[i].content = products[q].content
          BY <3>2 DEF History, LastEventIsContent
        <4>2. /\ i \in DOMAIN outbox' /\ outbox'[i] = outbox[i]
              /\ \A j \in DOMAIN outbox' : j > i => outbox'[j].product # q
          BY <1>5, <1>6, <2>3, <3>2, <4>1
        <4> QED
          BY <4>1, <4>2
      <3> QED
        BY <1>1, <1>2, <1>3, <2>1, <3>1, <3>2 DEF LastEventIsContent
    <2> QED
      BY <1>5, <2>2, <2>3
  <1> QED
    BY <1>7, <1>8, <1>9, <1>10 DEF History

-----------------------------------------------------------------------------
(* The calls                                                                 *)

(* TypeOK and CallsAreInOrder follow from how the variables of one call      *)
(* change, if products are only added to.                                    *)
LEMMA CallsStay ==
    ASSUME TypeOK, CallsAreInOrder, NEW c \in Calls,
           \A d \in Calls \ {c} : /\ pc'[d] = pc[d] /\ request'[d] = request[d]
                                  /\ found'[d] = found[d] /\ reply'[d] = reply[d]
                                  /\ products[d] = NoProduct => products'[d] = NoProduct,
           Created \subseteq Created',
           /\ pc'[c] = "new" => FALSE
           /\ pc'[c] # "done" => reply'[c] = "none"
           /\ pc'[c] = "found" =>
                 /\ request'[c] \in Requests
                 /\ request'[c].op = "update" => SlugAccepted(request'[c].content)
           /\ found'[c] # NoProduct =>
                 /\ found'[c] \in Created'
                 /\ request'[c] \in Requests /\ found'[c] = request'[c].product
    PROVE  CallsAreInOrder'
  <1> SUFFICES ASSUME NEW d \in Calls
               PROVE  /\ pc'[d] = "new" =>
                            request'[d] = NoProduct /\ found'[d] = NoProduct /\ products'[d] = NoProduct
                      /\ pc'[d] # "done" => reply'[d] = "none"
                      /\ pc'[d] = "found" =>
                            /\ request'[d] \in Requests
                            /\ request'[d].op = "update" => SlugAccepted(request'[d].content)
                      /\ found'[d] # NoProduct =>
                            /\ found'[d] \in Created'
                            /\ request'[d] \in Requests /\ found'[d] = request'[d].product
    BY DEF CallsAreInOrder, SlugAccepted
  <1>1. CASE d = c
    BY <1>1
  <1>2. CASE d # c
    <2>1. /\ pc'[d] = pc[d] /\ request'[d] = request[d]
          /\ found'[d] = found[d] /\ reply'[d] = reply[d]
          /\ products[d] = NoProduct => products'[d] = NoProduct
      BY <1>2
    <2> QED
      BY <2>1 DEF CallsAreInOrder
  <1> QED
    BY <1>1, <1>2

LEMMA EndCalls ==
    ASSUME TypeOK, CallsAreInOrder, NEW c \in Calls,
           NEW status \in {"ok", "invalid", "notFound", "conflict", "rejected"},
           End(c, status), Created' = Created,
           \A d \in Calls \ {c} : products[d] = NoProduct => products'[d] = NoProduct
    PROVE  /\ CallsAreInOrder'
           /\ pc' \in [Calls -> {"new", "found", "saved", "done"}]
           /\ reply' \in [Calls -> {"none", "ok", "invalid", "notFound", "conflict", "rejected"}]
           /\ request' = request /\ found' = found
  <1>1. /\ pc \in [Calls -> {"new", "found", "saved", "done"}]
        /\ reply \in [Calls -> {"none", "ok", "invalid", "notFound", "conflict", "rejected"}]
    BY Types
  <1>2. /\ pc' \in [Calls -> {"new", "found", "saved", "done"}]
        /\ reply' \in [Calls -> {"none", "ok", "invalid", "notFound", "conflict", "rejected"}]
        /\ request' = request /\ found' = found
        /\ pc'[c] = "done"
        /\ \A d \in Calls \ {c} : pc'[d] = pc[d] /\ reply'[d] = reply[d]
    BY <1>1 DEF End
  <1>3. found[c] # NoProduct =>
          found[c] \in Created /\ request[c] \in Requests /\ found[c] = request[c].product
    BY DEF CallsAreInOrder
  <1>4. CallsAreInOrder'
    BY <1>2, <1>3, CallsStay
  <1> QED
    BY <1>2, <1>4

(* A step that leaves products and events alone.                             *)
LEMMA CallsStep ==
    ASSUME TypeOK, CallsAreInOrder, NEW c \in Calls,
           \/ Refuse(c) \/ CreateCategory(c) \/ NotFound(c) \/ Answer(c)
           \/ \E req \in Requests : Find(c, req)
           \/ PublishProduct(c) /\ IsPublished(products[found[c]])
    PROVE  TypeOK' /\ CallsAreInOrder'
  <1>1. products' = products /\ outbox' = outbox
    BY Kinds
  <1>2. Created' = Created
    BY <1>1 DEF Created
  <1>3. /\ pc \in [Calls -> {"new", "found", "saved", "done"}]
        /\ request \in [Calls -> Requests \cup {NoProduct}]
        /\ found \in [Calls -> Created \cup {NoProduct}]
        /\ reply \in [Calls -> {"none", "ok", "invalid", "notFound", "conflict", "rejected"}]
        /\ products \in [Calls -> Product \cup {NoProduct}]
        /\ categories \subseteq Calls
        /\ outbox \in Seq(Event)
        /\ \A p \in Created : SlugAccepted(products[p].content)
    BY DEF TypeOK
  <1>4. CASE \E status \in {"ok", "invalid", "notFound", "conflict", "rejected"} : End(c, status)
    <2>1. PICK status \in {"ok", "invalid", "notFound", "conflict", "rejected"} : End(c, status)
      BY <1>4
    <2>2. /\ CallsAreInOrder'
          /\ pc' \in [Calls -> {"new", "found", "saved", "done"}]
          /\ reply' \in [Calls -> {"none", "ok", "invalid", "notFound", "conflict", "rejected"}]
          /\ request' = request /\ found' = found
      BY <1>1, <1>2, <2>1, EndCalls
    <2>3. categories' = categories \/ CreateCategory(c)
      BY DEF Refuse, NotFound, Answer, Find, PublishProduct
    <2>4. categories' \subseteq Calls
      BY <1>3, <2>3 DEF CreateCategory, CategorySaved
    <2> QED
      BY <1>1, <1>2, <1>3, <2>2, <2>4 DEF TypeOK, SlugAccepted
  <1>5. CASE CreateCategory(c)
    <2>1. /\ pc' = [pc EXCEPT ![c] = "saved"] /\ pc[c] = "new"
          /\ request' = request /\ found' = found /\ reply' = reply
          /\ categories' = categories \cup {c}
      BY <1>5 DEF CreateCategory, CategorySaved
    <2>2. /\ pc'[c] = "saved" /\ reply[c] = "none" /\ found[c] = NoProduct
          /\ \A d \in Calls \ {c} : pc'[d] = pc[d]
      BY <1>3, <2>1 DEF CallsAreInOrder
    <2>3. CallsAreInOrder'
      BY <1>1, <1>2, <2>1, <2>2, CallsStay
    <2>4. TypeOK'
      BY <1>1, <1>2, <1>3, <2>1 DEF TypeOK, SlugAccepted
    <2> QED
      BY <2>3, <2>4
  <1>6. CASE \E req \in Requests : Find(c, req)
    <2>1. PICK req \in Requests : Find(c, req)
      BY <1>6
    <2>2. /\ pc' = [pc EXCEPT ![c] = "found"] /\ pc[c] = "new"
          /\ request' = [request EXCEPT ![c] = req]
          /\ found' = [found EXCEPT ![c] = Lookup(req.product)]
          /\ reply' = reply /\ categories' = categories
          /\ req.op = "update" => SlugAccepted(req.content)
      BY <2>1 DEF Find
    <2>3. Lookup(req.product) \in Created \cup {NoProduct}
          /\ (Lookup(req.product) # NoProduct => Lookup(req.product) = req.product)
      BY RequestFields, LookupCreated
    <2>4. /\ pc'[c] = "found" /\ reply[c] = "none"
          /\ request'[c] = req /\ found'[c] = Lookup(req.product)
          /\ \A d \in Calls \ {c} : /\ pc'[d] = pc[d] /\ request'[d] = request[d]
                                    /\ found'[d] = found[d]
      BY <1>3, <2>2 DEF CallsAreInOrder
    <2>5. CallsAreInOrder'
      BY <1>1, <1>2, <2>2, <2>3, <2>4, CallsStay
    <2>6. TypeOK'
      <3>1. /\ pc' \in [Calls -> {"new", "found", "saved", "done"}]
            /\ request' \in [Calls -> Requests \cup {NoProduct}]
            /\ found' \in [Calls -> Created' \cup {NoProduct}]
        BY <1>2, <1>3, <2>2, <2>3
      <3> QED
        BY <1>1, <1>2, <1>3, <2>2, <3>1 DEF TypeOK, SlugAccepted
    <2> QED
      BY <2>5, <2>6
  <1> QED
    BY <1>4, <1>5, <1>6 DEF Refuse, NotFound, Answer, PublishProduct

LEMMA CreateCalls ==
    ASSUME TypeOK, CallsAreInOrder, NEW c \in Calls, NEW input \in AcceptedInputs,
           CreateProduct(c, input)
    PROVE  TypeOK' /\ CallsAreInOrder'
  <1>1. /\ outbox' = outbox
        /\ products[c] = NoProduct
        /\ products' = [products EXCEPT ![c] = Draft(input.content)]
    BY CreateKind
  <1>2. /\ pc \in [Calls -> {"new", "found", "saved", "done"}]
        /\ found \in [Calls -> Created \cup {NoProduct}]
        /\ products \in [Calls -> Product \cup {NoProduct}]
        /\ \A p \in Created : SlugAccepted(products[p].content)
    BY DEF TypeOK
  <1>3. /\ Draft(input.content) \in Product
        /\ Draft(input.content) # NoProduct
        /\ Draft(input.content).content = input.content
        /\ SlugAccepted(input.content)
    BY AcceptedContent, DraftIsDraft
  <1>4. /\ Created' = Created \cup {c}
        /\ products' \in [Calls -> Product \cup {NoProduct}]
        /\ products'[c] = Draft(input.content)
        /\ \A d \in Calls \ {c} : products'[d] = products[d]
    BY <1>1, <1>2, <1>3 DEF Created
  <1>5. /\ pc' = [pc EXCEPT ![c] = "saved"] /\ pc[c] = "new"
        /\ request' = request /\ found' = found /\ reply' = reply /\ categories' = categories
    BY DEF CreateProduct
  <1>6. /\ pc'[c] = "saved" /\ reply[c] = "none" /\ found[c] = NoProduct
        /\ \A d \in Calls \ {c} : pc'[d] = pc[d]
    BY <1>2, <1>5 DEF CallsAreInOrder
  <1>7. CallsAreInOrder'
    BY <1>4, <1>5, <1>6, CallsStay
  <1>8. \A p \in Created' : SlugAccepted(products'[p].content)
    BY <1>2, <1>3, <1>4 DEF Created
  <1>9. /\ pc' \in [Calls -> {"new", "found", "saved", "done"}]
        /\ found' \in [Calls -> Created' \cup {NoProduct}]
    BY <1>2, <1>4, <1>5
  <1>10. TypeOK'
    BY <1>1, <1>4, <1>5, <1>8, <1>9 DEF TypeOK, SlugAccepted
  <1> QED
    BY <1>7, <1>10

LEMMA SaveCalls ==
    ASSUME TypeOK, CallsAreInOrder, NEW c \in Calls, NEW p \in Calls,
           NEW product, NEW kind, Saves(c, p, product, kind)
    PROVE  TypeOK' /\ CallsAreInOrder'
  <1>1. /\ pc \in [Calls -> {"new", "found", "saved", "done"}]
        /\ request \in [Calls -> Requests \cup {NoProduct}]
        /\ found \in [Calls -> Created \cup {NoProduct}]
        /\ reply \in [Calls -> {"none", "ok", "invalid", "notFound", "conflict", "rejected"}]
        /\ products \in [Calls -> Product \cup {NoProduct}]
        /\ outbox \in Seq(Event)
        /\ \A q \in Created : SlugAccepted(products[q].content)
    BY DEF TypeOK
  <1>2. /\ products' = [products EXCEPT ![p] = product]
        /\ Created' = Created
    BY SaveChange DEF SaveChanges
  <1>3. /\ pc[c] = "found" /\ found[c] = p /\ p \in Created
        /\ product \in Product /\ SlugAccepted(product.content)
        /\ kind \in {"published", "updated"}
        /\ categories' = categories
    BY DEF Saves, Save
  <1>4. /\ products' \in [Calls -> Product \cup {NoProduct}]
        /\ \A q \in Created' : SlugAccepted(products'[q].content)
        /\ \A d \in Calls \ {c} : products[d] = NoProduct => products'[d] = NoProduct
    BY <1>1, <1>2, <1>3 DEF Created
  <1>5. /\ found[c] # NoProduct /\ reply[c] = "none"
        /\ found[c] \in Created /\ request[c] \in Requests /\ found[c] = request[c].product
    BY <1>3 DEF CallsAreInOrder, Created
  <1>6. CASE /\ outbox' = Append(outbox, EventOf(p, product, kind))
             /\ pc' = [pc EXCEPT ![c] = "saved"]
             /\ request' = request /\ found' = found /\ reply' = reply
    <2>1. EventOf(p, product, kind) \in Event
      BY <1>3, EventFields
    <2>2. outbox' \in Seq(Event)
      BY <1>1, <1>6, <2>1
    <2>3. pc'[c] = "saved" /\ \A d \in Calls \ {c} : pc'[d] = pc[d]
      BY <1>1, <1>6
    <2>4. CallsAreInOrder'
      BY <1>2, <1>4, <1>5, <1>6, <2>3, CallsStay
    <2>5. /\ pc' \in [Calls -> {"new", "found", "saved", "done"}]
          /\ found' \in [Calls -> Created' \cup {NoProduct}]
      BY <1>1, <1>2, <1>6
    <2> QED
      BY <1>3, <1>4, <1>6, <2>2, <2>4, <2>5 DEF TypeOK, SlugAccepted
  <1>7. CASE outbox' = outbox /\ End(c, "rejected")
    <2>1. /\ CallsAreInOrder'
          /\ pc' \in [Calls -> {"new", "found", "saved", "done"}]
          /\ reply' \in [Calls -> {"none", "ok", "invalid", "notFound", "conflict", "rejected"}]
          /\ request' = request /\ found' = found
      BY <1>2, <1>4, <1>7, EndCalls
    <2> QED
      BY <1>1, <1>2, <1>3, <1>4, <1>7, <2>1 DEF TypeOK, SlugAccepted
  <1> QED
    BY <1>3, <1>6, <1>7 DEF Saves, Save

-----------------------------------------------------------------------------
(* The inductive invariant                                                   *)

LEMMA InitHolds == Init => IInv
  <1> SUFFICES ASSUME Init PROVE IInv
    OBVIOUS
  <1>1. Created = {} /\ outbox = <<>> /\ DOMAIN outbox = {}
    BY DEF Init, Created
  <1>2. \A p \in Calls : PublishersOf(p) = {}
    BY DEF Init, PublishersOf
  <1>3. TypeOK
    BY <1>1 DEF Init, TypeOK
  <1>4. CallsAreInOrder
    BY DEF Init, CallsAreInOrder
  <1>5. PublisherIsSole
    BY <1>1, <1>2 DEF PublisherIsSole
  <1>6. AnnouncedByPublisher
    BY <1>1, <1>2 DEF AnnouncedByPublisher, Announcements
  <1>7. EventsAreOfProducts /\ LastEventIsContent
    BY <1>1 DEF EventsAreOfProducts, LastEventIsContent
  <1> QED
    BY <1>3, <1>4, <1>5, <1>6, <1>7 DEF IInv

LEMMA StepPreserves == IInv /\ [Next]_vars => IInv'
  <1> SUFFICES ASSUME IInv, [Next]_vars PROVE IInv'
    OBVIOUS
  <1> USE DEF History
  <1>1. TypeOK /\ CallsAreInOrder /\ History
    BY DEF IInv
  <1>2. CASE UNCHANGED vars
    <2>1. /\ pc' = pc /\ request' = request /\ found' = found /\ reply' = reply
          /\ products' = products /\ categories' = categories /\ outbox' = outbox
      BY <1>2 DEF vars
    <2>2. TypeOK' /\ CallsAreInOrder'
      BY <1>1, <2>1 DEF TypeOK, CallsAreInOrder, Created, SlugAccepted
    <2>3. NobodyWins
      BY <2>1 DEF NobodyWins, PublishersOf
    <2>4. History'
      BY <1>1, <2>1, <2>3, QuietStep
    <2> QED
      BY <2>2, <2>4 DEF IInv
  <1>3. CASE Next
    <2> PICK c \in Calls :
          \/ Refuse(c) \/ CreateCategory(c) \/ NotFound(c)
          \/ \E input \in AcceptedInputs : CreateProduct(c, input)
          \/ \E req \in Requests : Find(c, req)
          \/ PublishProduct(c) \/ UpdateProduct(c) \/ Answer(c)
      BY <1>3 DEF Next
    <2>1. CASE \/ Refuse(c) \/ CreateCategory(c) \/ NotFound(c) \/ Answer(c)
               \/ \E req \in Requests : Find(c, req)
               \/ PublishProduct(c) /\ IsPublished(products[found[c]])
      <3>1. TypeOK' /\ CallsAreInOrder'
        BY <1>1, <2>1, CallsStep
      <3>2. NobodyWins /\ products' = products /\ outbox' = outbox
        BY <1>1, <2>1, Kinds
      <3>3. History'
        BY <1>1, <3>2, QuietStep
      <3> QED
        BY <3>1, <3>3 DEF IInv
    <2>2. CASE \E input \in AcceptedInputs : CreateProduct(c, input)
      <3> PICK input \in AcceptedInputs : CreateProduct(c, input)
        BY <2>2
      <3>1. TypeOK' /\ CallsAreInOrder'
        BY <1>1, CreateCalls
      <3>2. /\ NobodyWins /\ outbox' = outbox
            /\ products[c] = NoProduct
            /\ products' = [products EXCEPT ![c] = Draft(input.content)]
        BY <1>1, CreateKind
      <3>3. History'
        BY <1>1, <3>2, CreateStep, AcceptedContent
      <3> QED
        BY <3>1, <3>3 DEF IInv
    <2>3. ASSUME NEW product, NEW kind, Saves(c, found[c], product, kind)
          PROVE  IInv'
      <3>1. found[c] \in Calls
        BY <2>3 DEF Saves, Created
      <3>2. TypeOK' /\ CallsAreInOrder'
        BY <1>1, <2>3, <3>1, SaveCalls
      <3>3. History'
        BY <1>1, <2>3, <3>1, SaveStep
      <3> QED
        BY <3>2, <3>3 DEF IInv
    <2>4. CASE PublishProduct(c) /\ ~ IsPublished(products[found[c]])
      BY <1>1, <2>3, <2>4, PublishSaves
    <2>5. CASE UpdateProduct(c)
      BY <1>1, <2>3, <2>5, UpdateSaves
    <2> QED
      BY <2>1, <2>2, <2>4, <2>5
  <1> QED
    BY <1>2, <1>3

(* Every reachable state satisfies the inductive invariant.                  *)
THEOREM CatalogInvariant == Spec => []IInv
  <1>1. Init => IInv
    BY InitHolds
  <1>2. IInv /\ [Next]_vars => IInv'
    BY StepPreserves
  <1> QED
    BY <1>1, <1>2, PTL DEF Spec

(* Types are kept, and no saved product has a slug that is not lower         *)
(* kebab-case (slug.ts:21-25).                                               *)
THEOREM CatalogTypes == Spec => []TypeOK
  <1>1. IInv => TypeOK
    BY DEF IInv
  <1> QED
    BY <1>1, CatalogInvariant, PTL

(* A reader of the outbox in order ends with a published product's present   *)
(* name and slug, however updates and the publication overlap                *)
(* (product.ts:46-81).                                                       *)
THEOREM EventsEndWithTheContent == Spec => []LastEventIsContent
  <1>1. IInv => LastEventIsContent
    BY DEF IInv
  <1> QED
    BY <1>1, CatalogInvariant, PTL

-----------------------------------------------------------------------------
(* Counting publications                                                     *)

LEMMA OneOrNone == IInv => PublishedOnce
  <1> SUFFICES ASSUME IInv, NEW p \in Created
               PROVE  /\ Cardinality(PublishersOf(p)) = IF IsPublished(products[p]) THEN 1 ELSE 0
                      /\ Cardinality(Announcements(p))
                           = Cardinality({c \in PublishersOf(p) : reply[c] # "rejected"})
    BY DEF PublishedOnce
  <1> DEFINE heard == {c \in PublishersOf(p) : reply[c] # "rejected"}
  <1>1. /\ PublisherIsSole /\ AnnouncedByPublisher
        /\ p \in Calls
    BY DEF IInv, Created
  <1>2. Cardinality({}) = 0 /\ \A x : Cardinality({x}) = 1
    BY FS_EmptySet, FS_Singleton
  <1>3. CASE IsPublished(products[p])
    <2>1. PICK c \in Calls : PublishersOf(p) = {c}
      BY <1>1, <1>3 DEF PublisherIsSole
    <2>2. CASE reply[c] # "rejected"
      <3>1. PICK i \in DOMAIN outbox : Announcements(p) = {i}
        BY <1>1, <2>1, <2>2 DEF AnnouncedByPublisher
      <3>2. heard = {c}
        BY <2>1, <2>2
      <3> QED
        BY <1>2, <1>3, <2>1, <3>1, <3>2
    <2>3. CASE reply[c] = "rejected"
      <3>1. Announcements(p) = {}
        BY <1>1, <2>1, <2>3 DEF AnnouncedByPublisher
      <3>2. heard = {}
        BY <2>1, <2>3
      <3> QED
        BY <1>2, <1>3, <2>1, <3>1, <3>2
    <2> QED
      BY <2>2, <2>3
  <1>4. CASE ~ IsPublished(products[p])
    <2>1. PublishersOf(p) = {}
      BY <1>1, <1>4 DEF PublisherIsSole
    <2>2. Announcements(p) = {} /\ heard = {}
      BY <1>1, <2>1 DEF AnnouncedByPublisher
    <2> QED
      BY <1>2, <1>4, <2>1, <2>2
  <1> QED
    BY <1>3, <1>4

(* Of overlapping publish calls exactly one publishes a product, and         *)
(* product.published is emitted for it once or, if the save failed, never    *)
(* (product.ts:46-57).                                                       *)
THEOREM ProductsArePublishedOnce == Spec => []PublishedOnce
  BY OneOrNone, CatalogInvariant, PTL

-----------------------------------------------------------------------------
(* Publication implements SoleClaim                                          *)

LEMMA WinnersStay ==
    ASSUME NEW p \in Calls, PublishersOf(p)' = PublishersOf(p)
    PROVE  WinnerOf(p)' = WinnerOf(p)
  BY DEF WinnerOf

(* A step in which nobody asks to publish, publishes or is refused.          *)
LEMMA ClaimsStay ==
    ASSUME NobodyWins,
           \A c \in Calls : /\ c \in PublishCalls' <=> c \in PublishCalls
                            /\ c \in PublishCalls => request'[c].product = request[c].product
                            /\ c \in PublishCalls =>
                                  (reply'[c] = "conflict" <=> reply[c] = "conflict")
    PROVE  Aim' = Aim /\ Winner' = Winner /\ Outcome' = Outcome
  <1>1. \A p \in Calls : PublishersOf(p)' = PublishersOf(p)
    BY DEF NobodyWins
  <1>2. Winners' = Winners
    BY <1>1 DEF Winners
  <1>3. Aim' = Aim
    BY DEF Aim
  <1>4. Winner' = Winner
    BY <1>1, WinnersStay DEF Winner
  <1>5. Outcome' = Outcome
    BY <1>2 DEF Outcome
  <1> QED
    BY <1>3, <1>4, <1>5

(* The steps that are no claim.                                              *)
LEMMA NoClaim ==
    ASSUME IInv, NEW c \in Calls,
           \/ Refuse(c) \/ CreateCategory(c) \/ NotFound(c) \/ Answer(c)
           \/ \E input \in AcceptedInputs : CreateProduct(c, input)
           \/ \E req \in Requests : req.op = "update" /\ Find(c, req)
    PROVE  Aim' = Aim /\ Winner' = Winner /\ Outcome' = Outcome
  <1>1. TypeOK /\ CallsAreInOrder
    BY DEF IInv
  <1>2. NobodyWins
    BY <1>1, Kinds, CreateKind
  <1>3. /\ pc \in [Calls -> {"new", "found", "saved", "done"}]
        /\ request \in [Calls -> Requests \cup {NoProduct}]
        /\ reply \in [Calls -> {"none", "ok", "invalid", "notFound", "conflict", "rejected"}]
    BY <1>1, Types
  <1>4. reply[c] = "none" /\ (pc[c] = "new" => request[c] = NoProduct)
    BY <1>1, <1>3 DEF CallsAreInOrder, Refuse, CreateCategory, NotFound, Answer, Find, CreateProduct
  <1>5. \A d \in Calls \ {c} : request'[d] = request[d] /\ reply'[d] = reply[d]
    BY <1>3 DEF Refuse, CreateCategory, NotFound, Answer, Find, CreateProduct, End
  <1>6. /\ reply'[c] # "conflict"
        /\ request'[c] = request[c] \/ (request[c] = NoProduct /\ request'[c].op = "update")
    BY <1>3, <1>4 DEF Refuse, CreateCategory, NotFound, Answer, Find, CreateProduct, End
  <1>7. \A d \in Calls : /\ d \in PublishCalls' <=> d \in PublishCalls
                         /\ d \in PublishCalls => request'[d].product = request[d].product
                         /\ d \in PublishCalls =>
                               (reply'[d] = "conflict" <=> reply[d] = "conflict")
    BY <1>4, <1>5, <1>6 DEF PublishCalls
  <1> QED
    BY <1>2, <1>7, ClaimsStay

(* A publish call that looks its product up asks for it.                     *)
LEMMA FindAsks ==
    ASSUME IInv, NEW c \in Calls, NEW req \in Requests, req.op = "publish", Find(c, req)
    PROVE  Publication!Ask(c, req.product)
  <1>1. TypeOK /\ CallsAreInOrder
    BY DEF IInv
  <1>2. NobodyWins
    BY <1>1, Kinds
  <1>3. /\ request \in [Calls -> Requests \cup {NoProduct}]
        /\ request[c] = NoProduct /\ reply[c] = "none" /\ reply' = reply
        /\ request' = [request EXCEPT ![c] = req]
    BY <1>1, Types DEF CallsAreInOrder, Find
  <1>4. /\ c \notin PublishCalls /\ c \in PublishCalls'
        /\ \A d \in Calls \ {c} : d \in PublishCalls' <=> d \in PublishCalls
        /\ \A d \in Calls \ {c} : request'[d] = request[d]
        /\ request'[c].product = req.product
    BY <1>3, RequestFields DEF PublishCalls
  <1>5. Aim[c] = NoProduct /\ Aim' = [Aim EXCEPT ![c] = req.product]
    BY <1>4 DEF Aim
  <1>6. \A p \in Calls : PublishersOf(p)' = PublishersOf(p)
    BY <1>2 DEF NobodyWins
  <1>7. Winners' = Winners
    BY <1>6 DEF Winners
  <1>8. Winner' = Winner
    BY <1>6, WinnersStay DEF Winner
  <1>9. Outcome' = Outcome
    BY <1>3, <1>4, <1>7 DEF Outcome
  <1> QED
    BY <1>5, <1>8, <1>9 DEF Publication!Ask

(* What holds of a publish call that has found its product.                  *)
LEMMA Asking ==
    ASSUME IInv, NEW c \in Calls, ActsOnProduct(c, "publish")
    PROVE  /\ found[c] \in Calls /\ found[c] \in Created
           /\ Aim[c] = found[c] /\ Outcome[c] = "open"
           /\ c \in PublishCalls /\ c \notin Winners
  <1>1. /\ TypeOK /\ CallsAreInOrder /\ pc[c] = "found" /\ found[c] # NoProduct
        /\ request[c].op = "publish"
    BY DEF IInv, ActsOnProduct
  <1>2. /\ found[c] \in Created /\ request[c] \in Requests /\ found[c] = request[c].product
        /\ reply[c] = "none"
    BY <1>1 DEF CallsAreInOrder
  <1>3. c \in PublishCalls /\ Aim[c] = found[c]
    BY <1>1, <1>2, RequestFields DEF PublishCalls, Aim
  <1>4. c \notin Winners
    BY <1>1, <1>2 DEF Winners, PublishersOf
  <1>5. Outcome[c] = "open"
    BY <1>2, <1>4 DEF Outcome
  <1> QED
    BY <1>2, <1>3, <1>4, <1>5 DEF Created

LEMMA ConflictRefuses ==
    ASSUME IInv, NEW c \in Calls, PublishProduct(c), IsPublished(products[found[c]])
    PROVE  Publication!Refuse(c, found[c])
  <1>1. /\ TypeOK /\ CallsAreInOrder /\ PublisherIsSole
        /\ ActsOnProduct(c, "publish") /\ End(c, "conflict")
    BY DEF IInv, PublishProduct
  <1>2. /\ found[c] \in Calls /\ found[c] \in Created
        /\ Aim[c] = found[c] /\ Outcome[c] = "open"
        /\ c \in PublishCalls /\ c \notin Winners
    BY <1>1, Asking
  <1>3. PICK d \in Calls : PublishersOf(found[c]) = {d}
    BY <1>1, <1>2 DEF PublisherIsSole
  <1>4. Winner[found[c]] # NoProduct
    BY <1>2, <1>3 DEF Winner, WinnerOf, OneOf
  <1>5. NobodyWins
    BY <1>1, Kinds
  <1>6. \A p \in Calls : PublishersOf(p)' = PublishersOf(p)
    BY <1>5 DEF NobodyWins
  <1>7. Winners' = Winners /\ Winner' = Winner
    <2>1. Winner' = Winner
      BY <1>6, WinnersStay DEF Winner
    <2> QED
      BY <1>6, <2>1 DEF Winners
  <1>8. /\ reply \in [Calls -> {"none", "ok", "invalid", "notFound", "conflict", "rejected"}]
        /\ reply' = [reply EXCEPT ![c] = "conflict"]
        /\ request' = request
    BY <1>1, Types DEF End
  <1>9. PublishCalls' = PublishCalls /\ Aim' = Aim
    BY <1>8 DEF PublishCalls, Aim
  <1>10. Outcome' = [Outcome EXCEPT ![c] = "refused"]
    BY <1>2, <1>7, <1>8, <1>9 DEF Outcome
  <1> QED
    BY <1>2, <1>4, <1>7, <1>9, <1>10 DEF Publication!Refuse, Publication!Open

LEMMA PublishWins ==
    ASSUME IInv, NEW c \in Calls, PublishProduct(c), ~ IsPublished(products[found[c]])
    PROVE  Publication!Win(c, found[c])
  <1>1. /\ TypeOK /\ CallsAreInOrder /\ PublisherIsSole
        /\ ActsOnProduct(c, "publish")
    BY DEF IInv, PublishProduct
  <1>2. PICK p \in Calls : p = found[c]
    BY <1>1, Asking
  <1>3. /\ p \in Created
        /\ Aim[c] = p /\ Outcome[c] = "open"
        /\ c \in PublishCalls /\ c \notin Winners
    BY <1>1, <1>2, Asking
  <1>4. PublishersOf(p) = {}
    BY <1>2, <1>3, <1>1 DEF PublisherIsSole
  <1>5. PICK product : Saves(c, p, product, "published")
    BY <1>1, <1>2, PublishSaves
  <1>6. /\ request' = request
        /\ \A d \in Calls \ {c} : reply'[d] = reply[d]
        /\ \A q \in Calls : PublishersOf(q)' =
              IF q = p THEN PublishersOf(q) \cup {c} ELSE PublishersOf(q)
    BY <1>1, <1>5, SaveChange DEF SaveChanges
  <1>7. /\ PublishersOf(p)' = {c}
        /\ \A q \in Calls \ {p} : PublishersOf(q)' = PublishersOf(q)
    BY <1>4, <1>6
  <1>8. Winner[p] = NoProduct /\ Winner' = [Winner EXCEPT ![p] = c]
    <2>1. WinnerOf(p) = NoProduct
      BY <1>4 DEF WinnerOf
    <2>2. OneOf({c}) = c
      BY DEF OneOf
    <2>3. WinnerOf(p)' = c
      BY <1>7, <2>2 DEF WinnerOf
    <2>4. \A q \in Calls \ {p} : WinnerOf(q)' = WinnerOf(q)
      BY <1>7, WinnersStay
    <2>5. Winner[p] = NoProduct
      BY <2>1 DEF Winner
    <2>6. Winner' = [q \in Calls |-> IF q = p THEN c ELSE WinnerOf(q)]
      BY <2>3, <2>4 DEF Winner
    <2>7. Winner' = [Winner EXCEPT ![p] = c]
      BY <2>6 DEF Winner
    <2> QED
      BY <2>5, <2>7
  <1>9. Winners' = Winners \cup {c}
    BY <1>4, <1>7 DEF Winners
  <1>10. PublishCalls' = PublishCalls /\ Aim' = Aim
    BY <1>6 DEF PublishCalls, Aim
  <1>11. Outcome' = [Outcome EXCEPT ![c] = "won"]
    BY <1>3, <1>6, <1>9, <1>10 DEF Outcome
  <1> QED
    BY <1>2, <1>3, <1>8, <1>10, <1>11 DEF Publication!Win, Publication!Open

LEMMA UpdateIsNoClaim ==
    ASSUME IInv, NEW c \in Calls, UpdateProduct(c)
    PROVE  Aim' = Aim /\ Winner' = Winner /\ Outcome' = Outcome
  <1>1. TypeOK /\ CallsAreInOrder /\ ActsOnProduct(c, "update")
    BY DEF IInv, UpdateProduct
  <1>2. PICK p \in Calls : p = found[c]
    BY <1>1, Types DEF ActsOnProduct
  <1>3. PICK product : Saves(c, p, product, "updated")
    BY <1>1, <1>2, UpdateSaves
  <1>4. /\ request' = request
        /\ \A d \in Calls \ {c} : reply'[d] = reply[d]
        /\ \A q \in Calls : PublishersOf(q)' = PublishersOf(q)
    BY <1>1, <1>3, SaveChange DEF SaveChanges
  <1>5. PublishCalls' = PublishCalls /\ Aim' = Aim /\ c \notin PublishCalls
    BY <1>1, <1>4 DEF PublishCalls, Aim, ActsOnProduct
  <1>6. Winners' = Winners /\ Winner' = Winner
    <2>1. Winner' = Winner
      BY <1>4, WinnersStay DEF Winner
    <2> QED
      BY <1>4, <2>1 DEF Winners
  <1>7. Outcome' = Outcome
    BY <1>4, <1>5, <1>6 DEF Outcome
  <1> QED
    BY <1>5, <1>6, <1>7

LEMMA InitClaims == Init => Publication!Init
  <1> SUFFICES ASSUME Init PROVE Publication!Init
    OBVIOUS
  <1>1. \A p \in Calls : PublishersOf(p) = {}
    BY DEF Init, PublishersOf
  <1>2. \A c \in Calls : c \notin PublishCalls /\ c \notin Winners
    BY <1>1 DEF Init, PublishCalls, Winners
  <1> QED
    BY <1>1, <1>2 DEF Publication!Init, Aim, Winner, WinnerOf, Outcome

LEMMA StepClaims == IInv /\ [Next]_vars => [Publication!Next]_(Publication!claims)
  <1> SUFFICES ASSUME IInv, [Next]_vars
               PROVE  Publication!Next \/ UNCHANGED <<Aim, Winner, Outcome>>
    BY DEF Publication!claims
  <1>1. CASE UNCHANGED vars
    <2>1. request' = request /\ reply' = reply /\ pc' = pc
      BY <1>1 DEF vars
    <2> QED
      BY <2>1 DEF Aim, Winner, WinnerOf, Outcome, Winners, PublishersOf, PublishCalls
  <1>2. CASE Next
    <2> PICK c \in Calls :
          \/ Refuse(c) \/ CreateCategory(c) \/ NotFound(c)
          \/ \E input \in AcceptedInputs : CreateProduct(c, input)
          \/ \E req \in Requests : Find(c, req)
          \/ PublishProduct(c) \/ UpdateProduct(c) \/ Answer(c)
      BY <1>2 DEF Next
    <2>1. CASE \/ Refuse(c) \/ CreateCategory(c) \/ NotFound(c) \/ Answer(c)
               \/ \E input \in AcceptedInputs : CreateProduct(c, input)
               \/ \E req \in Requests : req.op = "update" /\ Find(c, req)
      BY <2>1, NoClaim
    <2>2. CASE \E req \in Requests : req.op = "publish" /\ Find(c, req)
      <3>1. PICK req \in Requests : req.op = "publish" /\ Find(c, req)
        BY <2>2
      <3> QED
        BY <3>1, FindAsks, RequestFields DEF Publication!Next
    <2>3. CASE PublishProduct(c)
      <3>1. found[c] \in Calls
        BY <2>3, Asking DEF PublishProduct
      <3> QED
        BY <2>3, <3>1, ConflictRefuses, PublishWins DEF Publication!Next
    <2>4. CASE UpdateProduct(c)
      BY <2>4, UpdateIsNoClaim
    <2> QED
      BY <2>1, <2>2, <2>3, <2>4, RequestFields
  <1> QED
    BY <1>1, <1>2

(* Publishing is a claim that one call wins for good: a published product    *)
(* stays published, and "already published" is answered only to a call that  *)
(* another one has beaten (product.ts:46-57).                                *)
THEOREM PublicationImplementsSoleClaim == Spec => PublicationIsSoleClaim
  <1>1. Init => Publication!Init
    BY InitClaims
  <1>2. IInv /\ [Next]_vars => [Publication!Next]_(Publication!claims)
    BY StepClaims
  <1> QED
    BY <1>1, <1>2, CatalogInvariant, PTL DEF Spec, PublicationIsSoleClaim, Publication!Spec
=============================================================================
