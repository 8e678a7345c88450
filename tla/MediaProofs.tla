----------------------------- MODULE MediaProofs -----------------------------
(***************************************************************************)
(* Proofs about Media: whatever drains overlap, the sink meets the entries *)
(* of the outbox in order, and none is marked before it was given to it.   *)
(***************************************************************************)
EXTENDS Media, FiniteSets, FiniteSetTheorems, TLAPS

USE MediaAssumption

-----------------------------------------------------------------------------
(* Facts about the definitions                                              *)

(* The wiring subscribes the sink to the one topic there is.                *)
LEMMA EverythingIsRouted == \A p : RoutedToSink(p)
  BY DEF RoutedToSink, TopicOf, SinkTopics

(* SinkRelay counts with the same operator.                                 *)
LEMMA SinkCardinality == \A S : Sink!Cardinality(S) = Cardinality(S)
  BY Zenon DEF Sink!Cardinality, Cardinality

(* What fetchPending returns has nothing pending before it.                 *)
LEMMA OldestPendingIsPrefix ==
    ASSUME TypeOK
    PROVE  /\ Sink!OldestPending(BatchSize) \subseteq Sink!Pending
           /\ \A p \in Sink!OldestPending(BatchSize), q \in Sink!Pending :
                 q < p => q \in Sink!OldestPending(BatchSize)
  <1>1. Sink!OldestPending(BatchSize) \subseteq Sink!Pending
    BY DEF Sink!OldestPending
  <1>2. ASSUME NEW p \in Sink!OldestPending(BatchSize), NEW q \in Sink!Pending, q < p
        PROVE  q \in Sink!OldestPending(BatchSize)
    <2> DEFINE Before(n) == {x \in Sink!Pending : x < n}
    <2>1. PICK n \in Nat : DOMAIN outbox = 1..n
      BY DEF TypeOK
    <2>2. p \in Nat /\ q \in Nat /\ Sink!Pending \subseteq 1..n
      BY <1>1, <2>1 DEF Sink!Pending, Sink!Entries
    <2>3. IsFiniteSet(Before(p))
      <3>1. IsFiniteSet(1..n) /\ Before(p) \subseteq 1..n
        <4>1. IsFiniteSet(1..n)
          BY FS_Interval
        <4> QED
          BY <2>2, <4>1
      <3> QED
        BY <3>1, FS_Subset
    <2>4. Before(q) \subseteq Before(p)
      <3>1. ASSUME NEW x \in Sink!Pending, x < q PROVE x < p
        BY <1>2, <2>2, <3>1
      <3> QED
        BY <3>1
    <2>5. IsFiniteSet(Before(q)) /\ Cardinality(Before(q)) <= Cardinality(Before(p))
      BY <2>3, <2>4, FS_Subset
    <2>6. Cardinality(Before(p)) \in Nat /\ Cardinality(Before(q)) \in Nat
      BY <2>3, <2>5, FS_CardinalityType
    <2>7. Cardinality(Before(p)) < BatchSize
      BY SinkCardinality DEF Sink!OldestPending
    <2>8. Cardinality(Before(q)) < BatchSize
      BY <2>5, <2>6, <2>7
    <2> QED
      BY <2>8, SinkCardinality DEF Sink!OldestPending
  <1> QED
    BY <1>1, <1>2

-----------------------------------------------------------------------------
(* The steps                                                                *)

LEMMA InitIInv == Init => IInv
  BY DEF Init, Sink!RelayInit, IInv, TypeOK, Sink!RelayTypeOK, Sink!Entries, BatchIsOldest,
     OwedOrGiven, TodoIsOfBatch, FirstDeliveriesInOrder

(* A use case appends to the outbox what no relay has seen.                 *)
LEMMA UseCaseKeepsIInv ==
    ASSUME IInv, NEW c \in Calls, UseCaseStep(c)
    PROVE  IInv'
  <1>1. /\ UNCHANGED relayVars
        /\ \/ outbox' = outbox
           \/ \E a \in Asset : outbox' = Append(outbox, AssetReady(c, a))
    BY DEF UseCaseStep, Refuse, Answer, RegisterAsset, Save, Registered, Valid, KeyAccepted,
       TypeAccepted, Inputs, Asset
  <1>2. /\ pc' \in [Calls -> {"new", "saved", "done"}]
        /\ reply' \in [Calls -> {"none", "created", "invalid", "rejected"}]
        /\ assets' \in [Calls -> Asset \cup {NoAsset}]
    <2>1. CASE Refuse(c) \/ Answer(c)
      BY <2>1 DEF IInv, TypeOK, Refuse, Answer, End
    <2>2. ASSUME NEW input \in Inputs, RegisterAsset(c, input)
          PROVE  /\ pc' \in [Calls -> {"new", "saved", "done"}]
                 /\ reply' \in [Calls -> {"none", "created", "invalid", "rejected"}]
                 /\ assets' \in [Calls -> Asset \cup {NoAsset}]
      <3>1. Registered(input) \in Asset
        BY <2>2 DEF RegisterAsset, Registered, Valid, KeyAccepted, TypeAccepted, Inputs, Asset
      <3>2. assets' = [assets EXCEPT ![c] = Registered(input)]
        BY <2>2 DEF RegisterAsset, Save
      <3>3. \/ pc' = [pc EXCEPT ![c] = "saved"] /\ reply' = reply
            \/ /\ pc' = [pc EXCEPT ![c] = "done"]
               /\ reply' = [reply EXCEPT ![c] = "rejected"]
        BY <2>2 DEF RegisterAsset, Save, End
      <3>4. CASE pc' = [pc EXCEPT ![c] = "saved"] /\ reply' = reply
        BY <3>1, <3>2, <3>4 DEF IInv, TypeOK
      <3>5. CASE /\ pc' = [pc EXCEPT ![c] = "done"]
                 /\ reply' = [reply EXCEPT ![c] = "rejected"]
        BY <3>1, <3>2, <3>5 DEF IInv, TypeOK
      <3> QED
        BY <3>3, <3>4, <3>5
    <2> QED
      BY <2>1, <2>2 DEF UseCaseStep
  <1>3. PICK n \in Nat : n = Len(outbox) /\ DOMAIN outbox = 1..n
    BY DEF IInv, TypeOK
  <1>4. /\ outbox' \in Seq([asset : Calls, data : Asset])
        /\ DOMAIN outbox' = 1..n \/ DOMAIN outbox' = 1..(n + 1)
    <2>1. \A a \in Asset : AssetReady(c, a) \in [asset : Calls, data : Asset]
      BY DEF AssetReady
    <2>2. CASE outbox' = outbox
      BY <1>3, <2>2 DEF IInv, TypeOK
    <2>3. ASSUME NEW e \in [asset : Calls, data : Asset], outbox' = Append(outbox, e)
          PROVE  outbox' \in Seq([asset : Calls, data : Asset]) /\ DOMAIN outbox' = 1..(n + 1)
      BY <1>3, <2>3 DEF IInv, TypeOK
    <2> QED
      BY <1>1, <2>1, <2>2, <2>3
  <1>5. DOMAIN outbox \subseteq DOMAIN outbox'
    BY <1>3, <1>4
  <1>6. TypeOK'
    <2>1. \A S : S \subseteq DOMAIN outbox => S \subseteq DOMAIN outbox'
      BY <1>5
    <2>2. /\ published' \subseteq DOMAIN outbox'
          /\ batch' \in [Relays -> SUBSET DOMAIN outbox']
          /\ todo' \in [Relays -> SUBSET DOMAIN outbox']
          /\ delivered' \in Seq(DOMAIN outbox')
      BY <1>1, <1>5, <2>1 DEF IInv, TypeOK, relayVars, Sink!RelayTypeOK, Sink!Entries
    <2> QED
      BY <1>2, <1>4, <2>2 DEF TypeOK, Sink!RelayTypeOK, Sink!Entries
  <1>7. BatchIsOldest'
    <2> SUFFICES ASSUME NEW r \in Relays, NEW p \in batch[r], NEW q \in DOMAIN outbox', q < p
                 PROVE  q \in batch[r] \/ q \in published
      BY <1>1 DEF BatchIsOldest, relayVars
    <2>1. p \in DOMAIN outbox
      BY DEF IInv, TypeOK, Sink!RelayTypeOK, Sink!Entries
    <2>2. q \in DOMAIN outbox
      BY <1>3, <1>4, <2>1
    <2> QED
      BY <2>2 DEF IInv, BatchIsOldest
  <1>8. OwedOrGiven' /\ TodoIsOfBatch' /\ FirstDeliveriesInOrder'
    BY <1>1 DEF IInv, OwedOrGiven, TodoIsOfBatch, FirstDeliveriesInOrder, Given, relayVars
  <1> QED
    BY <1>6, <1>7, <1>8 DEF IInv

(* A relay steps.                                                           *)
LEMMA DrainKeepsIInv ==
    ASSUME IInv, NEW r \in Relays, DrainStep(r)
    PROVE  IInv'
  <1>t. /\ TypeOK
        /\ published \subseteq DOMAIN outbox
        /\ batch \in [Relays -> SUBSET DOMAIN outbox]
        /\ todo \in [Relays -> SUBSET DOMAIN outbox]
        /\ delivered \in Seq(DOMAIN outbox)
    BY DEF IInv, TypeOK, Sink!RelayTypeOK, Sink!Entries
  <1>o. outbox' = outbox /\ UNCHANGED callVars
    BY DEF DrainStep, Sink!Drain, Sink!FetchPending, Sink!DeliverNext, Sink!MarkPublished
  <1>s. ASSUME published' \subseteq DOMAIN outbox,
               batch' \in [Relays -> SUBSET DOMAIN outbox],
               todo' \in [Relays -> SUBSET DOMAIN outbox],
               delivered' \in Seq(DOMAIN outbox)
        PROVE  TypeOK'
    BY <1>o, <1>s, <1>t DEF TypeOK, Sink!RelayTypeOK, Sink!Entries, callVars
  <1>1. CASE Sink!FetchPending(r)
    <2> DEFINE fetched == Sink!OldestPending(BatchSize)
    <2>1. /\ batch' = [batch EXCEPT ![r] = fetched] /\ todo' = [todo EXCEPT ![r] = fetched]
          /\ UNCHANGED <<published, delivered>>
      BY <1>1, EverythingIsRouted DEF Sink!FetchPending
    <2>2. /\ fetched \subseteq DOMAIN outbox
          /\ \A p \in fetched, q \in DOMAIN outbox : q < p => q \in fetched \/ q \in published
      BY <1>t, OldestPendingIsPrefix DEF Sink!Pending, Sink!Entries
    <2> HIDE DEF fetched
    <2>3. TypeOK'
      BY <1>s, <1>t, <2>1, <2>2
    <2>4. \A x \in Relays : \/ batch'[x] = batch[x] /\ todo'[x] = todo[x]
                            \/ batch'[x] = fetched /\ todo'[x] = fetched
      BY <1>t, <2>1
    <2>5. BatchIsOldest'
      BY <1>o, <2>1, <2>2, <2>4 DEF IInv, BatchIsOldest
    <2>6. OwedOrGiven' /\ TodoIsOfBatch'
      BY <2>1, <2>4 DEF IInv, OwedOrGiven, TodoIsOfBatch, Given
    <2>7. FirstDeliveriesInOrder'
      BY <2>1 DEF IInv, FirstDeliveriesInOrder
    <2> QED
      BY <2>3, <2>5, <2>6, <2>7 DEF IInv
  <1>2. CASE Sink!DeliverNext(r)
    <2>1. PICK p \in todo[r] :
             /\ \A q \in todo[r] : p <= q
             /\ delivered' = Append(delivered, p)
             /\ todo' = [todo EXCEPT ![r] = @ \ {p}]
             /\ UNCHANGED <<published, batch>>
      BY <1>2 DEF Sink!DeliverNext
    <2>2. PICK n \in Nat : n = Len(delivered) /\ DOMAIN delivered = 1..n
      BY <1>t
    <2>3. p \in DOMAIN outbox /\ p \in Nat /\ p \in batch[r]
      BY <1>t DEF IInv, TodoIsOfBatch, TypeOK
    <2>4. /\ DOMAIN delivered' = 1..(n + 1) /\ Len(delivered') = n + 1
          /\ \A i \in 1..n : delivered'[i] = delivered[i]
          /\ delivered'[n + 1] = p
      BY <1>t, <2>1, <2>2, <2>3
    <2>5. Given \cup {p} \subseteq Given'
      BY <2>2, <2>4 DEF Given
    <2>6. TypeOK'
      <3>1. delivered' \in Seq(DOMAIN outbox)
        BY <1>t, <2>1, <2>3
      <3> QED
        BY <1>s, <1>t, <2>1, <3>1
    <2>7. BatchIsOldest'
      BY <1>o, <2>1 DEF IInv, BatchIsOldest
    <2>8. OwedOrGiven'
      <3> SUFFICES ASSUME NEW x \in Relays, NEW q \in batch[x]
                   PROVE  q \in todo'[x] \/ q \in Given'
        BY <2>1 DEF OwedOrGiven
      <3>1. q \in todo[x] => q \in todo'[x] \/ q = p
        BY <1>t, <2>1
      <3> QED
        BY <2>5, <3>1 DEF IInv, OwedOrGiven
    <2>9. TodoIsOfBatch'
      BY <1>t, <2>1 DEF IInv, TodoIsOfBatch
    <2>10. ASSUME NEW q \in 1..p
           PROVE  \E j \in 1..(n + 1) : delivered'[j] = q
      <3>1. CASE q = p
        BY <2>4, <3>1
      <3>2. CASE q # p
        <4>1. q < p /\ q \in DOMAIN outbox
          <5>1. PICK m \in Nat : DOMAIN outbox = 1..m
            BY <1>t DEF TypeOK
          <5> QED
            BY <2>3, <3>2, <5>1
        <4>2. q \notin todo[r]
          BY <2>1, <2>3, <4>1
        <4>3. q \in batch[r] \/ q \in published
          BY <2>3, <4>1 DEF IInv, BatchIsOldest
        <4>4. \E j \in 1..n : delivered[j] = q
          <5>1. CASE q \in batch[r]
            BY <2>2, <4>2, <5>1 DEF IInv, OwedOrGiven, Given
          <5>2. CASE q \in published
            BY <2>2, <5>2 DEF IInv, FirstDeliveriesInOrder
          <5> QED
            BY <4>3, <5>1, <5>2
        <4> QED
          BY <2>4, <4>4
      <3> QED
        BY <3>1, <3>2
    <2>11. FirstDeliveriesInOrder'
      <3>1. ASSUME NEW i \in DOMAIN delivered', NEW q \in 1..delivered'[i]
            PROVE  \E j \in 1..i : delivered'[j] = q
        <4>1. CASE i = n + 1
          BY <2>4, <2>10, <4>1
        <4>2. CASE i # n + 1
          <5>1. i \in 1..n /\ delivered'[i] = delivered[i]
            BY <2>4, <4>2
          <5>2. \E j \in 1..i : delivered[j] = q
            BY <2>2, <5>1 DEF IInv, FirstDeliveriesInOrder
          <5> QED
            BY <2>4, <5>1, <5>2
        <4> QED
          BY <4>1, <4>2
      <3>2. ASSUME NEW q \in published'
            PROVE  \E j \in 1..Len(delivered') : delivered'[j] = q
        <4>1. \E j \in 1..n : delivered[j] = q
          BY <2>1, <2>2 DEF IInv, FirstDeliveriesInOrder
        <4> QED
          BY <2>4, <4>1
      <3> QED
        BY <3>1, <3>2 DEF FirstDeliveriesInOrder
    <2> QED
      BY <2>6, <2>7, <2>8, <2>9, <2>11 DEF IInv
  <1>3. CASE Sink!MarkPublished(r)
    <2>1. /\ todo[r] = {} /\ published' = published \cup batch[r]
          /\ batch' = [batch EXCEPT ![r] = {}]
          /\ UNCHANGED <<todo, delivered>>
      BY <1>3 DEF Sink!MarkPublished
    <2>2. \A x \in Relays : batch'[x] = batch[x] \/ (batch'[x] = {} /\ x = r)
      BY <1>t, <2>1
    <2>3. TypeOK'
      BY <1>s, <1>t, <2>1
    <2>4. BatchIsOldest'
      BY <1>o, <2>1, <2>2 DEF IInv, BatchIsOldest
    <2>5. OwedOrGiven' /\ TodoIsOfBatch'
      BY <2>1, <2>2 DEF IInv, OwedOrGiven, TodoIsOfBatch, Given
    <2>6. ASSUME NEW p \in published'
          PROVE  \E j \in 1..Len(delivered) : delivered[j] = p
      <3>1. CASE p \in published
        BY <3>1 DEF IInv, FirstDeliveriesInOrder
      <3>2. CASE p \in batch[r]
        <4>1. p \in Given
          BY <2>1, <3>2 DEF IInv, OwedOrGiven
        <4>2. DOMAIN delivered = 1..Len(delivered)
          BY <1>t
        <4> QED
          BY <4>1, <4>2 DEF Given
      <3> QED
        BY <2>1, <3>1, <3>2
    <2>7. FirstDeliveriesInOrder'
      BY <2>1, <2>6 DEF IInv, FirstDeliveriesInOrder
    <2> QED
      BY <2>3, <2>4, <2>5, <2>7 DEF IInv
  <1> QED
    BY <1>1, <1>2, <1>3 DEF DrainStep, Sink!Drain

LEMMA StepIInv == IInv /\ [Next]_vars => IInv'
  <1> SUFFICES ASSUME IInv, [Next]_vars PROVE IInv'
    OBVIOUS
  <1>1. CASE UNCHANGED vars
    BY <1>1 DEF vars, callVars, relayVars, IInv, TypeOK, Sink!RelayTypeOK, Sink!Entries,
       BatchIsOldest, OwedOrGiven, TodoIsOfBatch, Given, FirstDeliveriesInOrder
  <1>2. ASSUME NEW c \in Calls, UseCaseStep(c) PROVE IInv'
    BY <1>2, UseCaseKeepsIInv
  <1>3. ASSUME NEW r \in Relays, DrainStep(r) PROVE IInv'
    BY <1>3, DrainKeepsIInv
  <1> QED
    BY <1>1, <1>2, <1>3 DEF Next

-----------------------------------------------------------------------------
(* The promise of AtLeastOnceDelivery                                       *)

(* A use case leaves the outbox alone, or appends the event of a call that  *)
(* had none.                                                                *)
LEMMA UseCaseAppends ==
    ASSUME IInv, NEW c \in Calls, UseCaseStep(c)
    PROVE  /\ UNCHANGED relayVars
           /\ pc' \in [Calls -> {"new", "saved", "done"}]
           /\ pc'[c] # "new" /\ \A d \in Calls \ {c} : pc'[d] = pc[d]
           /\ \/ outbox' = outbox
              \/ pc[c] = "new" /\ \E a \in Asset : outbox' = Append(outbox, AssetReady(c, a))
  <1>t. pc \in [Calls -> {"new", "saved", "done"}]
    BY DEF IInv, TypeOK
  <1>1. CASE Refuse(c) \/ Answer(c)
    BY <1>1, <1>t DEF UseCaseStep, Refuse, Answer, End
  <1>2. ASSUME NEW input \in Inputs, RegisterAsset(c, input)
        PROVE  /\ pc[c] = "new"
               /\ \/ pc' = [pc EXCEPT ![c] = "saved"]
                  \/ pc' = [pc EXCEPT ![c] = "done"]
               /\ \/ outbox' = outbox
                  \/ \E a \in Asset : outbox' = Append(outbox, AssetReady(c, a))
    <2>1. Registered(input) \in Asset
      BY <1>2 DEF RegisterAsset, Registered, Valid, KeyAccepted, TypeAccepted, Inputs, Asset
    <2> QED
      BY <1>2, <2>1 DEF RegisterAsset, Save, End
  <1> QED
    BY <1>t, <1>1, <1>2 DEF UseCaseStep

(* Each event is of a call.                                                 *)
LEMMA EventTypes ==
    ASSUME TypeOK
    PROVE  \A p \in DOMAIN outbox : outbox[p].asset \in Calls
  <1> DEFINE E == [asset : Calls, data : Asset]
  <1>1. outbox \in Seq(E)
    BY DEF TypeOK
  <1>2. \A e \in E : e.asset \in Calls
    OBVIOUS
  <1> HIDE DEF E
  <1>3. \A p \in DOMAIN outbox : outbox[p] \in E
    <2>1. DOMAIN outbox = 1..Len(outbox)
      BY <1>1
    <2> QED
      BY <1>1, <2>1
  <1> QED
    BY <1>2, <1>3

LEMMA StepEventsAreOfPast == IInv /\ EventsAreOfPast /\ [Next]_vars => EventsAreOfPast'
  <1> SUFFICES ASSUME IInv, EventsAreOfPast, [Next]_vars PROVE EventsAreOfPast'
    OBVIOUS
  <1>1. ASSUME NEW c \in Calls, UseCaseStep(c) PROVE EventsAreOfPast'
    <2> SUFFICES ASSUME NEW p \in DOMAIN outbox' PROVE pc'[outbox'[p].asset] # "new"
      BY DEF EventsAreOfPast
    <2>1. /\ pc'[c] # "new" /\ \A d \in Calls \ {c} : pc'[d] = pc[d]
          /\ \/ outbox' = outbox
             \/ \E a \in Asset : outbox' = Append(outbox, AssetReady(c, a))
      BY <1>1, UseCaseAppends
    <2>2. \A q \in DOMAIN outbox : outbox[q].asset \in Calls
      BY EventTypes DEF IInv
    <2>3. CASE p \in DOMAIN outbox /\ outbox'[p] = outbox[p]
      BY <2>1, <2>2, <2>3 DEF EventsAreOfPast
    <2>4. CASE ~(p \in DOMAIN outbox /\ outbox'[p] = outbox[p])
      <3>1. PICK a \in Asset : outbox' = Append(outbox, AssetReady(c, a))
        BY <2>1, <2>4
      <3>2. PICK n \in Nat : n = Len(outbox) /\ DOMAIN outbox = 1..n
        BY DEF IInv, TypeOK
      <3>3. /\ DOMAIN outbox' = 1..(n + 1)
            /\ \A q \in 1..n : outbox'[q] = outbox[q]
            /\ outbox'[n + 1] = AssetReady(c, a)
        <4>1. AssetReady(c, a) \in [asset : Calls, data : Asset]
          BY DEF AssetReady
        <4>2. outbox \in Seq([asset : Calls, data : Asset])
          BY DEF IInv, TypeOK
        <4> HIDE DEF AssetReady
        <4> QED
          BY <3>1, <3>2, <4>1, <4>2
      <3>4. p = n + 1
        BY <2>4, <3>2, <3>3
      <3> QED
        BY <2>1, <3>3, <3>4 DEF AssetReady
    <2> QED
      BY <2>3, <2>4
  <1>2. CASE UNCHANGED <<callVars, outbox>>
    BY <1>2 DEF EventsAreOfPast, callVars
  <1>3. ASSUME NEW r \in Relays, DrainStep(r) PROVE UNCHANGED <<callVars, outbox>>
    BY <1>3 DEF DrainStep, Sink!Drain, Sink!FetchPending, Sink!DeliverNext, Sink!MarkPublished
  <1> QED
    BY <1>1, <1>2, <1>3 DEF Next, vars

(* Before an entry is given to the sink, the earlier ones have been.        *)
LEMMA DeliveryFacts ==
    ASSUME IInv, NEW r \in Relays, NEW p \in todo[r], \A q \in todo[r] : p <= q
    PROVE  /\ p \in DOMAIN outbox
           /\ \A q \in DOMAIN outbox : q < p => q \in Given
  <1>1. /\ p \in DOMAIN outbox /\ p \in batch[r]
        /\ published \subseteq DOMAIN outbox
        /\ delivered \in Seq(DOMAIN outbox)
    BY DEF IInv, TypeOK, Sink!RelayTypeOK, Sink!Entries, TodoIsOfBatch
  <1>2. PICK n \in Nat : DOMAIN outbox = 1..n
    BY DEF IInv, TypeOK
  <1>3. ASSUME NEW q \in DOMAIN outbox, q < p PROVE q \in Given
    <2>1. q \notin todo[r]
      BY <1>1, <1>2, <1>3
    <2>2. CASE q \in batch[r]
      BY <2>1, <2>2 DEF IInv, OwedOrGiven
    <2>3. CASE q \in published
      <3>1. \E j \in 1..Len(delivered) : delivered[j] = q
        BY <2>3 DEF IInv, FirstDeliveriesInOrder
      <3>2. DOMAIN delivered = 1..Len(delivered)
        BY <1>1
      <3> QED
        BY <3>1, <3>2 DEF Given
    <2> QED
      BY <1>1, <1>3, <2>2, <2>3 DEF IInv, BatchIsOldest
  <1> QED
    BY <1>1, <1>3

-----------------------------------------------------------------------------
(* The theorems                                                             *)

(* The inductive invariant holds in every reachable state.                  *)
THEOREM MediaInvariant == Spec => []IInv
  BY InitIInv, StepIInv, PTL DEF Spec

(* The media service's variables always have their types; in particular no  *)
(* blank key or malformed content type is ever kept (storage-key.ts,        *)
(* content-type.ts).                                                        *)
THEOREM MediaTypes == Spec => []TypeOK
  <1>1. IInv => TypeOK
    BY DEF IInv
  <1> QED
    BY <1>1, MediaInvariant, PTL

(* However many drains overlap, the sink is given each entry for the first  *)
(* time in outbox order, and before it is marked (outbox-relay.ts:28-39).   *)
THEOREM TheSinkMeetsThemInOrder == Spec => []FirstDeliveriesInOrder
  <1>1. IInv => FirstDeliveriesInOrder
    BY DEF IInv
  <1> QED
    BY <1>1, MediaInvariant, PTL

(* Registering, relaying and the bare sink together implement               *)
(* AtLeastOnceDelivery, for any number of calls and overlapping drains: what*)
(* is marked published was given to the sink, and the sink meets the events *)
(* in outbox order (outbox-relay.ts:29-38, in-memory-bus.ts:7-8).           *)
THEOREM MediaImplementsDelivery == Spec => ImplementsDelivery
  <1> DEFINE sent == [p \in DOMAIN outbox |-> outbox[p].asset]
             settled == [s \in {"sink"} |-> AssetsOf(Given)]
  <1>1. Init => Delivery!Init /\ EventsAreOfPast
    BY DEF Init, Sink!RelayInit, Delivery!Init, EventsAreOfPast, AssetsOf, Given
  <1>2. ASSUME IInv, EventsAreOfPast, [Next]_vars
        PROVE  [Delivery!Next]_(Delivery!deliveryVars)
    <2>0. CASE UNCHANGED <<outbox, published, delivered>>
      BY <2>0 DEF Delivery!deliveryVars, AssetsOf, Given
    <2>1. ASSUME NEW c \in Calls, UseCaseStep(c)
          PROVE  [Delivery!Next]_(Delivery!deliveryVars)
      <3>1. UNCHANGED <<published, delivered>>
        BY <2>1, <1>2, UseCaseAppends DEF relayVars
      <3>2. CASE outbox' = outbox
        BY <2>0, <3>1, <3>2
      <3>3. CASE outbox' # outbox
        <4>1. PICK a \in Asset : outbox' = Append(outbox, AssetReady(c, a))
          BY <1>2, <2>1, <3>3, UseCaseAppends
        <4>2. pc[c] = "new"
          BY <1>2, <2>1, <3>3, UseCaseAppends
        <4>3. PICK n \in Nat : n = Len(outbox) /\ DOMAIN outbox = 1..n
          BY <1>2 DEF IInv, TypeOK
        <4>4. /\ DOMAIN outbox' = 1..(n + 1)
              /\ \A p \in 1..n : outbox'[p] = outbox[p]
              /\ outbox'[n + 1].asset = c
          <5>1. AssetReady(c, a) \in [asset : Calls, data : Asset] /\ AssetReady(c, a).asset = c
            BY DEF AssetReady
          <5>2. outbox \in Seq([asset : Calls, data : Asset])
            BY <1>2 DEF IInv, TypeOK
          <5> QED
            BY <4>1, <4>3, <5>1, <5>2
        <4>5. published \subseteq 1..n /\ Given \subseteq 1..n
          BY <1>2, <4>3 DEF IInv, TypeOK, Sink!RelayTypeOK, Sink!Entries, Given
        <4>6. sent \in Seq(Calls) /\ Len(sent) = n /\ DOMAIN sent = 1..n
          <5>1. \A p \in 1..n : outbox[p].asset \in Calls
            BY <1>2, <4>3, EventTypes DEF IInv
          <5> QED
            BY <4>3, <5>1
        <4>7. sent' = Append(sent, c)
          <5>1. DOMAIN sent' = 1..(n + 1) /\ DOMAIN Append(sent, c) = 1..(n + 1)
            BY <4>4, <4>6
          <5>2. ASSUME NEW p \in 1..(n + 1) PROVE sent'[p] = Append(sent, c)[p]
            <6>1. CASE p = n + 1
              BY <4>4, <4>6, <6>1
            <6>2. CASE p \in 1..n
              BY <4>3, <4>4, <4>6, <6>2
            <6>3. p = n + 1 \/ p \in 1..n
              BY <4>3
            <6> QED
              BY <6>1, <6>2, <6>3
          <5>3. sent' = [p \in 1..(n + 1) |-> sent'[p]]
            BY <5>1
          <5>4. Append(sent, c) = [p \in 1..(n + 1) |-> Append(sent, c)[p]]
            BY <4>6, <5>1
          <5> QED
            BY <5>2, <5>3, <5>4
        <4>8. c \notin Delivery!SentEvents
          BY <1>2, <4>2 DEF EventsAreOfPast, Delivery!SentEvents
        <4>9. settled' = settled /\ AssetsOf(published)' = AssetsOf(published)
          BY <3>1, <4>4, <4>5 DEF AssetsOf, Given
        <4>10. Delivery!Send(c)
          BY <4>7, <4>8, <4>9 DEF Delivery!Send
        <4> QED
          BY <4>10 DEF Delivery!Next
      <3> QED
        BY <3>2, <3>3
    <2>2. ASSUME NEW r \in Relays, Sink!DeliverNext(r)
          PROVE  [Delivery!Next]_(Delivery!deliveryVars)
      <3>1. PICK p \in todo[r] :
               /\ \A q \in todo[r] : p <= q
               /\ delivered' = Append(delivered, p)
               /\ UNCHANGED <<outbox, published>>
        BY <2>2 DEF Sink!DeliverNext
      <3>2. /\ p \in DOMAIN outbox
            /\ \A q \in DOMAIN outbox : q < p => q \in Given
        BY <1>2, <3>1, DeliveryFacts
      <3>3. Given' = Given \cup {p}
        <4>1. delivered \in Seq(DOMAIN outbox)
          BY <1>2 DEF IInv, TypeOK, Sink!RelayTypeOK, Sink!Entries
        <4>2. PICK n \in Nat : n = Len(delivered) /\ DOMAIN delivered = 1..n
          BY <4>1
        <4>3. /\ DOMAIN delivered' = 1..(n + 1)
              /\ \A i \in 1..n : delivered'[i] = delivered[i]
              /\ delivered'[n + 1] = p
          BY <3>1, <3>2, <4>1, <4>2
        <4> QED
          BY <4>2, <4>3 DEF Given
      <3>4. AssetsOf(Given)' = AssetsOf(Given) \cup {outbox[p].asset}
        BY <3>1, <3>3 DEF AssetsOf
      <3>5. UNCHANGED <<sent, AssetsOf(published)>>
        BY <3>1 DEF AssetsOf
      <3>6. CASE outbox[p].asset \in AssetsOf(Given)
        <4>1. settled' = settled
          BY <3>4, <3>6
        <4> QED
          BY <3>5, <4>1 DEF Delivery!deliveryVars
      <3>7. CASE outbox[p].asset \notin AssetsOf(Given)
        <4>1. /\ sent[p] = outbox[p].asset /\ sent[p] \in Calls
              /\ DOMAIN sent = DOMAIN outbox
          BY <1>2, <3>2, EventTypes DEF IInv
        <4>2. \A j \in DOMAIN sent : j < p => sent[j] \in settled["sink"]
          BY <3>2 DEF AssetsOf
        <4>3. settled' = [settled EXCEPT !["sink"] = @ \cup {sent[p]}]
          BY <3>4, <4>1
        <4>4. Delivery!Settle("sink", p)
          BY <3>5, <3>7, <4>1, <4>2, <4>3 DEF Delivery!Settle
        <4> QED
          BY <3>2, <4>1, <4>4 DEF Delivery!Next
      <3> QED
        BY <3>6, <3>7
    <2>3. ASSUME NEW r \in Relays, Sink!MarkPublished(r)
          PROVE  [Delivery!Next]_(Delivery!deliveryVars)
      <3>1. /\ todo[r] = {} /\ published' = published \cup batch[r]
            /\ UNCHANGED <<outbox, delivered>>
        BY <2>3 DEF Sink!MarkPublished
      <3>2. batch[r] \subseteq Given
        BY <1>2, <3>1 DEF IInv, OwedOrGiven
      <3>3. \A p \in batch[r] : p \in DOMAIN outbox /\ outbox[p].asset \in Calls
        <4>1. \A p \in batch[r] : p \in DOMAIN outbox
          BY <1>2 DEF IInv, TypeOK, Sink!RelayTypeOK, Sink!Entries
        <4> QED
          BY <1>2, <4>1, EventTypes DEF IInv
      <3>4. settled' = settled /\ sent' = sent
        BY <3>1 DEF AssetsOf, Given
      <3>5. AssetsOf(published)' = AssetsOf(published) \cup AssetsOf(batch[r])
        BY <3>1 DEF AssetsOf
      <3>6. AssetsOf(batch[r]) \in SUBSET Delivery!SentEvents
        BY <3>3 DEF AssetsOf, Delivery!SentEvents
      <3>7. \A c \in AssetsOf(batch[r]) : c \in Calls /\ c \in AssetsOf(Given)
        BY <3>2, <3>3 DEF AssetsOf
      <3>8. Delivery!Strike(AssetsOf(batch[r]))
        BY <3>4, <3>5, <3>7 DEF Delivery!Strike
      <3> QED
        BY <3>6, <3>8 DEF Delivery!Next
    <2>4. ASSUME NEW r \in Relays, DrainStep(r)
          PROVE  [Delivery!Next]_(Delivery!deliveryVars)
      BY <2>0, <2>2, <2>3, <2>4 DEF DrainStep, Sink!Drain, Sink!FetchPending
    <2> QED
      BY <1>2, <2>0, <2>1, <2>4 DEF Next, vars, relayVars
  <1>3. IInv /\ EventsAreOfPast /\ [Next]_vars => EventsAreOfPast'
    BY StepEventsAreOfPast
  <1> QED
    BY <1>1, <1>2, <1>3, MediaInvariant, PTL DEF Spec, ImplementsDelivery, Delivery!Spec
=============================================================================
