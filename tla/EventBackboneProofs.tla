------------------------- MODULE EventBackboneProofs -------------------------
(***************************************************************************)
(* Proofs about EventBackbone, for any number of relays, events,           *)
(* subscribers, attempts and rejections.                                   *)
(***************************************************************************)
EXTENDS EventBackbone, FiniteSetTheorems, SequenceTheorems, TLAPS

-----------------------------------------------------------------------------
(* Facts about the data                                                     *)

(* Appending adds exactly the new element to a sequence's elements and      *)
(* leaves the old positions alone.                                          *)
LEMMA AppendFacts ==
    ASSUME NEW S, NEW q \in Seq(S), NEW e \in S
    PROVE  /\ Append(q, e) \in Seq(S)
           /\ DOMAIN Append(q, e) = DOMAIN q \cup {Len(q) + 1}
           /\ DOMAIN q = 1..Len(q)
           /\ Len(q) \in Nat
           /\ \A i \in DOMAIN q : Append(q, e)[i] = q[i]
           /\ Append(q, e)[Len(q) + 1] = e
           /\ {Append(q, e)[i] : i \in DOMAIN Append(q, e)}
                = {q[i] : i \in DOMAIN q} \cup {e}
  <1>1. /\ Append(q, e) \in Seq(S)
        /\ Len(q) \in Nat
        /\ DOMAIN q = 1..Len(q)
        /\ DOMAIN Append(q, e) = 1..(Len(q) + 1)
        /\ \A i \in 1..Len(q) : Append(q, e)[i] = q[i]
        /\ Append(q, e)[Len(q) + 1] = e
    OBVIOUS
  <1>2. 1..(Len(q) + 1) = (1..Len(q)) \cup {Len(q) + 1}
    BY <1>1
  <1>3. {Append(q, e)[i] : i \in DOMAIN Append(q, e)}
          = {q[i] : i \in DOMAIN q} \cup {e}
    BY <1>1, <1>2, Zenon
  <1> QED
    BY <1>1, <1>2, <1>3

(* Positions are the numbers 1..Len(outbox); there are finitely many.       *)
LEMMA PositionsFacts ==
    ASSUME TypeOK
    PROVE  /\ Positions = 1..Len(outbox)
           /\ Positions \subseteq Nat
           /\ IsFiniteSet(Positions)
           /\ \A p \in Positions : outbox[p] \in Events
  <1>1. Len(outbox) \in Nat /\ DOMAIN outbox = 1..Len(outbox)
    BY DEF TypeOK
  <1>2. IsFiniteSet(1..Len(outbox))
    BY <1>1, FS_Interval
  <1> QED
    BY <1>1, <1>2 DEF Positions, TypeOK

(* fetchPending returns pending entries, and no pending entry older than    *)
(* one it returns is left out.                                              *)
LEMMA OldestPendingIsPrefix ==
    ASSUME TypeOK
    PROVE  /\ OldestPending(BatchSize) \subseteq Pending
           /\ \A p \in OldestPending(BatchSize), q \in Pending :
                 q < p => q \in OldestPending(BatchSize)
  <1>1. OldestPending(BatchSize) \subseteq Pending
    BY DEF OldestPending
  <1>2. ASSUME NEW p \in OldestPending(BatchSize), NEW q \in Pending, q < p
        PROVE  q \in OldestPending(BatchSize)
    <2> DEFINE Before(n) == {x \in Pending : x < n}
    <2>1. p \in Nat /\ q \in Nat /\ Pending \subseteq Nat
      BY <1>1, PositionsFacts DEF Pending
    <2>2. IsFiniteSet(Before(p))
      BY PositionsFacts, FS_Subset DEF Pending
    <2>3. Before(q) \subseteq Before(p)
      <3>1. ASSUME NEW x \in Pending, x < q PROVE x < p
        BY <1>2, <2>1, <3>1
      <3> QED
        BY <3>1
    <2>4. IsFiniteSet(Before(q)) /\ Cardinality(Before(q)) <= Cardinality(Before(p))
      BY <2>2, <2>3, FS_Subset
    <2>5. Cardinality(Before(p)) \in Nat /\ Cardinality(Before(q)) \in Nat
      BY <2>2, <2>4, FS_CardinalityType
    <2>6. Cardinality(Before(p)) < BatchSize
      BY DEF OldestPending
    <2>7. Cardinality(Before(q)) < BatchSize
      BY <2>4, <2>5, <2>6, BackboneAssumption
    <2> QED
      BY <2>7 DEF OldestPending
  <1> QED
    BY <1>1, <1>2

LEMMA PairFacts ==
    ASSUME NEW A, NEW B, NEW x \in A \X B
    PROVE  x[1] \in A /\ x[2] \in B /\ x = <<x[1], x[2]>>
  OBVIOUS

(* At most one delivery is next.                                            *)
LEMMA NextIsUnique ==
    ASSUME TypeOK, NEW r \in Relays, NEW c, NEW d, IsNext(r, c), IsNext(r, d)
    PROVE  c = d
  <1>1. c \in Positions \X Subscribers /\ d \in Positions \X Subscribers
    BY DEF TypeOK, IsNext
  <1>2. Positions \subseteq Nat /\ Subscribers \subseteq Nat
    BY PositionsFacts, BackboneAssumption
  <1>3. \A x \in Positions \X Subscribers :
           x[1] \in Nat /\ x[2] \in Nat /\ x = <<x[1], x[2]>>
    BY <1>2, PairFacts, Zenon
  <1>a. /\ c[1] < d[1] \/ (c[1] = d[1] /\ c[2] <= d[2])
        /\ d[1] < c[1] \/ (d[1] = c[1] /\ d[2] <= c[2])
    <2>1. c \in todo[r] /\ d \in todo[r]
      BY DEF IsNext
    <2> QED
      BY <2>1 DEF IsNext
  <1>b. c[1] \in Nat /\ c[2] \in Nat /\ d[1] \in Nat /\ d[2] \in Nat
    BY <1>1, <1>3
  <1>4. c[1] = d[1] /\ c[2] = d[2]
    BY <1>a, <1>b
  <1> QED
    BY <1>1, <1>3, <1>4

-----------------------------------------------------------------------------
(* Type correctness                                                         *)

LEMMA InitTypeOK == Init => TypeOK
  <1> SUFFICES ASSUME Init PROVE TypeOK
    OBVIOUS
  <1> QED
    BY BackboneAssumption DEF Init, TypeOK, PcValues, Written, Positions

(* A drain that rejects or acknowledges keeps the relays' variables typed.  *)
LEMMA RelayTypes ==
    ASSUME TypeOK, outbox' = outbox, NEW r \in Relays,
           \/ DrainRejects(r)
           \/ \E d \in todo[r] : Acknowledge(r, d)
    PROVE  /\ pc' \in [Relays -> PcValues]
           /\ batch' \in [Relays -> SUBSET Positions']
           /\ todo' \in [Relays -> SUBSET (Positions' \X Subscribers)]
           /\ attempt' \in [Relays -> 0..MaxAttempts]
  <1>1. Positions' = Positions
    BY DEF Positions
  <1>2. 0 \in 0..MaxAttempts
    BY BackboneAssumption
  <1>3. CASE DrainRejects(r)
    BY <1>1, <1>2, <1>3 DEF TypeOK, DrainRejects, PcValues
  <1>4. ASSUME NEW d \in todo[r], Acknowledge(r, d)
        PROVE  /\ pc' \in [Relays -> PcValues]
               /\ batch' \in [Relays -> SUBSET Positions]
               /\ todo' \in [Relays -> SUBSET (Positions \X Subscribers)]
               /\ attempt' \in [Relays -> 0..MaxAttempts]
    <2>1. todo[r] \ {d} \in SUBSET (Positions \X Subscribers)
      BY DEF TypeOK
    <2> QED
      BY <1>2, <1>4, <2>1 DEF TypeOK, Acknowledge, PcValues
  <1> QED
    BY <1>1, <1>3, <1>4

(* The bound on rejections is respected.                                    *)
LEMMA RejectionTypes ==
    ASSUME TypeOK, NEW r \in Relays, DrainRejects(r)
    PROVE  rejections' \in 0..MaxRejections
  <1>1. rejections \in Nat /\ rejections < MaxRejections /\ rejections' = rejections + 1
    BY BackboneAssumption DEF TypeOK, DrainRejects
  <1> QED
    BY <1>1, BackboneAssumption

LEMMA StepTypeOK == TypeOK /\ RetryLeft /\ [Next]_vars => TypeOK'
  <1> SUFFICES ASSUME TypeOK, RetryLeft, [Next]_vars PROVE TypeOK'
    OBVIOUS
  <1> USE BackboneAssumption
  <1>1. ASSUME NEW e \in Events, Write(e) PROVE TypeOK'
    <2>1. /\ outbox' \in Seq(Events)
          /\ Positions \subseteq Positions'
          /\ Written' = Written \cup {e}
      BY <1>1, AppendFacts DEF Write, TypeOK, Positions, Written
    <2> QED
      BY <1>1, <2>1 DEF Write, TypeOK, relayVars, consumerVars
  <1>2. ASSUME NEW r \in Relays, FetchPending(r) PROVE TypeOK'
    <2>1. OldestPending(BatchSize) \subseteq Positions
      BY DEF OldestPending, Pending
    <2> QED
      BY <1>2, <2>1
      DEF FetchPending, TypeOK, consumerVars, Positions, Written, PcValues
  <1>3. ASSUME NEW r \in Relays, Drain(r) PROVE TypeOK'
    <2>1. CASE DeserializeThrows(r)
      BY <2>1, RelayTypes, RejectionTypes
      DEF DeserializeThrows, TypeOK, consumerVars, Positions, Written
    <2>2. CASE SkipProcessed(r)
      BY <2>2, RelayTypes DEF SkipProcessed, TypeOK, consumerVars, Positions, Written
    <2>3. CASE StartHandling(r)
      BY <2>3 DEF StartHandling, TypeOK, consumerVars, Positions, Written, PcValues
    <2>4. CASE HandlerSucceeds(r)
      <3>1. PICK d \in todo[r] :
                handled' = [handled EXCEPT ![d[2]][outbox[d[1]]] = @ + 1]
        BY <2>4 DEF HandlerSucceeds
      <3>2. d[1] \in Positions /\ d[2] \in Subscribers /\ outbox[d[1]] \in Events
        BY PositionsFacts DEF TypeOK
      <3>a. handled[d[2]] \in [Events -> Nat]
        BY <3>2 DEF TypeOK
      <3>3. handled' \in [Subscribers -> [Events -> Nat]]
        <4> DEFINE e == outbox[d[1]]
                   h == [handled[d[2]] EXCEPT ![e] = handled[d[2]][e] + 1]
        <4>1. h \in [Events -> Nat]
          BY <3>2, <3>a
        <4>2. handled' = [handled EXCEPT ![d[2]] = h]
          BY <3>1
        <4> HIDE DEF h
        <4> QED
          BY <3>2, <4>1, <4>2 DEF TypeOK
      <3>4. pc' = [pc EXCEPT ![r] = "recording"]
        BY <2>4 DEF HandlerSucceeds
      <3>5. pc' \in [Relays -> PcValues]
        BY <3>4 DEF TypeOK, PcValues
      <3>6. UNCHANGED <<outbox, published, batch, todo, attempt, processed, deadLetters, rejections>>
        BY <2>4 DEF HandlerSucceeds
      <3> QED
        BY <3>3, <3>5, <3>6 DEF TypeOK, Positions, Written
    <2>5. CASE HandlerFails(r) \/ RecordFails(r)
      <3>1. Catch(r)
        BY <2>5 DEF HandlerFails, RecordFails
      <3>2. pc' \in [Relays -> PcValues]
        BY <3>1 DEF Catch, TypeOK, PcValues
      <3> QED
        BY <3>1, <3>2 DEF Catch, TypeOK, consumerVars, Positions, Written
    <2>6. CASE RecordProcessed(r)
      <3>1. PICK d \in todo[r] :
                /\ processed' = [processed EXCEPT ![d[2]] = @ \cup {outbox[d[1]]}]
                /\ Acknowledge(r, d)
        BY <2>6 DEF RecordProcessed
      <3>2. d[1] \in Positions /\ d[2] \in Subscribers /\ outbox[d[1]] \in Events
        BY PositionsFacts DEF TypeOK
      <3>3. processed' \in [Subscribers -> SUBSET Events]
        BY <3>1, <3>2 DEF TypeOK
      <3>4. UNCHANGED <<outbox, published, deadLetters, handled, rejections>>
        BY <2>6 DEF RecordProcessed
      <3>5. /\ pc' \in [Relays -> PcValues]
            /\ batch' \in [Relays -> SUBSET Positions']
            /\ todo' \in [Relays -> SUBSET (Positions' \X Subscribers)]
            /\ attempt' \in [Relays -> 0..MaxAttempts]
        BY <3>1, <3>4, RelayTypes
      <3>6. Written' = Written
        BY <3>4 DEF Written, Positions
      <3> QED
        BY <3>3, <3>4, <3>5, <3>6 DEF TypeOK
    <2>7. CASE RetryAfterDelay(r)
      BY <2>7 DEF RetryAfterDelay, RetryLeft, TypeOK, consumerVars,
                  Positions, Written, PcValues
    <2>8. CASE DeadLetter(r)
      <3>1. PICK d \in todo[r] :
                /\ deadLetters' = [deadLetters EXCEPT ![d[2]] = Append(@, outbox[d[1]])]
                /\ Acknowledge(r, d)
        BY <2>8 DEF DeadLetter
      <3>2. d[1] \in Positions /\ d[2] \in Subscribers /\ outbox[d[1]] \in Events
        BY PositionsFacts DEF TypeOK
      <3>a. deadLetters[d[2]] \in Seq(Events)
        BY <3>2 DEF TypeOK
      <3>b. Append(deadLetters[d[2]], outbox[d[1]]) \in Seq(Events)
        BY <3>2, <3>a
      <3>3. deadLetters' \in [Subscribers -> Seq(Events)]
        BY <3>1, <3>2, <3>b DEF TypeOK
      <3>4. UNCHANGED <<outbox, published, processed, handled, rejections>>
        BY <2>8 DEF DeadLetter
      <3>5. /\ pc' \in [Relays -> PcValues]
            /\ batch' \in [Relays -> SUBSET Positions']
            /\ todo' \in [Relays -> SUBSET (Positions' \X Subscribers)]
            /\ attempt' \in [Relays -> 0..MaxAttempts]
        BY <3>1, <3>4, RelayTypes
      <3> QED
        BY <3>3, <3>4, <3>5 DEF TypeOK, Positions, Written
    <2>9. CASE MarkPublished(r)
      BY <2>9 DEF MarkPublished, TypeOK, consumerVars, Positions, Written, PcValues
    <2> QED
      BY <1>3, <2>1, <2>2, <2>3, <2>4, <2>5, <2>6, <2>7, <2>8, <2>9 DEF Drain
  <1>4. ASSUME NEW r \in Relays, PortRejects(r) PROVE TypeOK'
    BY <1>4, RelayTypes, RejectionTypes
    DEF PortRejects, TypeOK, consumerVars, Positions, Written
  <1>5. CASE UNCHANGED vars
    BY <1>5 DEF vars, TypeOK, Positions, Written
  <1> QED
    BY <1>1, <1>2, <1>3, <1>4, <1>5 DEF Next

-----------------------------------------------------------------------------
(* The kinds of steps                                                       *)

(* The consumer returns: the delivery d that was next is settled, and only  *)
(* d's event becomes settled, only at d's subscriber.                       *)
Settles(r, d) ==
    /\ IsNext(r, d)
    /\ Acknowledge(r, d)
    /\ UNCHANGED <<outbox, published, handled>>
    /\ outbox[d[1]] \in Settled(d[2])'
    /\ \A s \in Subscribers :
          /\ Settled(s) \subseteq Settled(s)'
          /\ \A e \in Settled(s)' : e \in Settled(s) \/ (s = d[2] /\ e = outbox[d[1]])

(* Relays move on, or give up what they hold; nothing else changes.         *)
OnlyControl ==
    /\ UNCHANGED <<outbox, published, consumerVars>>
    /\ \A r \in Relays :
          \/ batch'[r] = batch[r] /\ todo'[r] = todo[r]
          \/ batch'[r] = {} /\ todo'[r] = {}

(* Settled only depends on the two stores.                                  *)
LEMMA SettledUnchanged ==
    ASSUME UNCHANGED <<processed, deadLetters>>
    PROVE  \A s : Settled(s)' = Settled(s)
  BY DEF Settled, DeadLettered

(* Each step is one of six kinds.                                           *)
LEMMA StepKinds ==
    ASSUME TypeOK, [Next]_vars
    PROVE  \/ \E e \in Events : Write(e)
           \/ \E r \in Relays : FetchPending(r)
           \/ \E r \in Relays : HandlerSucceeds(r)
           \/ \E r \in Relays : MarkPublished(r)
           \/ \E r \in Relays : \E d \in todo[r] : Settles(r, d)
           \/ OnlyControl
  <1>1. ASSUME NEW r \in Relays, DrainRejects(r), UNCHANGED <<outbox, published, consumerVars>>
        PROVE  OnlyControl
    BY <1>1 DEF DrainRejects, OnlyControl, TypeOK
  <1>2. ASSUME NEW r \in Relays, SkipProcessed(r)
        PROVE  \E d \in todo[r] : Settles(r, d)
    <2>1. PICK d \in todo[r] : /\ IsNext(r, d)
                               /\ outbox[d[1]] \in processed[d[2]]
                               /\ Acknowledge(r, d)
      BY <1>2 DEF SkipProcessed
    <2>2. UNCHANGED <<outbox, published, processed, deadLetters, handled>>
      BY <1>2 DEF SkipProcessed, consumerVars
    <2>3. \A s : Settled(s)' = Settled(s)
      BY <2>2, SettledUnchanged
    <2>4. outbox[d[1]] \in Settled(d[2])
      BY <2>1 DEF Settled
    <2> QED
      BY <2>1, <2>2, <2>3, <2>4 DEF Settles
  <1>3. ASSUME NEW r \in Relays, RecordProcessed(r)
        PROVE  \E d \in todo[r] : Settles(r, d)
    <2>1. PICK d \in todo[r] :
             /\ IsNext(r, d)
             /\ processed' = [processed EXCEPT ![d[2]] = @ \cup {outbox[d[1]]}]
             /\ Acknowledge(r, d)
      BY <1>3 DEF RecordProcessed
    <2>2. UNCHANGED <<outbox, published, deadLetters, handled>>
      BY <1>3 DEF RecordProcessed
    <2>3. d[2] \in Subscribers
      BY PairFacts DEF TypeOK
    <2>4. \A s \in Subscribers :
             processed'[s] = IF s = d[2] THEN processed[s] \cup {outbox[d[1]]}
                                         ELSE processed[s]
      BY <2>1 DEF TypeOK
    <2>5. \A s : DeadLettered(s)' = DeadLettered(s)
      BY <2>2 DEF DeadLettered
    <2>6. outbox[d[1]] \in Settled(d[2])'
      BY <2>3, <2>4 DEF Settled
    <2>7. \A s \in Subscribers :
             /\ Settled(s) \subseteq Settled(s)'
             /\ \A e \in Settled(s)' : e \in Settled(s) \/ (s = d[2] /\ e = outbox[d[1]])
      BY <2>4, <2>5 DEF Settled
    <2> QED
      BY <2>1, <2>2, <2>6, <2>7 DEF Settles
  <1>4. ASSUME NEW r \in Relays, DeadLetter(r)
        PROVE  \E d \in todo[r] : Settles(r, d)
    <2>1. PICK d \in todo[r] :
             /\ IsNext(r, d)
             /\ deadLetters' = [deadLetters EXCEPT ![d[2]] = Append(@, outbox[d[1]])]
             /\ Acknowledge(r, d)
      BY <1>4 DEF DeadLetter
    <2>2. UNCHANGED <<outbox, published, processed, handled>>
      BY <1>4 DEF DeadLetter
    <2>3. d[2] \in Subscribers /\ outbox[d[1]] \in Events
      BY PositionsFacts, PairFacts DEF TypeOK
    <2>4. \A s \in Subscribers :
             deadLetters'[s] = IF s = d[2] THEN Append(deadLetters[s], outbox[d[1]])
                                           ELSE deadLetters[s]
      BY <2>1 DEF TypeOK
    <2>5. deadLetters[d[2]] \in Seq(Events)
      BY <2>3 DEF TypeOK
    <2>6. DeadLettered(d[2])' = DeadLettered(d[2]) \cup {outbox[d[1]]}
      <3> DEFINE q == deadLetters[d[2]]
                 a == Append(q, outbox[d[1]])
      <3>1. {a[i] : i \in DOMAIN a} = {q[i] : i \in DOMAIN q} \cup {outbox[d[1]]}
        BY <2>3, <2>5, AppendFacts
      <3>2. deadLetters'[d[2]] = a
        BY <2>3, <2>4
      <3> QED
        BY <3>1, <3>2 DEF DeadLettered
    <2>7. \A s \in Subscribers \ {d[2]} : DeadLettered(s)' = DeadLettered(s)
      BY <2>4 DEF DeadLettered
    <2>8. outbox[d[1]] \in Settled(d[2])'
      BY <2>6 DEF Settled
    <2>9. \A s \in Subscribers :
             /\ Settled(s) \subseteq Settled(s)'
             /\ \A e \in Settled(s)' : e \in Settled(s) \/ (s = d[2] /\ e = outbox[d[1]])
      BY <2>2, <2>6, <2>7 DEF Settled
    <2> QED
      BY <2>1, <2>2, <2>8, <2>9 DEF Settles
  <1>5. ASSUME NEW r \in Relays,
               \/ StartHandling(r) \/ HandlerFails(r) \/ RecordFails(r)
               \/ RetryAfterDelay(r)
        PROVE  OnlyControl
    <2>1. UNCHANGED <<outbox, published, consumerVars, batch, todo>>
      BY <1>5 DEF StartHandling, HandlerFails, RecordFails, RetryAfterDelay, Catch
    <2> QED
      BY <2>1 DEF OnlyControl
  <1>6. ASSUME NEW r \in Relays, DeserializeThrows(r) \/ PortRejects(r)
        PROVE  OnlyControl
    BY <1>1, <1>6 DEF DeserializeThrows, PortRejects
  <1>7. CASE UNCHANGED vars
    BY <1>7 DEF vars, OnlyControl, consumerVars
  <1> QED
    BY <1>2, <1>3, <1>4, <1>5, <1>6, <1>7 DEF Next, Drain

-----------------------------------------------------------------------------
(* The inductive invariant                                                  *)

(* What every step keeps: entries stay at their positions, published        *)
(* entries stay published, settled events stay settled.                     *)
LEMMA StepGrows ==
    ASSUME TypeOK, [Next]_vars
    PROVE  /\ Positions \subseteq Positions'
           /\ \A p \in Positions : outbox'[p] = outbox[p]
           /\ \A p \in Positions : Listeners(outbox[p])' = Listeners(outbox[p])
           /\ published \subseteq published'
           /\ \A s \in Subscribers : Settled(s) \subseteq Settled(s)'
  <1>1. ASSUME NEW e \in Events, Write(e)
        PROVE  /\ Positions \subseteq Positions'
               /\ \A p \in Positions : outbox'[p] = outbox[p]
    BY <1>1, AppendFacts DEF Write, TypeOK, Positions
  <1>2. ASSUME NEW e \in Events, Write(e)
        PROVE  /\ published' = published
               /\ \A s : Settled(s)' = Settled(s)
    BY <1>2, SettledUnchanged DEF Write, consumerVars
  <1>3. CASE \E r \in Relays : FetchPending(r) \/ MarkPublished(r) \/ HandlerSucceeds(r)
    <2>1. /\ outbox' = outbox
          /\ published \subseteq published'
          /\ UNCHANGED <<processed, deadLetters>>
      BY <1>3 DEF FetchPending, MarkPublished, HandlerSucceeds, consumerVars
    <2> QED
      BY <2>1, SettledUnchanged DEF Positions, Listeners
  <1>4. CASE \E r \in Relays : \E d \in todo[r] : Settles(r, d)
    BY <1>4 DEF Settles, Positions, Listeners
  <1>5. CASE OnlyControl
    BY <1>5, SettledUnchanged DEF OnlyControl, consumerVars, Positions, Listeners
  <1> QED
    BY <1>1, <1>2, <1>3, <1>4, <1>5, StepKinds DEF Listeners

(* Before a delivery's turn comes, every earlier entry its subscriber       *)
(* listens to is settled there: it was published already, or it was in the  *)
(* same batch and its turn came first.                                      *)
LEMMA EarlierSettled ==
    ASSUME IInv, NEW r \in Relays, NEW d \in todo[r], IsNext(r, d),
           NEW q \in Positions, q < d[1], d[2] \in Listeners(outbox[q])
    PROVE  outbox[q] \in Settled(d[2])
  <1>1. d[1] \in Positions /\ d[2] \in Subscribers /\ d[1] \in batch[r]
    BY PairFacts DEF IInv, TypeOK, TodoIsOfBatch
  <1>2. q \in Nat /\ d[1] \in Nat
    BY <1>1, PositionsFacts DEF IInv
  <1>3. CASE outbox[q] \in published
    BY <1>3 DEF IInv, PublishedOnlyWhenSettled
  <1>4. CASE q \in batch[r]
    <2>1. <<q, d[2]>> \notin todo[r]
      BY <1>2 DEF IsNext
    <2> QED
      BY <1>4, <2>1 DEF IInv, DeliveredIsSettled
  <1> QED
    BY <1>1, <1>3, <1>4 DEF IInv, BatchIsOldest

LEMMA StepRetryLeft == TypeOK /\ RetryLeft /\ [Next]_vars => RetryLeft'
  <1> SUFFICES ASSUME TypeOK, RetryLeft, [Next]_vars, NEW r \in Relays,
                      pc'[r] = "sleeping"
               PROVE  attempt'[r] < MaxAttempts
    BY DEF RetryLeft
  <1> USE BackboneAssumption
  <1>1. ASSUME NEW x \in Relays, Catch(x) PROVE attempt'[r] < MaxAttempts
    <2>1. attempt[x] \in Nat
      BY DEF TypeOK
    <2> QED
      BY <1>1, <2>1 DEF Catch, TypeOK, RetryLeft
  <1>2. ASSUME NEW x \in Relays, DrainRejects(x) PROVE attempt'[r] < MaxAttempts
    BY <1>2 DEF DrainRejects, TypeOK, RetryLeft
  <1>3. ASSUME NEW x \in Relays, NEW d, Acknowledge(x, d) PROVE attempt'[r] < MaxAttempts
    BY <1>3 DEF Acknowledge, TypeOK, RetryLeft
  <1>4. CASE \/ \E e \in Events : Write(e)
             \/ UNCHANGED vars
    BY <1>4 DEF Write, vars, relayVars, RetryLeft
  <1>5. ASSUME NEW x \in Relays,
               \/ FetchPending(x) \/ StartHandling(x) \/ HandlerSucceeds(x)
               \/ RetryAfterDelay(x) \/ MarkPublished(x)
        PROVE  attempt'[r] < MaxAttempts
    BY <1>5 DEF FetchPending, StartHandling, HandlerSucceeds, RetryAfterDelay,
                MarkPublished, TypeOK, RetryLeft
  <1> QED
    BY <1>1, <1>2, <1>3, <1>4, <1>5
    DEF Next, Drain, DeserializeThrows, SkipProcessed, HandlerFails, RecordFails,
        RecordProcessed, DeadLetter, PortRejects

LEMMA StepUniqueIds == TypeOK /\ UniqueIds /\ [Next]_vars => UniqueIds'
  <1> SUFFICES ASSUME TypeOK, UniqueIds, [Next]_vars PROVE UniqueIds'
    OBVIOUS
  <1>1. ASSUME NEW e \in Events, Write(e) PROVE UniqueIds'
    <2>1. /\ Positions' = Positions \cup {Len(outbox) + 1}
          /\ \A p \in Positions : outbox'[p] = outbox[p] /\ outbox[p] # e
          /\ outbox'[Len(outbox) + 1] = e
      BY <1>1, AppendFacts DEF Write, TypeOK, Positions, Written
    <2> QED
      BY <2>1 DEF UniqueIds
  <1>2. CASE outbox' = outbox
    BY <1>2 DEF UniqueIds, Positions
  <1> QED
    BY <1>1, <1>2, StepKinds
    DEF FetchPending, HandlerSucceeds, MarkPublished, Settles, OnlyControl

LEMMA StepOnlyWritten == TypeOK /\ OnlyWritten /\ [Next]_vars => OnlyWritten'
  <1> SUFFICES ASSUME TypeOK, OnlyWritten, [Next]_vars PROVE OnlyWritten'
    OBVIOUS
  <1>1. Written \subseteq Written'
    BY StepGrows DEF Written
  <1>2. CASE UNCHANGED consumerVars
    BY <1>1, <1>2, SettledUnchanged DEF OnlyWritten, consumerVars
  <1>3. ASSUME NEW r \in Relays, HandlerSucceeds(r) PROVE OnlyWritten'
    <2>1. PICK d \in todo[r] :
              handled' = [handled EXCEPT ![d[2]][outbox[d[1]]] = @ + 1]
      BY <1>3 DEF HandlerSucceeds
    <2>2. d[1] \in Positions /\ d[2] \in Subscribers /\ outbox[d[1]] \in Written
      BY PairFacts DEF TypeOK, Written
    <2>3. \A s \in Subscribers, e \in Events :
             handled'[s][e] = handled[s][e] \/ e = outbox[d[1]]
      BY <2>1, <2>2 DEF TypeOK
    <2>4. \A s : Settled(s)' = Settled(s)
      BY <1>3, SettledUnchanged DEF HandlerSucceeds
    <2> QED
      BY <1>1, <2>2, <2>3, <2>4 DEF OnlyWritten
  <1>4. ASSUME NEW r \in Relays, NEW d \in todo[r], Settles(r, d) PROVE OnlyWritten'
    <2>1. outbox[d[1]] \in Written
      BY PairFacts DEF TypeOK, Written
    <2> QED
      BY <1>1, <1>4, <2>1 DEF Settles, OnlyWritten
  <1> QED
    BY <1>2, <1>3, <1>4, StepKinds DEF Write, FetchPending, MarkPublished, OnlyControl

(* How a step changes what relays hold, other than by fetching.             *)
LEMMA HoldingShrinks ==
    ASSUME TypeOK, [Next]_vars, ~ \E r \in Relays : FetchPending(r), NEW x \in Relays
    PROVE  \/ batch'[x] = {} /\ todo'[x] = {}
           \/ batch'[x] = batch[x] /\ todo'[x] = todo[x]
           \/ \E d \in todo[x] : /\ Settles(x, d)
                                 /\ batch'[x] = batch[x]
                                 /\ todo'[x] = todo[x] \ {d}
  <1>1. CASE \E e \in Events : Write(e)
    BY <1>1 DEF Write, relayVars
  <1>2. CASE \E r \in Relays : HandlerSucceeds(r)
    BY <1>2 DEF HandlerSucceeds
  <1>3. CASE \E r \in Relays : MarkPublished(r)
    BY <1>3 DEF MarkPublished, TypeOK
  <1>4. ASSUME NEW r \in Relays, NEW d \in todo[r], Settles(r, d)
        PROVE  \/ batch'[x] = batch[x] /\ todo'[x] = todo[x]
               \/ x = r /\ batch'[x] = batch[x] /\ todo'[x] = todo[x] \ {d}
    BY <1>4 DEF Settles, Acknowledge, TypeOK
  <1>5. CASE OnlyControl
    BY <1>5 DEF OnlyControl
  <1> QED
    BY <1>1, <1>2, <1>3, <1>4, <1>5, StepKinds

LEMMA StepTodoIsOfBatch == IInv /\ [Next]_vars => TodoIsOfBatch'
  <1> SUFFICES ASSUME IInv, [Next]_vars, NEW x \in Relays, NEW d \in todo'[x]
               PROVE  d[1] \in batch'[x] /\ d[2] \in Listeners(outbox[d[1]])'
    BY DEF TodoIsOfBatch
  <1> USE DEF IInv
  <1>1. ASSUME NEW r \in Relays, FetchPending(r)
        PROVE  d[1] \in batch'[x] /\ d[2] \in Listeners(outbox[d[1]])'
    <2>1. outbox' = outbox
      BY <1>1 DEF FetchPending
    <2>2. CASE x = r
      <3>1. /\ batch'[r] = OldestPending(BatchSize)
            /\ todo'[r] = {c \in OldestPending(BatchSize) \X Subscribers :
                              c[2] \in Listeners(outbox[c[1]])}
        BY <1>1 DEF FetchPending, TypeOK
      <3> QED
        BY <2>1, <2>2, <3>1 DEF Listeners
    <2>3. CASE x # r
      BY <1>1, <2>1, <2>3 DEF FetchPending, TypeOK, TodoIsOfBatch, Listeners
    <2> QED
      BY <2>2, <2>3
  <1>2. CASE ~ \E r \in Relays : FetchPending(r)
    <2>1. d \in todo[x] /\ batch'[x] = batch[x]
      BY <1>2, HoldingShrinks
    <2>2. d[1] \in Positions
      BY <2>1, PairFacts DEF TypeOK
    <2> QED
      BY <2>1, <2>2, StepGrows DEF TodoIsOfBatch
  <1> QED
    BY <1>1, <1>2

LEMMA StepBatchIsOldest == IInv /\ [Next]_vars => BatchIsOldest'
  <1> SUFFICES ASSUME IInv, [Next]_vars, NEW x \in Relays, NEW p \in batch'[x],
                      NEW q \in Positions', q < p
               PROVE  q \in batch'[x] \/ outbox'[q] \in published'
    BY DEF BatchIsOldest
  <1> USE DEF IInv
  <1>1. ASSUME NEW r \in Relays, FetchPending(r)
        PROVE  q \in batch'[x] \/ outbox'[q] \in published'
    <2>1. outbox' = outbox /\ published' = published /\ q \in Positions
      BY <1>1 DEF FetchPending, Positions
    <2>2. CASE x = r
      <3>1. batch'[r] = OldestPending(BatchSize)
        BY <1>1 DEF FetchPending, TypeOK
      <3>2. q \in Pending \/ outbox[q] \in published
        BY <2>1 DEF Pending
      <3> QED
        BY <2>1, <2>2, <3>1, <3>2, OldestPendingIsPrefix
    <2>3. CASE x # r
      BY <1>1, <2>1, <2>3 DEF FetchPending, TypeOK, BatchIsOldest
    <2> QED
      BY <2>2, <2>3
  <1>2. CASE ~ \E r \in Relays : FetchPending(r)
    <2>1. p \in batch[x] /\ batch'[x] = batch[x]
      BY <1>2, HoldingShrinks
    <2>2. q \in Positions
      <3>1. p \in 1..Len(outbox) /\ Len(outbox) \in Nat /\ Len(outbox') \in Nat
        BY <2>1, PositionsFacts, StepTypeOK DEF TypeOK
      <3>2. q \in 1..Len(outbox')
        BY StepTypeOK DEF Positions, TypeOK
      <3> QED
        BY <3>1, <3>2, PositionsFacts
    <2> QED
      BY <2>1, <2>2, StepGrows DEF BatchIsOldest
  <1> QED
    BY <1>1, <1>2

LEMMA StepDeliveredIsSettled == IInv /\ [Next]_vars => DeliveredIsSettled'
  <1> SUFFICES ASSUME IInv, [Next]_vars, NEW x \in Relays, NEW p \in batch'[x],
                      NEW s \in Listeners(outbox[p])'
               PROVE  <<p, s>> \in todo'[x] \/ outbox'[p] \in Settled(s)'
    BY DEF DeliveredIsSettled
  <1> USE DEF IInv
  <1>s. s \in Subscribers
    BY DEF Listeners
  <1>1. ASSUME NEW r \in Relays, FetchPending(r)
        PROVE  <<p, s>> \in todo'[x] \/ outbox'[p] \in Settled(s)'
    <2>1. /\ outbox' = outbox
          /\ s \in Listeners(outbox[p])
          /\ Settled(s)' = Settled(s)
      BY <1>1, SettledUnchanged DEF FetchPending, consumerVars, Listeners
    <2>2. CASE x = r
      <3>1. /\ batch'[r] = OldestPending(BatchSize)
            /\ todo'[r] = {c \in OldestPending(BatchSize) \X Subscribers :
                              c[2] \in Listeners(outbox[c[1]])}
        BY <1>1 DEF FetchPending, TypeOK
      <3> QED
        BY <1>s, <2>1, <2>2, <3>1
    <2>3. CASE x # r
      BY <1>1, <2>1, <2>3 DEF FetchPending, TypeOK, DeliveredIsSettled
    <2> QED
      BY <2>2, <2>3
  <1>2. CASE ~ \E r \in Relays : FetchPending(r)
    <2>1. p \in batch[x] /\ batch'[x] = batch[x]
      BY <1>2, HoldingShrinks
    <2>2. p \in Positions /\ outbox'[p] = outbox[p] /\ s \in Listeners(outbox[p])
      BY <2>1, StepGrows DEF TypeOK
    <2>3. CASE outbox[p] \in Settled(s)
      BY <1>s, <2>2, <2>3, StepGrows
    <2>4. CASE <<p, s>> \in todo[x]
      <3>1. CASE todo'[x] = todo[x]
        BY <2>4, <3>1
      <3>2. ASSUME NEW d \in todo[x], Settles(x, d), todo'[x] = todo[x] \ {d}
            PROVE  <<p, s>> \in todo'[x] \/ outbox'[p] \in Settled(s)'
        <4>1. CASE d = <<p, s>>
          BY <2>2, <3>2, <4>1 DEF Settles
        <4>2. CASE d # <<p, s>>
          BY <2>4, <3>2, <4>2
        <4> QED
          BY <4>1, <4>2
      <3> QED
        BY <1>2, <2>1, <3>1, <3>2, HoldingShrinks
    <2> QED
      BY <2>1, <2>2, <2>3, <2>4 DEF DeliveredIsSettled
  <1> QED
    BY <1>1, <1>2

LEMMA StepPublishedOnlyWhenSettled == IInv /\ [Next]_vars => PublishedOnlyWhenSettled'
  <1> SUFFICES ASSUME IInv, [Next]_vars, NEW p \in Positions',
                      NEW s \in Listeners(outbox[p])', outbox'[p] \in published'
               PROVE  outbox'[p] \in Settled(s)'
    BY DEF PublishedOnlyWhenSettled
  <1> USE DEF IInv
  <1>s. s \in Subscribers
    BY DEF Listeners
  <1>1. ASSUME outbox'[p] \in published
        PROVE  outbox'[p] \in Settled(s)'
    <2>1. PICK q \in Positions : outbox[q] = outbox'[p]
      BY <1>1 DEF TypeOK, Written
    <2>2. s \in Listeners(outbox[q])
      BY <2>1 DEF Listeners
    <2> QED
      BY <1>s, <1>1, <2>1, <2>2, StepGrows DEF PublishedOnlyWhenSettled
  <1>2. ASSUME NEW r \in Relays, MarkPublished(r), outbox'[p] \notin published
        PROVE  outbox'[p] \in Settled(s)'
    <2>1. /\ todo[r] = {} /\ outbox' = outbox
          /\ Settled(s)' = Settled(s)
      BY <1>2, SettledUnchanged DEF MarkPublished, consumerVars
    <2>2. PICK q \in batch[r] : outbox[q] = outbox[p]
      BY <1>2, <2>1 DEF MarkPublished
    <2>3. s \in Listeners(outbox[q])
      BY <2>1, <2>2 DEF Listeners
    <2> QED
      BY <2>1, <2>2, <2>3 DEF DeliveredIsSettled
  <1>3. published' = published \/ \E r \in Relays : MarkPublished(r)
    BY StepKinds DEF Write, FetchPending, HandlerSucceeds, Settles, OnlyControl
  <1> QED
    BY <1>1, <1>2, <1>3

LEMMA StepDeliveredInOrder == IInv /\ [Next]_vars => DeliveredInOrder'
  <1> SUFFICES ASSUME IInv, [Next]_vars, NEW p \in Positions', NEW q \in Positions',
                      NEW s \in Listeners(outbox[p])' \cap Listeners(outbox[q])',
                      q < p, handled'[s][outbox'[p]] > 0 \/ outbox'[p] \in Settled(s)'
               PROVE  outbox'[q] \in Settled(s)'
    BY DEF DeliveredInOrder
  <1> USE DEF IInv
  <1>s. s \in Subscribers
    BY DEF Listeners
  <1>1. ASSUME p \in Positions, q \in Positions,
               handled[s][outbox[p]] > 0 \/ outbox[p] \in Settled(s)
        PROVE  outbox'[q] \in Settled(s)'
    <2>1. s \in Listeners(outbox[p]) \cap Listeners(outbox[q])
      BY <1>1, StepGrows
    <2> QED
      BY <1>s, <1>1, <2>1, StepGrows DEF DeliveredInOrder
  <1>2. ASSUME outbox' = outbox, NEW r \in Relays, NEW d \in todo[r], IsNext(r, d),
               s = d[2], outbox[p] = outbox[d[1]]
        PROVE  outbox'[q] \in Settled(s)'
    <2>1. p \in Positions /\ q \in Positions /\ d[1] \in Positions
      BY <1>2, PairFacts DEF Positions, TypeOK
    <2>2. p = d[1]
      BY <1>2, <2>1 DEF UniqueIds
    <2>3. d[2] \in Listeners(outbox[q])
      BY <1>2, <2>1, StepGrows
    <2>4. outbox[q] \in Settled(s)
      BY <1>2, <2>1, <2>2, <2>3, EarlierSettled
    <2> QED
      BY <1>s, <2>1, <2>4, StepGrows
  <1>3. ASSUME NEW e \in Events, Write(e) PROVE outbox'[q] \in Settled(s)'
    <2>1. /\ Positions' = Positions \cup {Len(outbox) + 1}
          /\ Positions = 1..Len(outbox) /\ Len(outbox) \in Nat
          /\ outbox'[Len(outbox) + 1] = e
          /\ e \notin Written
      BY <1>3, AppendFacts DEF Write, TypeOK, Positions
    <2>2. handled' = handled /\ Settled(s)' = Settled(s)
      BY <1>3, SettledUnchanged DEF Write, consumerVars
    <2>3. ~(handled[s][e] > 0 \/ e \in Settled(s))
      BY <1>s, <2>1 DEF OnlyWritten
    <2>4. p \in Positions /\ q \in Positions
      BY <2>1, <2>2, <2>3
    <2> QED
      BY <1>1, <2>2, <2>4, StepGrows
  <1>4. ASSUME NEW r \in Relays, HandlerSucceeds(r) PROVE outbox'[q] \in Settled(s)'
    <2>1. PICK d \in todo[r] :
              /\ IsNext(r, d)
              /\ handled' = [handled EXCEPT ![d[2]][outbox[d[1]]] = @ + 1]
      BY <1>4 DEF HandlerSucceeds
    <2>2. outbox' = outbox /\ Positions' = Positions /\ Settled(s)' = Settled(s)
      BY <1>4, SettledUnchanged DEF HandlerSucceeds, Positions
    <2>3. CASE s = d[2] /\ outbox[p] = outbox[d[1]]
      BY <1>2, <2>1, <2>2, <2>3
    <2>4. CASE ~(s = d[2] /\ outbox[p] = outbox[d[1]])
      <3>1. handled'[s][outbox[p]] = handled[s][outbox[p]]
        BY <1>s, <2>1, <2>4 DEF TypeOK
      <3> QED
        BY <1>1, <2>2, <3>1
    <2> QED
      BY <2>3, <2>4
  <1>5. ASSUME NEW r \in Relays, NEW d \in todo[r], Settles(r, d)
        PROVE  outbox'[q] \in Settled(s)'
    <2>1. outbox' = outbox /\ Positions' = Positions /\ handled' = handled
      BY <1>5 DEF Settles, Positions
    <2>2. \/ handled[s][outbox[p]] > 0 \/ outbox[p] \in Settled(s)
          \/ s = d[2] /\ outbox[p] = outbox[d[1]]
      BY <1>s, <1>5, <2>1 DEF Settles
    <2> QED
      BY <1>1, <1>2, <1>5, <2>1, <2>2 DEF Settles
  <1>6. CASE UNCHANGED <<outbox, consumerVars>>
    <2>1. /\ Positions' = Positions /\ handled' = handled
          /\ Settled(s)' = Settled(s)
      BY <1>6, SettledUnchanged DEF Positions, consumerVars
    <2> QED
      BY <1>1, <1>6, <2>1
  <1> QED
    BY <1>3, <1>4, <1>5, <1>6, StepKinds DEF FetchPending, MarkPublished, OnlyControl

LEMMA InitIInv == Init => IInv
  <1> SUFFICES ASSUME Init PROVE IInv
    OBVIOUS
  <1>1. Positions = {} /\ \A s \in Subscribers : Settled(s) = {}
    BY DEF Init, Positions, Settled, DeadLettered
  <1>2. \A s \in Subscribers, e \in Events : handled[s][e] = 0
    BY DEF Init
  <1> QED
    BY <1>1, <1>2, InitTypeOK
    DEF Init, IInv, UniqueIds, OnlyWritten, BatchIsOldest, TodoIsOfBatch,
        DeliveredIsSettled, RetryLeft, PublishedOnlyWhenSettled, DeliveredInOrder

LEMMA StepIInv == IInv /\ [Next]_vars => IInv'
  BY StepTypeOK, StepRetryLeft, StepUniqueIds, StepOnlyWritten, StepBatchIsOldest,
     StepTodoIsOfBatch, StepDeliveredIsSettled, StepPublishedOnlyWhenSettled,
     StepDeliveredInOrder
  DEF IInv

-----------------------------------------------------------------------------
(* How often drains overlap                                                 *)

(* What a relay has in hand is the delivery that is next.                   *)
LEMMA InHandFacts ==
    ASSUME TypeOK, NEW r \in Relays, NEW d \in todo[r], IsNext(r, d)
    PROVE  /\ d[1] \in Positions /\ d[2] \in Subscribers /\ outbox[d[1]] \in Events
           /\ \A s, e : InHand(r, s, e) <=> s = d[2] /\ e = outbox[d[1]]
  <1>1. d[1] \in Positions /\ d[2] \in Subscribers /\ outbox[d[1]] \in Events
    BY PairFacts, PositionsFacts DEF TypeOK
  <1>2. \A c : IsNext(r, c) => c = d
    BY NextIsUnique
  <1> QED
    BY <1>1, <1>2 DEF InHand

(* It stays in hand while the relay's deliveries stay the same.             *)
LEMMA InHandKept ==
    ASSUME TypeOK, [Next]_vars, NEW r \in Relays, todo'[r] = todo[r], NEW s, NEW e
    PROVE  InHand(r, s, e)' <=> InHand(r, s, e)
  <1>1. \A d \in todo[r] : outbox'[d[1]] = outbox[d[1]]
    BY StepGrows, PairFacts DEF TypeOK
  <1>2. \A d : IsNext(r, d)' <=> IsNext(r, d)
    BY DEF IsNext
  <1> QED
    BY <1>1, <1>2 DEF InHand

(* The relays a step of another one leaves as they were.                    *)
LEMMA OthersKeepInHand ==
    ASSUME TypeOK, [Next]_vars, NEW x \in Relays,
           pc'[x] = pc[x], todo'[x] = todo[x], NEW s, NEW e
    PROVE  /\ x \in Attempting(s, e)' <=> x \in Attempting(s, e)
           /\ x \in Recording(s, e)' <=> x \in Recording(s, e)
  BY InHandKept DEF Attempting, Recording

LEMMA RelaySetsAreFinite ==
    ASSUME IsFiniteSet(Relays), NEW s, NEW e
    PROVE  /\ IsFiniteSet(Attempting(s, e)) /\ IsFiniteSet(Recording(s, e))
           /\ Cardinality(Attempting(s, e)) \in Nat
           /\ Cardinality(Recording(s, e)) \in Nat
           /\ Cardinality(Relays) \in Nat
  <1>1. Attempting(s, e) \subseteq Relays /\ Recording(s, e) \subseteq Relays
    BY DEF Attempting, Recording
  <1>2. IsFiniteSet(Attempting(s, e)) /\ IsFiniteSet(Recording(s, e))
    BY <1>1, FS_Subset
  <1> QED
    BY <1>2, FS_CardinalityType

(* Nobody succeeds and nobody new attempts; who was recording still is, or  *)
(* has recorded.                                                            *)
LEMMA QuietKeepsWithin ==
    ASSUME NEW n \in Nat, TypeOK, IsFiniteSet(Relays),
           NEW s \in Subscribers, NEW e \in Events, HandledWithin(n, s, e),
           handled'[s][e] = handled[s][e],
           e \in processed[s] => e \in processed'[s],
           \A x \in Relays : x \in Attempting(s, e)' => x \in Attempting(s, e),
           \A x \in Relays :
              x \in Recording(s, e) => x \in Recording(s, e)' \/ e \in processed'[s]
    PROVE  HandledWithin(n, s, e)'
  <1>0. IsFiniteSet(Relays)' <=> IsFiniteSet(Relays)
    OBVIOUS
  <1>1. /\ IsFiniteSet(Recording(s, e)')
        /\ Cardinality(Attempting(s, e)') \in Nat
        /\ Cardinality(Recording(s, e)') \in Nat
    <2>1. Attempting(s, e)' \subseteq Relays /\ Recording(s, e)' \subseteq Relays
      BY DEF Attempting, Recording
    <2>2. IsFiniteSet(Attempting(s, e)') /\ IsFiniteSet(Recording(s, e)')
      BY <2>1, FS_Subset
    <2> QED
      BY <2>2, FS_CardinalityType
  <1>2. handled[s][e] \in Nat
    BY DEF TypeOK
  <1>3. Cardinality(Attempting(s, e)') <= Cardinality(Attempting(s, e))
    <2>1. Attempting(s, e)' \subseteq Attempting(s, e)
      BY DEF Attempting
    <2> QED
      BY <2>1, RelaySetsAreFinite, FS_Subset
  <1>4. e \notin processed'[s] => Cardinality(Recording(s, e)) <= Cardinality(Recording(s, e)')
    <2>1. e \notin processed'[s] => Recording(s, e) \subseteq Recording(s, e)'
      BY DEF Recording
    <2> QED
      BY <2>1, <1>1, FS_Subset
  <1> QED
    BY <1>1, <1>2, <1>3, <1>4, RelaySetsAreFinite DEF HandledWithin

(* A relay starts on an event nobody has recorded: every earlier success is *)
(* still being recorded, by another relay.                                  *)
LEMMA StartKeepsWithin ==
    ASSUME NEW n \in Nat, IInv, OverlapInv(n), IsFiniteSet(Relays), [Next]_vars,
           AtATime(n)',
           NEW r \in Relays, StartHandling(r), NEW s \in Subscribers, NEW e \in Events
    PROVE  HandledWithin(n, s, e)'
  <1>t. TypeOK
    BY DEF IInv
  <1>i. HandledWithin(n, s, e)
    BY DEF OverlapInv
  <1>1. /\ UNCHANGED <<todo, processed, handled>>
        /\ pc[r] = "delivering" /\ pc'[r] = "handling"
        /\ \A x \in Relays \ {r} : pc'[x] = pc[x]
    BY <1>t DEF StartHandling, consumerVars, TypeOK
  <1>2. PICK d \in todo[r] : IsNext(r, d) /\ outbox[d[1]] \notin processed[d[2]]
    BY DEF StartHandling
  <1>3. \A x \in Relays \ {r} : /\ x \in Attempting(s, e)' <=> x \in Attempting(s, e)
                                /\ x \in Recording(s, e)' <=> x \in Recording(s, e)
    BY <1>t, <1>1, OthersKeepInHand
  <1>4. r \notin Recording(s, e) /\ r \notin Recording(s, e)' /\ r \notin Attempting(s, e)
    BY <1>1 DEF Recording, Attempting
  <1>5. CASE InHand(r, s, e)
    <2>1. e \notin processed[s]
      BY <1>t, <1>2, <1>5, InHandFacts
    <2>2. handled[s][e] <= Cardinality(Recording(s, e))
      BY <1>i, <2>1 DEF HandledWithin
    <2>3. Recording(s, e)' = Recording(s, e)
      <3>1. Recording(s, e) \subseteq Relays /\ Recording(s, e)' \subseteq Relays
        BY DEF Recording
      <3> QED
        BY <3>1, <1>3, <1>4
    <2> DEFINE A == Attempting(s, e)'
               R == Recording(s, e)'
    <2>4. A \subseteq Busy' /\ R \subseteq Busy' /\ A \cap R = {}
      BY DEF Attempting, Recording, Busy
    <2>b. IsFiniteSet(Busy') /\ Cardinality(Busy') \in Nat /\ Cardinality(Busy') <= n
      <3>1. Busy' \subseteq Relays
        BY DEF Busy
      <3>2. IsFiniteSet(Busy')
        BY <3>1, FS_Subset
      <3> QED
        BY <3>2, FS_CardinalityType DEF AtATime
    <2>5. IsFiniteSet(A) /\ IsFiniteSet(R) /\ Cardinality(A) \in Nat /\ Cardinality(R) \in Nat
      <3>1. IsFiniteSet(A) /\ IsFiniteSet(R)
        BY <2>4, <2>b, FS_Subset
      <3> QED
        BY <3>1, FS_CardinalityType
    <2> HIDE DEF A, R
    <2>6. Cardinality(A) + Cardinality(R) <= n
      <3>1. Cardinality(A \cup R) = Cardinality(A) + Cardinality(R)
        <4>1. Cardinality(A \cap R) = 0
          BY <2>4, FS_EmptySet
        <4>2. Cardinality(A \cup R) = Cardinality(A) + Cardinality(R) - Cardinality(A \cap R)
          BY <2>5, FS_Union, Zenon
        <4> QED
          BY <4>1, <4>2, <2>5
      <3>2. Cardinality(A \cup R) <= Cardinality(Busy')
        <4>1. A \cup R \subseteq Busy'
          BY <2>4
        <4> QED
          BY <4>1, <2>b, FS_Subset
      <3> QED
        BY <3>1, <3>2, <2>b, <2>5
    <2>7. handled'[s][e] = handled[s][e] /\ handled[s][e] \in Nat
      BY <1>t, <1>1 DEF TypeOK
    <2>8. handled[s][e] <= Cardinality(R)
      BY <2>2, <2>3 DEF R
    <2>9. handled'[s][e] + Cardinality(A) <= n
      BY <2>5, <2>6, <2>7, <2>8
    <2> QED
      BY <2>7, <2>8, <2>9 DEF HandledWithin, A, R
  <1>6. CASE ~InHand(r, s, e)
    <2>1. r \notin Attempting(s, e)'
      BY <1>t, <1>1, <1>6, InHandKept DEF Attempting
    <2> QED
      BY <1>t, <1>i, <1>1, <1>3, <1>4, <2>1, QuietKeepsWithin
  <1> QED
    BY <1>5, <1>6

(* A success moves its relay from attempting to recording.                  *)
LEMMA SuccessKeepsWithin ==
    ASSUME NEW n \in Nat, IInv, OverlapInv(n), IsFiniteSet(Relays), [Next]_vars,
           NEW r \in Relays, HandlerSucceeds(r), NEW s \in Subscribers, NEW e \in Events
    PROVE  HandledWithin(n, s, e)'
  <1>t. TypeOK
    BY DEF IInv
  <1>i. HandledWithin(n, s, e)
    BY DEF OverlapInv
  <1>1. /\ UNCHANGED <<todo, processed>>
        /\ pc[r] = "handling" /\ pc'[r] = "recording"
        /\ \A x \in Relays \ {r} : pc'[x] = pc[x]
    BY <1>t DEF HandlerSucceeds, TypeOK
  <1>2. PICK d \in todo[r] :
            /\ IsNext(r, d)
            /\ handled' = [handled EXCEPT ![d[2]][outbox[d[1]]] = @ + 1]
    BY DEF HandlerSucceeds
  <1>3. \A x \in Relays \ {r} : /\ x \in Attempting(s, e)' <=> x \in Attempting(s, e)
                                /\ x \in Recording(s, e)' <=> x \in Recording(s, e)
    BY <1>t, <1>1, OthersKeepInHand
  <1>4. r \notin Attempting(s, e)' /\ r \notin Recording(s, e)
    BY <1>1 DEF Recording, Attempting
  <1>d. d[2] \in Subscribers /\ outbox[d[1]] \in Events
    BY <1>t, <1>2, InHandFacts
  <1>h. handled[s][e] \in Nat
    BY <1>t DEF TypeOK
  <1>5. CASE InHand(r, s, e)
    <2>1. handled'[s][e] = handled[s][e] + 1
      <3>1. s = d[2] /\ e = outbox[d[1]]
        BY <1>t, <1>2, <1>5, InHandFacts
      <3> QED
        BY <1>t, <1>2, <1>d, <3>1 DEF TypeOK
    <2>2. r \in Attempting(s, e) /\ r \in Recording(s, e)'
      <3>1. InHand(r, s, e)'
        BY <1>t, <1>1, <1>5, InHandKept
      <3> QED
        BY <1>1, <1>5, <3>1 DEF Attempting, Recording
    <2>3. /\ Attempting(s, e)' = Attempting(s, e) \ {r}
          /\ Recording(s, e)' = Recording(s, e) \cup {r}
      <3>1. /\ Attempting(s, e) \subseteq Relays /\ Attempting(s, e)' \subseteq Relays
            /\ Recording(s, e) \subseteq Relays /\ Recording(s, e)' \subseteq Relays
        BY DEF Attempting, Recording
      <3> QED
        BY <3>1, <2>2, <1>3, <1>4
    <2>4. /\ Cardinality(Attempting(s, e)') = Cardinality(Attempting(s, e)) - 1
          /\ Cardinality(Recording(s, e)') = Cardinality(Recording(s, e)) + 1
      BY <2>2, <2>3, <1>4, RelaySetsAreFinite, FS_RemoveElement, FS_AddElement
    <2>5. processed'[s] = processed[s]
      BY <1>1
    <2>6. handled'[s][e] + Cardinality(Attempting(s, e)') <= n
      BY <1>i, <1>h, <2>1, <2>4, RelaySetsAreFinite DEF HandledWithin
    <2>7. e \notin processed'[s] => handled'[s][e] <= Cardinality(Recording(s, e)')
      BY <1>i, <1>h, <2>1, <2>4, <2>5, RelaySetsAreFinite DEF HandledWithin
    <2> QED
      BY <2>6, <2>7 DEF HandledWithin
  <1>6. CASE ~InHand(r, s, e)
    <2>1. handled'[s][e] = handled[s][e]
      <3>1. s # d[2] \/ e # outbox[d[1]]
        BY <1>t, <1>2, <1>6, InHandFacts
      <3> QED
        BY <1>t, <1>2, <1>d, <3>1 DEF TypeOK
    <2> QED
      BY <1>t, <1>i, <1>1, <1>3, <1>4, <2>1, QuietKeepsWithin
  <1> QED
    BY <1>5, <1>6

(* A relay that leaves the delivery at hand without a success.              *)
LEMMA LeavingKeepsWithin ==
    ASSUME NEW n \in Nat, IInv, OverlapInv(n), IsFiniteSet(Relays), [Next]_vars,
           NEW r \in Relays, NEW s \in Subscribers, NEW e \in Events,
           pc'[r] \in {"idle", "delivering", "deadLettering"},
           UNCHANGED <<processed, handled>>, pc[r] # "recording",
           \A x \in Relays \ {r} : pc'[x] = pc[x] /\ todo'[x] = todo[x]
    PROVE  HandledWithin(n, s, e)'
  <1>t. TypeOK
    BY DEF IInv
  <1>i. HandledWithin(n, s, e)
    BY DEF OverlapInv
  <1>1. \A x \in Relays \ {r} : /\ x \in Attempting(s, e)' <=> x \in Attempting(s, e)
                                /\ x \in Recording(s, e)' <=> x \in Recording(s, e)
    BY <1>t, OthersKeepInHand
  <1>2. r \notin Attempting(s, e)' /\ r \notin Recording(s, e)
    BY DEF Attempting, Recording
  <1> QED
    BY <1>t, <1>i, <1>1, <1>2, QuietKeepsWithin

(* A relay that goes on with the delivery at hand.                          *)
LEMMA AgainKeepsWithin ==
    ASSUME NEW n \in Nat, IInv, OverlapInv(n), IsFiniteSet(Relays), [Next]_vars,
           NEW r \in Relays, NEW s \in Subscribers, NEW e \in Events,
           pc[r] \in {"handling", "sleeping"},
           UNCHANGED <<todo, processed, handled>>,
           \A x \in Relays \ {r} : pc'[x] = pc[x]
    PROVE  HandledWithin(n, s, e)'
  <1>t. TypeOK
    BY DEF IInv
  <1>i. HandledWithin(n, s, e)
    BY DEF OverlapInv
  <1>1. \A x \in Relays \ {r} : /\ x \in Attempting(s, e)' <=> x \in Attempting(s, e)
                                /\ x \in Recording(s, e)' <=> x \in Recording(s, e)
    BY <1>t, OthersKeepInHand
  <1>2. r \in Attempting(s, e)' => r \in Attempting(s, e)
    BY <1>t, InHandKept DEF Attempting
  <1>3. r \notin Recording(s, e)
    BY DEF Recording
  <1> QED
    BY <1>t, <1>i, <1>1, <1>2, <1>3, QuietKeepsWithin

LEMMA StepOverlapInv ==
    ASSUME NEW n \in Nat, ~RecordMayFail, IsFiniteSet(Relays), IInv, OverlapInv(n),
           AtATime(n)', [Next]_vars
    PROVE  OverlapInv(n)'
  <1>t. TypeOK
    BY DEF IInv
  <1> SUFFICES ASSUME NEW s \in Subscribers, NEW e \in Events
               PROVE  HandledWithin(n, s, e)'
    BY DEF OverlapInv
  <1>i. HandledWithin(n, s, e)
    BY DEF OverlapInv
  <1>k. ASSUME UNCHANGED <<pc, todo, processed, handled>>
        PROVE  HandledWithin(n, s, e)'
    <2>1. \A x \in Relays : /\ x \in Attempting(s, e)' <=> x \in Attempting(s, e)
                            /\ x \in Recording(s, e)' <=> x \in Recording(s, e)
      BY <1>t, <1>k, OthersKeepInHand
    <2> QED
      BY <1>t, <1>i, <1>k, <2>1, QuietKeepsWithin
  <1>1. ASSUME NEW w \in Events, Write(w) PROVE HandledWithin(n, s, e)'
    BY <1>1, <1>k DEF Write, relayVars, consumerVars
  <1>2. ASSUME NEW r \in Relays, FetchPending(r) PROVE HandledWithin(n, s, e)'
    <2>1. /\ pc'[r] = "delivering" /\ pc[r] = "idle"
          /\ UNCHANGED <<processed, handled>>
          /\ \A x \in Relays \ {r} : pc'[x] = pc[x] /\ todo'[x] = todo[x]
      BY <1>2, <1>t DEF FetchPending, consumerVars, TypeOK
    <2> QED
      BY <2>1, LeavingKeepsWithin
  <1>3. ASSUME NEW r \in Relays, DrainRejects(r), pc[r] # "recording",
               UNCHANGED <<outbox, published, consumerVars>>
        PROVE  HandledWithin(n, s, e)'
    <2>1. /\ pc'[r] = "idle"
          /\ UNCHANGED <<processed, handled>>
          /\ \A x \in Relays \ {r} : pc'[x] = pc[x] /\ todo'[x] = todo[x]
      BY <1>3, <1>t DEF DrainRejects, consumerVars, TypeOK
    <2> QED
      BY <1>3, <2>1, LeavingKeepsWithin
  <1>4. ASSUME NEW r \in Relays, SkipProcessed(r) \/ DeadLetter(r) \/ MarkPublished(r)
        PROVE  HandledWithin(n, s, e)'
    <2>1. /\ pc'[r] \in {"delivering", "idle"} /\ pc[r] # "recording"
          /\ UNCHANGED <<processed, handled>>
          /\ \A x \in Relays \ {r} : pc'[x] = pc[x] /\ todo'[x] = todo[x]
      BY <1>4, <1>t DEF SkipProcessed, DeadLetter, MarkPublished, Acknowledge, consumerVars, TypeOK
    <2> QED
      BY <2>1, LeavingKeepsWithin
  <1>5. ASSUME NEW r \in Relays, HandlerFails(r) \/ RetryAfterDelay(r)
        PROVE  HandledWithin(n, s, e)'
    <2>1. /\ pc[r] \in {"handling", "sleeping"}
          /\ UNCHANGED <<todo, processed, handled>>
          /\ \A x \in Relays \ {r} : pc'[x] = pc[x]
      BY <1>5, <1>t DEF HandlerFails, Catch, RetryAfterDelay, consumerVars, TypeOK
    <2> QED
      BY <2>1, AgainKeepsWithin
  <1>6. ASSUME NEW r \in Relays, RecordProcessed(r) PROVE HandledWithin(n, s, e)'
    <2>1. PICK d \in todo[r] :
              /\ IsNext(r, d)
              /\ processed' = [processed EXCEPT ![d[2]] = @ \cup {outbox[d[1]]}]
              /\ Acknowledge(r, d)
      BY <1>6 DEF RecordProcessed
    <2>2. /\ pc[r] = "recording" /\ pc'[r] = "delivering" /\ handled' = handled
          /\ \A x \in Relays \ {r} : pc'[x] = pc[x] /\ todo'[x] = todo[x]
      BY <1>6, <1>t, <2>1 DEF RecordProcessed, Acknowledge, TypeOK
    <2>3. \A x \in Relays \ {r} : /\ x \in Attempting(s, e)' <=> x \in Attempting(s, e)
                                  /\ x \in Recording(s, e)' <=> x \in Recording(s, e)
      BY <1>t, <2>2, OthersKeepInHand
    <2>4. r \notin Attempting(s, e)'
      BY <2>2 DEF Attempting
    <2>5. e \in processed[s] => e \in processed'[s]
      BY <1>t, <2>1 DEF TypeOK
    <2>6. r \in Recording(s, e) => e \in processed'[s]
      <3>1. r \in Recording(s, e) => InHand(r, s, e)
        BY DEF Recording
      <3>2. r \in Recording(s, e) => s = d[2] /\ e = outbox[d[1]]
        BY <1>t, <2>1, <3>1, InHandFacts
      <3> QED
        BY <1>t, <2>1, <3>2 DEF TypeOK
    <2> QED
      BY <1>t, <1>i, <2>2, <2>3, <2>4, <2>5, <2>6, QuietKeepsWithin
  <1>7. ASSUME NEW r \in Relays, Drain(r) PROVE HandledWithin(n, s, e)'
    <2>1. CASE DeserializeThrows(r)
      BY <2>1, <1>3 DEF DeserializeThrows
    <2> QED
      BY <1>7, <2>1, <1>4, <1>5, <1>6, StartKeepsWithin, SuccessKeepsWithin
      DEF Drain, RecordFails
  <1>8. ASSUME NEW r \in Relays, PortRejects(r) PROVE HandledWithin(n, s, e)'
    BY <1>8, <1>3 DEF PortRejects
  <1>9. CASE UNCHANGED vars
    BY <1>9, <1>k DEF vars
  <1> QED
    BY <1>1, <1>2, <1>7, <1>8, <1>9 DEF Next

-----------------------------------------------------------------------------
(* Undecodable entries                                                      *)

(* Once a relay's batch was read, an entry that blocks the outbox is ahead  *)
(* of all it still owes, and stays owed.                                    *)
LEMMA BlockerIsOwed ==
    ASSUME IInv, BlockInv, NEW r \in Relays, NEW q \in batch[r],
           NEW p \in Positions, p <= q, outbox[p] \in Undecodable,
           NEW s \in Listeners(outbox[p])
    PROVE  <<p, s>> \in todo[r]
  <1>1. q \in Positions /\ p \in Nat /\ q \in Nat /\ s \in Subscribers
    BY PositionsFacts DEF IInv, TypeOK, Listeners
  <1>2. outbox[p] \notin published
    BY <1>1 DEF BlockInv, UndecodableBlocksOutbox
  <1>3. p \in batch[r]
    <2>1. CASE p = q
      BY <2>1
    <2>2. CASE p < q
      BY <1>2, <2>2 DEF IInv, BatchIsOldest
    <2> QED
      BY <1>1, <2>1, <2>2
  <1>4. outbox[p] \notin Settled(s)
    BY <1>1 DEF BlockInv, UndecodableIsUnsettled
  <1> QED
    BY <1>3, <1>4 DEF IInv, DeliveredIsSettled

LEMMA StepAttemptsAreDecodable ==
    ASSUME IInv, BlockInv, [Next]_vars
    PROVE  AttemptsAreDecodable'
  <1>t. TypeOK
    BY DEF IInv
  <1> SUFFICES ASSUME NEW x \in Relays, NEW d \in todo'[x], IsNext(x, d)',
                      pc'[x] \in {"handling", "recording", "sleeping", "deadLettering"}
               PROVE  outbox'[d[1]] \notin Undecodable
    BY DEF AttemptsAreDecodable
  (* Where the relay was attempting already, it was this delivery.          *)
  <1>1. ASSUME todo'[x] = todo[x], pc[x] \in {"handling", "recording", "sleeping", "deadLettering"}
        PROVE  outbox'[d[1]] \notin Undecodable
    <2>1. d \in todo[x] /\ IsNext(x, d)
      BY <1>1 DEF IsNext
    <2>2. d[1] \in Positions
      BY <1>t, <2>1, PairFacts DEF TypeOK
    <2>3. outbox'[d[1]] = outbox[d[1]]
      BY <1>t, <2>2, StepGrows
    <2> QED
      BY <1>1, <2>1, <2>3 DEF BlockInv, AttemptsAreDecodable
  <1>2. CASE pc'[x] = pc[x] /\ todo'[x] = todo[x]
    BY <1>1, <1>2
  <1>3. ASSUME NEW r \in Relays, StartHandling(r)
        PROVE  outbox'[d[1]] \notin Undecodable
    <2>1. CASE r = x
      <3>1. PICK c \in todo[x] : IsNext(x, c) /\ outbox[c[1]] \notin Undecodable
        BY <1>3, <2>1 DEF StartHandling
      <3>2. IsNext(x, d) /\ outbox' = outbox
        BY <1>3, <2>1 DEF StartHandling, IsNext
      <3> QED
        BY <1>t, <3>1, <3>2, NextIsUnique
    <2>2. CASE r # x
      BY <1>2, <1>3, <2>2, <1>t DEF StartHandling, TypeOK
    <2> QED
      BY <2>1, <2>2
  <1>4. ASSUME NEW r \in Relays,
               \/ HandlerSucceeds(r) \/ HandlerFails(r) \/ RecordFails(r) \/ RetryAfterDelay(r)
        PROVE  outbox'[d[1]] \notin Undecodable
    <2>1. todo' = todo
      BY <1>4 DEF HandlerSucceeds, HandlerFails, RecordFails, Catch, RetryAfterDelay
    <2>2. pc'[x] = pc[x] \/ pc[x] \in {"handling", "recording", "sleeping"}
      BY <1>4, <1>t DEF HandlerSucceeds, HandlerFails, RecordFails, Catch, RetryAfterDelay, TypeOK
    <2> QED
      BY <1>1, <2>1, <2>2
  (* The others leave the relay where it attempts nothing.                  *)
  <1>5. ASSUME NEW r \in Relays,
               \/ DrainRejects(r)
               \/ \E c \in todo[r] : Acknowledge(r, c)
        PROVE  outbox'[d[1]] \notin Undecodable
    <2>1. r = x => pc'[x] \in {"idle", "delivering"}
      BY <1>5, <1>t DEF DrainRejects, Acknowledge, TypeOK
    <2>2. r # x => pc'[x] = pc[x] /\ todo'[x] = todo[x]
      BY <1>5, <1>t DEF DrainRejects, Acknowledge, TypeOK
    <2> QED
      BY <1>2, <2>1, <2>2
  <1>6. ASSUME NEW r \in Relays, FetchPending(r) \/ MarkPublished(r)
        PROVE  outbox'[d[1]] \notin Undecodable
    <2>1. r = x => pc'[x] \in {"idle", "delivering"}
      BY <1>6, <1>t DEF FetchPending, MarkPublished, TypeOK
    <2>2. r # x => pc'[x] = pc[x] /\ todo'[x] = todo[x]
      BY <1>6, <1>t DEF FetchPending, MarkPublished, TypeOK
    <2> QED
      BY <1>2, <2>1, <2>2
  <1>7. CASE (\E e \in Events : Write(e)) \/ UNCHANGED vars
    BY <1>2, <1>7 DEF Write, relayVars, vars
  <1>8. ASSUME NEW r \in Relays, DeserializeThrows(r) \/ PortRejects(r) \/ SkipProcessed(r)
                                   \/ RecordProcessed(r) \/ DeadLetter(r)
        PROVE  \/ DrainRejects(r)
               \/ \E c \in todo[r] : Acknowledge(r, c)
    BY <1>8 DEF DeserializeThrows, PortRejects, SkipProcessed, RecordProcessed, DeadLetter
  <1> QED
    BY <1>3, <1>4, <1>5, <1>6, <1>7, <1>8 DEF Next, Drain

LEMMA StepUndecodableIsUnsettled ==
    ASSUME IInv, BlockInv, [Next]_vars
    PROVE  UndecodableIsUnsettled'
  <1>t. TypeOK
    BY DEF IInv
  <1> SUFFICES ASSUME NEW s \in Subscribers, NEW e \in Undecodable
               PROVE  handled'[s][e] = 0 /\ e \notin Settled(s)'
    BY DEF UndecodableIsUnsettled
  <1>e. e \in Events /\ handled[s][e] = 0 /\ e \notin Settled(s)
    BY BackboneAssumption DEF BlockInv, UndecodableIsUnsettled
  <1>1. ASSUME NEW r \in Relays, HandlerSucceeds(r)
        PROVE  handled'[s][e] = 0 /\ e \notin Settled(s)'
    <2>1. PICK d \in todo[r] :
             /\ IsNext(r, d)
             /\ handled' = [handled EXCEPT ![d[2]][outbox[d[1]]] = @ + 1]
      BY <1>1 DEF HandlerSucceeds
    <2>2. outbox[d[1]] # e
      BY <1>1, <2>1 DEF HandlerSucceeds, BlockInv, AttemptsAreDecodable
    <2>3. handled'[s][e] = handled[s][e]
      BY <1>e, <1>t, <2>1, <2>2 DEF TypeOK
    <2>4. Settled(s)' = Settled(s)
      BY <1>1, SettledUnchanged DEF HandlerSucceeds
    <2> QED
      BY <1>e, <2>3, <2>4
  <1>2. ASSUME NEW r \in Relays, RecordProcessed(r) \/ DeadLetter(r) \/ SkipProcessed(r)
        PROVE  handled'[s][e] = 0 /\ e \notin Settled(s)'
    <2>1. handled' = handled
      BY <1>2 DEF RecordProcessed, DeadLetter, SkipProcessed, consumerVars
    <2>2. PICK d \in todo[r] : IsNext(r, d) /\ outbox[d[1]] \notin Undecodable
      BY <1>2 DEF RecordProcessed, DeadLetter, SkipProcessed, BlockInv, AttemptsAreDecodable
    <2>3. \A c \in todo[r] : IsNext(r, c) => c = d
      BY <1>t, <2>2, NextIsUnique
    <2>4. d[2] \in Subscribers /\ outbox[d[1]] \in Events
      BY <1>t, PositionsFacts, PairFacts DEF TypeOK
    <2>5. e \notin processed'[s]
      <3>1. CASE processed' = processed
        BY <1>e, <3>1 DEF Settled
      <3>2. CASE RecordProcessed(r)
        <4>1. processed' = [processed EXCEPT ![d[2]] = @ \cup {outbox[d[1]]}]
          BY <2>3, <3>2 DEF RecordProcessed
        <4> QED
          BY <1>e, <1>t, <2>2, <4>1 DEF Settled, TypeOK
      <3> QED
        BY <1>2, <3>1, <3>2 DEF DeadLetter, SkipProcessed, consumerVars
    <2>6. e \notin DeadLettered(s)'
      <3>1. CASE deadLetters' = deadLetters
        BY <1>e, <3>1 DEF Settled, DeadLettered
      <3>2. CASE DeadLetter(r)
        <4>1. deadLetters' = [deadLetters EXCEPT ![d[2]] = Append(@, outbox[d[1]])]
          BY <2>3, <3>2 DEF DeadLetter
        <4>2. deadLetters[s] \in Seq(Events) /\ e \notin DeadLettered(s)
          BY <1>e, <1>t DEF Settled, TypeOK
        <4>3. \/ deadLetters'[s] = deadLetters[s]
              \/ deadLetters'[s] = Append(deadLetters[s], outbox[d[1]])
          BY <1>t, <4>1 DEF TypeOK
        <4>4. {Append(deadLetters[s], outbox[d[1]])[i] :
                 i \in DOMAIN Append(deadLetters[s], outbox[d[1]])}
                = {deadLetters[s][i] : i \in DOMAIN deadLetters[s]} \cup {outbox[d[1]]}
          BY <2>4, <4>2, AppendFacts
        <4>5. CASE deadLetters'[s] = deadLetters[s]
          BY <4>2, <4>5 DEF DeadLettered
        <4>6. CASE deadLetters'[s] = Append(deadLetters[s], outbox[d[1]])
          <5>1. DeadLettered(s)' = DeadLettered(s) \cup {outbox[d[1]]}
            BY <4>4, <4>6 DEF DeadLettered
          <5> QED
            BY <2>2, <4>2, <5>1
        <4> QED
          BY <4>3, <4>5, <4>6
      <3> QED
        BY <1>2, <3>1, <3>2 DEF RecordProcessed, SkipProcessed, consumerVars
    <2> QED
      BY <1>e, <2>1, <2>5, <2>6 DEF Settled
  <1>3. CASE UNCHANGED consumerVars
    BY <1>3, <1>e, SettledUnchanged DEF consumerVars
  <1>4. ASSUME NEW r \in Relays,
               \/ FetchPending(r) \/ PortRejects(r) \/ DeserializeThrows(r) \/ StartHandling(r)
               \/ HandlerFails(r) \/ RecordFails(r) \/ RetryAfterDelay(r) \/ MarkPublished(r)
        PROVE  UNCHANGED consumerVars
    BY <1>4 DEF FetchPending, PortRejects, DeserializeThrows, StartHandling, HandlerFails,
       RecordFails, Catch, RetryAfterDelay, MarkPublished
  <1>5. CASE (\E e2 \in Events : Write(e2)) \/ UNCHANGED vars
    BY <1>3, <1>5 DEF Write, vars, consumerVars
  <1> QED
    BY <1>1, <1>2, <1>3, <1>4, <1>5 DEF Next, Drain

LEMMA StepUndecodableBlocks ==
    ASSUME IInv, BlockInv, [Next]_vars
    PROVE  UndecodableBlocksOutbox'
  <1>t. TypeOK
    BY DEF IInv
  <1> SUFFICES ASSUME NEW p \in Positions', NEW q \in Positions', p <= q,
                      outbox'[p] \in Undecodable, Listeners(outbox[p])' # {}
               PROVE  /\ outbox'[q] \notin published'
                      /\ \A s \in Subscribers : handled'[s][outbox'[q]] = 0
    BY DEF UndecodableBlocksOutbox
  <1>1. ASSUME NEW e \in Events, Write(e), q \notin Positions
        PROVE  /\ outbox'[q] \notin published'
               /\ \A s \in Subscribers : handled'[s][outbox'[q]] = 0
    <2>1. outbox'[q] = e /\ e \notin Written /\ published' = published /\ handled' = handled
      BY <1>t, <1>1, AppendFacts DEF Write, TypeOK, Positions, consumerVars
    <2>2. \A s \in Subscribers : handled[s][e] = 0
      BY <1>t, <2>1 DEF IInv, OnlyWritten, TypeOK
    <2> QED
      BY <1>t, <2>1, <2>2 DEF TypeOK
  <1>2. ASSUME q \notin Positions
        PROVE  \E e \in Events : Write(e)
    BY <1>2, <1>t, StepKinds
    DEF Positions, FetchPending, HandlerSucceeds, MarkPublished, Settles, OnlyControl
  <1>3. ASSUME q \in Positions
        PROVE  /\ outbox'[q] \notin published'
               /\ \A s \in Subscribers : handled'[s][outbox'[q]] = 0
    <2>1. p \in Positions /\ p \in Nat /\ q \in Nat
      <3>1. outbox' \in Seq(Events)
        BY StepIInv DEF IInv, TypeOK
      <3>2. Positions' = 1..Len(outbox') /\ Len(outbox') \in Nat
        BY <3>1 DEF Positions
      <3>3. Positions = 1..Len(outbox) /\ Len(outbox) \in Nat
        BY <1>t, PositionsFacts DEF TypeOK
      <3>4. p \in Nat /\ p >= 1 /\ q \in Nat /\ q <= Len(outbox)
        BY <1>3, <3>2, <3>3
      <3> QED
        BY <3>3, <3>4
    <2>2. /\ outbox'[p] = outbox[p] /\ outbox'[q] = outbox[q]
          /\ Listeners(outbox[p])' = Listeners(outbox[p]) /\ outbox[q] \in Events
      BY <1>3, <1>t, <2>1, StepGrows, PositionsFacts
    <2>3. PICK l \in Listeners(outbox[p]) : TRUE
      BY <2>2
    <2>4. /\ outbox[q] \notin published
          /\ \A s \in Subscribers : handled[s][outbox[q]] = 0
      BY <1>3, <2>1, <2>2 DEF BlockInv, UndecodableBlocksOutbox
    <2>5. ASSUME NEW r \in Relays, MarkPublished(r)
          PROVE  outbox[q] \notin published'
      <3>1. todo[r] = {} /\ published' = published \cup {outbox[x] : x \in batch[r]}
        BY <2>5 DEF MarkPublished
      <3>2. SUFFICES ASSUME NEW x \in batch[r], outbox[x] = outbox[q]
                     PROVE  FALSE
        BY <2>4, <3>1
      <3>3. x = q
        BY <1>3, <1>t, <3>2 DEF IInv, UniqueIds, TypeOK
      <3> QED
        BY <2>1, <2>2, <2>3, <3>1, <3>3, BlockerIsOwed
    <2>6. ASSUME NEW r \in Relays, HandlerSucceeds(r), NEW s \in Subscribers
          PROVE  handled'[s][outbox[q]] = 0
      <3>1. PICK d \in todo[r] :
               /\ IsNext(r, d)
               /\ handled' = [handled EXCEPT ![d[2]][outbox[d[1]]] = @ + 1]
        BY <2>6 DEF HandlerSucceeds
      <3>2. outbox[d[1]] # outbox[q]
        <4> SUFFICES ASSUME outbox[d[1]] = outbox[q] PROVE FALSE
          OBVIOUS
        <4>1. d[1] \in Positions /\ d[1] \in batch[r]
          BY <1>t, PairFacts DEF IInv, TodoIsOfBatch, TypeOK
        <4>2. d[1] = q
          BY <1>3, <4>1 DEF IInv, UniqueIds
        <4>3. <<p, l>> \in todo[r]
          BY <2>1, <2>2, <4>1, <4>2, BlockerIsOwed
        <4>4. q = p
          BY <2>1, <3>1, <4>2, <4>3 DEF IsNext
        <4> QED
          BY <2>2, <2>6, <3>1, <4>2, <4>4 DEF HandlerSucceeds, BlockInv, AttemptsAreDecodable
      <3> QED
        BY <1>t, <2>2, <2>4, <3>1, <3>2 DEF TypeOK
    <2>7. outbox[q] \notin published'
      <3>1. CASE published' = published
        BY <2>4, <3>1
      <3>2. published' = published \/ \E r \in Relays : MarkPublished(r)
        BY <1>t, StepKinds DEF Write, FetchPending, HandlerSucceeds, Settles, OnlyControl
      <3> QED
        BY <2>5, <3>1, <3>2
    <2>8. \A s \in Subscribers : handled'[s][outbox[q]] = 0
      <3>1. CASE handled' = handled
        BY <2>4, <3>1
      <3>2. handled' = handled \/ \E r \in Relays : HandlerSucceeds(r)
        BY <1>t, StepKinds
        DEF Write, FetchPending, MarkPublished, Settles, OnlyControl, consumerVars
      <3> QED
        BY <2>6, <3>1, <3>2
    <2> QED
      BY <2>2, <2>7, <2>8
  <1> QED
    BY <1>1, <1>2, <1>3

-----------------------------------------------------------------------------
(* One outcome per delivery                                                 *)

(* A dead letter more of an event, and none of any other.                   *)
LEMMA DeadLettersAreCounted ==
    ASSUME NEW q \in Seq(Events), NEW e \in Events
    PROVE  /\ Cardinality({i \in DOMAIN Append(q, e) : Append(q, e)[i] = e})
                = Cardinality({i \in DOMAIN q : q[i] = e}) + 1
           /\ \A x \in Events \ {e} :
                 Cardinality({i \in DOMAIN Append(q, e) : Append(q, e)[i] = x})
                   = Cardinality({i \in DOMAIN q : q[i] = x})
  <1>1. PICK n \in Nat : n = Len(q) /\ DOMAIN q = 1..n
    OBVIOUS
  <1>2. /\ DOMAIN Append(q, e) = 1..(n + 1)
        /\ \A i \in 1..n : Append(q, e)[i] = q[i]
        /\ Append(q, e)[n + 1] = e
    BY <1>1
  <1>3. {i \in DOMAIN Append(q, e) : Append(q, e)[i] = e} = {i \in 1..n : q[i] = e} \cup {n + 1}
    BY <1>2
  <1>4. ASSUME NEW x \in Events \ {e}
        PROVE  {i \in DOMAIN Append(q, e) : Append(q, e)[i] = x} = {i \in 1..n : q[i] = x}
    BY <1>2
  <1>5. IsFiniteSet({i \in 1..n : q[i] = e}) /\ n + 1 \notin {i \in 1..n : q[i] = e}
    <2>1. IsFiniteSet(1..n)
      BY FS_Interval
    <2>2. IsFiniteSet({i \in 1..n : q[i] = e})
      BY <2>1, FS_Subset
    <2> QED
      BY <2>2
  <1>6. Cardinality({i \in 1..n : q[i] = e} \cup {n + 1}) = Cardinality({i \in 1..n : q[i] = e}) + 1
    BY <1>5, FS_AddElement
  <1> QED
    BY <1>1, <1>3, <1>4, <1>6

LEMMA TimesDeadLetteredType ==
    ASSUME TypeOK, NEW s \in Subscribers, NEW e
    PROVE  /\ TimesDeadLettered(s, e) \in Nat
           /\ e \notin DeadLettered(s) => TimesDeadLettered(s, e) = 0
  <1>1. PICK n \in Nat : DOMAIN deadLetters[s] = 1..n
    BY DEF TypeOK
  <1>2. IsFiniteSet({i \in 1..n : deadLetters[s][i] = e})
    <2>1. IsFiniteSet(1..n)
      BY FS_Interval
    <2> QED
      BY <2>1, FS_Subset
  <1>3. e \notin DeadLettered(s) => {i \in 1..n : deadLetters[s][i] = e} = {}
    BY <1>1 DEF DeadLettered
  <1> QED
    BY <1>1, <1>2, <1>3, FS_CardinalityType, FS_EmptySet DEF TimesDeadLettered

(* The outcomes of the delivery of the entry at p to s so far.              *)
Outcomes(p, s) == handled[s][outbox[p]] + TimesDeadLettered(s, outbox[p])

ToCome(p, s) == Owed(p, s) /\ ~BeingRecorded(p, s)

(* While one relay's drain goes on, or starts, no other holds anything.     *)
LEMMA OthersAreIdle ==
    ASSUME IInv, BatchIsPending, DrainsAreAlone, DrainsAreAlone',
           NEW x \in Relays, FetchPending(x) \/ Drain(x) \/ PortRejects(x),
           NEW r \in Relays \ {x}
    PROVE  /\ pc[r] = "idle" /\ batch[r] = {} /\ todo[r] = {}
           /\ pc'[r] = "idle" /\ batch'[r] = {} /\ todo'[r] = {}
  <1>t. TypeOK
    BY DEF IInv
  <1>1. pc'[r] = pc[r] /\ batch'[r] = batch[r] /\ todo'[r] = todo[r]
    <2>1. CASE FetchPending(x)
      BY <2>1, <1>t DEF FetchPending, TypeOK
    <2>2. CASE DrainRejects(x)
      BY <2>2, <1>t DEF DrainRejects, TypeOK
    <2>3. CASE \E d \in todo[x] : Acknowledge(x, d)
      BY <2>3, <1>t DEF Acknowledge, TypeOK
    <2>4. CASE \/ StartHandling(x) \/ HandlerSucceeds(x) \/ HandlerFails(x) \/ RecordFails(x)
               \/ RetryAfterDelay(x) \/ MarkPublished(x)
      BY <2>4, <1>t DEF StartHandling, HandlerSucceeds, HandlerFails, RecordFails, Catch,
         RetryAfterDelay, MarkPublished, TypeOK
    <2> QED
      BY <2>1, <2>2, <2>3, <2>4 DEF Drain, PortRejects, DeserializeThrows, SkipProcessed,
         RecordProcessed, DeadLetter
  <1>2. pc[x] # "idle" \/ pc'[x] # "idle"
    <2>1. CASE FetchPending(x)
      BY <2>1, <1>t DEF FetchPending, TypeOK
    <2>2. CASE Drain(x) \/ PortRejects(x)
      BY <2>2 DEF Drain, PortRejects, DeserializeThrows, SkipProcessed, StartHandling,
         HandlerSucceeds, HandlerFails, RecordProcessed, RecordFails, RetryAfterDelay,
         DeadLetter, MarkPublished
    <2> QED
      BY <2>1, <2>2
  <1>3. pc[r] = "idle"
    BY <1>1, <1>2 DEF DrainsAreAlone
  <1>4. batch[r] = {}
    BY <1>3 DEF BatchIsPending
  <1>5. todo[r] = {}
    BY <1>4 DEF IInv, TodoIsOfBatch
  <1> QED
    BY <1>1, <1>3, <1>4, <1>5

LEMMA StepBatchIsPending ==
    ASSUME DrainsAreAlone, DrainsAreAlone', IInv, OutcomeInv, [Next]_vars
    PROVE  BatchIsPending'
  <1>t. TypeOK
    BY DEF IInv
  <1> SUFFICES ASSUME NEW x \in Relays
               PROVE  /\ \A p \in batch'[x] : outbox'[p] \notin published'
                      /\ pc'[x] = "idle" => batch'[x] = {}
    BY DEF BatchIsPending
  <1>1. /\ \A p \in batch[x] : outbox[p] \notin published
        /\ pc[x] = "idle" => batch[x] = {}
    BY DEF OutcomeInv, BatchIsPending
  <1>2. \A p \in batch[x] : outbox'[p] = outbox[p]
    BY <1>t, StepGrows DEF TypeOK
  <1>3. ASSUME NEW r \in Relays \ {x}, FetchPending(r) \/ Drain(r) \/ PortRejects(r)
        PROVE  batch'[x] = {}
    BY <1>3, OthersAreIdle DEF OutcomeInv
  <1>4. CASE MarkPublished(x)
    BY <1>4, <1>t DEF MarkPublished, TypeOK
  <1>5. CASE FetchPending(x)
    <2>1. batch'[x] = OldestPending(BatchSize) /\ pc'[x] = "delivering"
      BY <1>5, <1>t DEF FetchPending, TypeOK
    <2>2. \A p \in OldestPending(BatchSize) : outbox[p] \notin published
      BY <1>t, OldestPendingIsPrefix DEF Pending
    <2> QED
      BY <1>5, <2>1, <2>2 DEF FetchPending
  <1>6. CASE DrainRejects(x) /\ UNCHANGED <<outbox, published>>
    BY <1>6, <1>t DEF DrainRejects, TypeOK
  <1>7. CASE /\ UNCHANGED <<published, batch>>
             /\ pc'[x] = "idle" => pc[x] = "idle"
    BY <1>1, <1>2, <1>7
  <1>8. CASE SkipProcessed(x) \/ RecordProcessed(x) \/ DeadLetter(x)
    <2>1. UNCHANGED <<published, batch>> /\ pc'[x] = "delivering"
      BY <1>8, <1>t DEF SkipProcessed, RecordProcessed, DeadLetter, Acknowledge, TypeOK
    <2> QED
      BY <1>7, <2>1
  <1>9. CASE \/ StartHandling(x) \/ HandlerSucceeds(x) \/ HandlerFails(x) \/ RecordFails(x)
             \/ RetryAfterDelay(x)
    <2>1. UNCHANGED <<published, batch>> /\ pc'[x] # "idle"
      BY <1>9, <1>t DEF StartHandling, HandlerSucceeds, HandlerFails, RecordFails, Catch,
         RetryAfterDelay, TypeOK
    <2> QED
      BY <1>7, <2>1
  <1>10. CASE DeserializeThrows(x) \/ PortRejects(x)
    BY <1>6, <1>10 DEF DeserializeThrows, PortRejects
  <1>11. CASE (\E e \in Events : Write(e)) \/ UNCHANGED vars
    BY <1>7, <1>11 DEF Write, relayVars, vars
  <1>12. CASE FetchPending(x) \/ Drain(x) \/ PortRejects(x)
    BY <1>4, <1>5, <1>8, <1>9, <1>10, <1>12 DEF Drain
  <1> QED
    BY <1>3, <1>11, <1>12 DEF Next

LEMMA StepRecordingWasHandled ==
    ASSUME DrainsAreAlone, DrainsAreAlone', ~RecordMayFail, IInv, OutcomeInv, [Next]_vars
    PROVE  RecordingWasHandled'
  <1>t. TypeOK
    BY DEF IInv
  <1> SUFFICES ASSUME NEW x \in Relays, NEW d \in todo'[x], pc'[x] = "recording", IsNext(x, d)'
               PROVE  handled'[d[2]][outbox'[d[1]]] > 0
    BY DEF RecordingWasHandled
  <1>1. ASSUME NEW r \in Relays \ {x}, FetchPending(r) \/ Drain(r) \/ PortRejects(r)
        PROVE  FALSE
    <2>1. pc'[x] = "idle"
      BY <1>1, OthersAreIdle DEF OutcomeInv
    <2> QED
      BY <2>1
  <1>2. CASE HandlerSucceeds(x)
    <2>1. PICK c \in todo[x] :
             /\ IsNext(x, c)
             /\ handled' = [handled EXCEPT ![c[2]][outbox[c[1]]] = @ + 1]
      BY <1>2 DEF HandlerSucceeds
    <2>2. c = d
      <3>1. IsNext(x, d)
        BY <1>2 DEF HandlerSucceeds, IsNext
      <3> QED
        BY <1>t, <2>1, <3>1, NextIsUnique
    <2>3. c[2] \in Subscribers /\ outbox[c[1]] \in Events /\ outbox' = outbox
      BY <1>2, <1>t, PairFacts, PositionsFacts DEF TypeOK, HandlerSucceeds
    <2> QED
      BY <1>t, <2>1, <2>2, <2>3 DEF TypeOK
  <1>3. ASSUME pc[x] = "recording", todo'[x] = todo[x], handled' = handled
        PROVE  handled'[d[2]][outbox'[d[1]]] > 0
    <2>1. d \in todo[x] /\ IsNext(x, d)
      BY <1>3 DEF IsNext
    <2>2. d[1] \in Positions
      BY <1>t, <2>1, PairFacts DEF TypeOK
    <2>3. outbox'[d[1]] = outbox[d[1]]
      BY <1>t, <2>2, StepGrows
    <2> QED
      BY <1>3, <2>1, <2>3 DEF OutcomeInv, RecordingWasHandled
  <1>4. CASE (\E e \in Events : Write(e)) \/ UNCHANGED vars
    BY <1>3, <1>4 DEF Write, relayVars, consumerVars, vars
  <1>5. CASE \/ FetchPending(x) \/ MarkPublished(x) \/ DrainRejects(x)
             \/ \E c \in todo[x] : Acknowledge(x, c)
    BY <1>5, <1>t DEF FetchPending, MarkPublished, DrainRejects, Acknowledge, TypeOK
  <1>6. CASE StartHandling(x) \/ HandlerFails(x) \/ RecordFails(x) \/ RetryAfterDelay(x)
    BY <1>6, <1>t DEF StartHandling, HandlerFails, RecordFails, Catch, RetryAfterDelay, TypeOK
  <1>7. ASSUME DeserializeThrows(x) \/ PortRejects(x) \/ SkipProcessed(x)
                 \/ RecordProcessed(x) \/ DeadLetter(x)
        PROVE  DrainRejects(x) \/ \E c \in todo[x] : Acknowledge(x, c)
    BY <1>7 DEF DeserializeThrows, PortRejects, SkipProcessed, RecordProcessed, DeadLetter
  <1>8. CASE FetchPending(x) \/ Drain(x) \/ PortRejects(x)
    BY <1>2, <1>5, <1>6, <1>7, <1>8 DEF Drain
  <1> QED
    BY <1>1, <1>4, <1>8 DEF Next

LEMMA StepProcessedWasHandled ==
    ASSUME IInv, OutcomeInv, [Next]_vars
    PROVE  ProcessedWasHandled'
  <1>t. TypeOK
    BY DEF IInv
  <1> SUFFICES ASSUME NEW s \in Subscribers, NEW e \in processed'[s]
               PROVE  handled'[s][e] > 0
    BY DEF ProcessedWasHandled
  <1>1. ASSUME processed' = processed, handled' = handled
        PROVE  handled'[s][e] > 0
    BY <1>1 DEF OutcomeInv, ProcessedWasHandled
  <1>2. ASSUME NEW r \in Relays, HandlerSucceeds(r)
        PROVE  handled'[s][e] > 0
    <2>1. PICK d \in todo[r] : handled' = [handled EXCEPT ![d[2]][outbox[d[1]]] = @ + 1]
      BY <1>2 DEF HandlerSucceeds
    <2>2. e \in processed[s] /\ e \in Events
      BY <1>2, <1>t DEF HandlerSucceeds, TypeOK
    <2>3. handled[s][e] > 0 /\ handled[s][e] \in Nat
      BY <1>t, <2>2 DEF OutcomeInv, ProcessedWasHandled, TypeOK
    <2>4. handled'[s][e] = handled[s][e] \/ handled'[s][e] = handled[s][e] + 1
      BY <1>t, <2>1, <2>2 DEF TypeOK
    <2> QED
      BY <2>3, <2>4
  <1>3. ASSUME NEW r \in Relays, RecordProcessed(r)
        PROVE  handled'[s][e] > 0
    <2>1. PICK d \in todo[r] :
             /\ IsNext(r, d)
             /\ processed' = [processed EXCEPT ![d[2]] = @ \cup {outbox[d[1]]}]
      BY <1>3 DEF RecordProcessed
    <2>2. pc[r] = "recording" /\ handled' = handled
      BY <1>3 DEF RecordProcessed
    <2>3. handled[d[2]][outbox[d[1]]] > 0
      BY <2>1, <2>2 DEF OutcomeInv, RecordingWasHandled
    <2>4. e \in processed[s] \/ (s = d[2] /\ e = outbox[d[1]])
      BY <1>t, <2>1 DEF TypeOK
    <2> QED
      BY <2>2, <2>3, <2>4 DEF OutcomeInv, ProcessedWasHandled
  <1>4. ASSUME NEW r \in Relays,
               \/ FetchPending(r) \/ PortRejects(r) \/ DeserializeThrows(r) \/ SkipProcessed(r)
               \/ StartHandling(r) \/ HandlerFails(r) \/ RecordFails(r) \/ RetryAfterDelay(r)
               \/ DeadLetter(r) \/ MarkPublished(r)
        PROVE  processed' = processed /\ handled' = handled
    BY <1>4 DEF FetchPending, PortRejects, DeserializeThrows, SkipProcessed, StartHandling,
       HandlerFails, RecordFails, Catch, RetryAfterDelay, DeadLetter, MarkPublished, consumerVars
  <1>5. CASE (\E e2 \in Events : Write(e2)) \/ UNCHANGED vars
    BY <1>1, <1>5 DEF Write, vars, consumerVars
  <1> QED
    BY <1>1, <1>2, <1>3, <1>4, <1>5 DEF Next, Drain

(* A consumer whose dead letters are unchanged has the same count of them.  *)
LEMMA TimesUnchanged ==
    ASSUME NEW s, NEW e, deadLetters'[s] = deadLetters[s]
    PROVE  TimesDeadLettered(s, e)' = TimesDeadLettered(s, e)
  BY DEF TimesDeadLettered

(* A dead letter of y at z is one outcome of y at z.                        *)
LEMMA DeadLetterIsOutcome ==
    ASSUME TypeOK, NEW z \in Subscribers, NEW y \in Events,
           deadLetters' = [deadLetters EXCEPT ![z] = Append(@, y)],
           NEW s \in Subscribers, NEW e \in Events
    PROVE  TimesDeadLettered(s, e)' =
               TimesDeadLettered(s, e) + (IF s = z /\ e = y THEN 1 ELSE 0)
  <1>t. TimesDeadLettered(s, e) \in Nat
    BY TimesDeadLetteredType
  <1>1. CASE s # z
    <2>1. deadLetters'[s] = deadLetters[s]
      BY <1>1 DEF TypeOK
    <2> QED
      BY <1>t, <1>1, <2>1, TimesUnchanged
  <1>2. CASE s = z
    <2>1. PICK q \in Seq(Events) : q = deadLetters[s]
      BY DEF TypeOK
    <2>2. deadLetters'[s] = Append(q, y)
      BY <1>2, <2>1 DEF TypeOK
    <2>3. /\ TimesDeadLettered(s, e) = Cardinality({i \in DOMAIN q : q[i] = e})
          /\ TimesDeadLettered(s, e)' =
                Cardinality({i \in DOMAIN Append(q, y) : Append(q, y)[i] = e})
      BY <2>1, <2>2 DEF TimesDeadLettered
    <2>4. CASE e = y
      <3>1. Cardinality({i \in DOMAIN Append(q, e) : Append(q, e)[i] = e})
              = Cardinality({i \in DOMAIN q : q[i] = e}) + 1
        BY DeadLettersAreCounted
      <3> QED
        BY <1>2, <2>3, <2>4, <3>1
    <2>5. CASE e # y
      <3>1. \A v \in Events \ {y} :
               Cardinality({i \in DOMAIN Append(q, y) : Append(q, y)[i] = v})
                 = Cardinality({i \in DOMAIN q : q[i] = v})
        BY DeadLettersAreCounted
      <3>2. TimesDeadLettered(s, e)' = TimesDeadLettered(s, e)
        <4>1. e \in Events \ {y}
          BY <2>5
        <4> QED
          BY <2>3, <3>1, <4>1, Zenon
      <3> QED
        BY <1>t, <2>5, <3>2
    <2> QED
      BY <2>4, <2>5
  <1> QED
    BY <1>1, <1>2

(* The counts change exactly when the delivery comes to its end.            *)
LEMMA StepOutcomeAtTheEnd ==
    ASSUME DrainsAreAlone, DrainsAreAlone', ~RecordMayFail, IInv, OutcomeInv, [Next]_vars
    PROVE  OutcomeAtTheEnd'
  <1>t. TypeOK
    BY DEF IInv
  <1> SUFFICES ASSUME rejections' = 0, NEW p \in Positions', NEW s \in Listeners(outbox[p])'
               PROVE  Outcomes(p, s)' = IF ToCome(p, s)' THEN 0 ELSE 1
    BY DEF OutcomeAtTheEnd, Outcomes, ToCome
  <1>s. s \in Subscribers
    BY DEF Listeners
  <1>r. rejections = 0
    <2>1. rejections \in Nat
      BY <1>t, BackboneAssumption DEF TypeOK
    <2>2. rejections' = rejections \/ rejections' = rejections + 1
      BY DEF Next, Drain, vars, Write, FetchPending, PortRejects, DeserializeThrows, DrainRejects,
         SkipProcessed, StartHandling, HandlerSucceeds, HandlerFails, RecordFails, Catch,
         RecordProcessed, RetryAfterDelay, DeadLetter, MarkPublished
    <2> QED
      BY <2>1, <2>2
  <1>1. ASSUME NEW e \in Events, Write(e), p \notin Positions
        PROVE  Outcomes(p, s)' = IF ToCome(p, s)' THEN 0 ELSE 1
    <2>1. /\ outbox'[p] = e /\ e \notin Written
          /\ published' = published /\ handled' = handled /\ deadLetters' = deadLetters
          /\ batch' = batch /\ todo' = todo /\ pc' = pc
      BY <1>t, <1>1, AppendFacts DEF Write, TypeOK, Positions, consumerVars, relayVars
    <2>2. handled[s][e] = 0 /\ e \notin DeadLettered(s)
      BY <1>s, <1>t, <2>1 DEF IInv, OnlyWritten, TypeOK, Settled
    <2>3. TimesDeadLettered(s, e)' = 0
      BY <1>t, <1>s, <2>1, <2>2, TimesDeadLetteredType DEF TimesDeadLettered
    <2>4. ToCome(p, s)'
      <3>1. outbox'[p] \notin published'
        BY <1>t, <2>1 DEF TypeOK
      <3>2. \A r \in Relays : p \notin batch[r] /\ <<p, s>> \notin todo[r]
        BY <1>t, <1>1 DEF TypeOK
      <3> QED
        BY <2>1, <3>1, <3>2 DEF ToCome, Owed, BeingRecorded, IsNext
    <2> QED
      BY <2>1, <2>2, <2>3, <2>4 DEF Outcomes, TimesDeadLettered
  <1>2. ASSUME p \notin Positions
        PROVE  \E e \in Events : Write(e)
    BY <1>2, <1>t, StepKinds
    DEF Positions, FetchPending, HandlerSucceeds, MarkPublished, Settles, OnlyControl
  <1>3. ASSUME p \in Positions
        PROVE  Outcomes(p, s)' = IF ToCome(p, s)' THEN 0 ELSE 1
    <2> DEFINE d == <<p, s>>
    <2>e. PICK e \in Events : e = outbox[p]
      BY <1>3, <1>t, PositionsFacts DEF TypeOK
    <2> USE <2>e
    <2>1. outbox'[p] = e /\ s \in Listeners(e) /\ e \in Events /\ p \in Nat
      BY <1>3, <1>t, StepGrows, PositionsFacts DEF Listeners
    <2>2. Outcomes(p, s) = IF ToCome(p, s) THEN 0 ELSE 1
      BY <1>3, <1>r, <2>1 DEF OutcomeInv, OutcomeAtTheEnd, Outcomes, ToCome
    <2>3. handled[s][e] \in Nat /\ TimesDeadLettered(s, e) \in Nat
      BY <1>t, <1>s, <2>1, TimesDeadLetteredType DEF TypeOK
    (* Where nobody's counts change, it is left to show what is to come.    *)
    <2>4. ASSUME handled'[s][e] = handled[s][e],
                 TimesDeadLettered(s, e)' = TimesDeadLettered(s, e),
                 ToCome(p, s)' <=> ToCome(p, s)
          PROVE  Outcomes(p, s)' = IF ToCome(p, s)' THEN 0 ELSE 1
      BY <2>1, <2>2, <2>4 DEF Outcomes, TimesDeadLettered
    <2>5. CASE (\E x \in Events : Write(x)) \/ UNCHANGED vars
      <3>1. UNCHANGED <<published, batch, todo, pc, handled, deadLetters>>
        BY <2>5 DEF Write, relayVars, consumerVars, vars
      <3>2. ToCome(p, s)' <=> ToCome(p, s)
        BY <2>1, <3>1 DEF ToCome, Owed, BeingRecorded, IsNext
      <3> QED
        BY <2>4, <3>1, <3>2, TimesUnchanged
    <2>6. ASSUME NEW x \in Relays, FetchPending(x) \/ Drain(x) \/ PortRejects(x)
          PROVE  Outcomes(p, s)' = IF ToCome(p, s)' THEN 0 ELSE 1
      <3>1. \A r \in Relays \ {x} : /\ pc[r] = "idle" /\ batch[r] = {}
                                    /\ pc'[r] = "idle" /\ batch'[r] = {}
        BY <2>6, OthersAreIdle DEF OutcomeInv
      <3>2. ToCome(p, s) <=> /\ e \notin published
                             /\ p \in batch[x] => d \in todo[x]
                             /\ ~(pc[x] = "recording" /\ IsNext(x, d))
        BY <3>1 DEF ToCome, Owed, BeingRecorded
      <3>3. ToCome(p, s)' <=> /\ e \notin published'
                              /\ p \in batch'[x] => d \in todo'[x]
                              /\ ~(pc'[x] = "recording" /\ IsNext(x, d)')
        BY <2>1, <3>1 DEF ToCome, Owed, BeingRecorded
      <3>4. /\ d \in todo[x] => p \in batch[x]
            /\ p \in batch[x] => e \notin published
        BY DEF IInv, TodoIsOfBatch, OutcomeInv, BatchIsPending
      <3>5. ASSUME UNCHANGED <<published, batch, todo, handled, deadLetters>>,
                   pc[x] # "recording", pc'[x] # "recording"
            PROVE  Outcomes(p, s)' = IF ToCome(p, s)' THEN 0 ELSE 1
        <4>1. ToCome(p, s)' <=> ToCome(p, s)
          BY <3>2, <3>3, <3>5
        <4> QED
          BY <2>4, <3>5, <4>1, TimesUnchanged
      <3>6. CASE FetchPending(x)
        <4>1. /\ batch[x] = {} /\ pc[x] = "idle" /\ pc'[x] = "delivering"
              /\ batch'[x] = OldestPending(BatchSize)
              /\ todo'[x] = {c \in OldestPending(BatchSize) \X Subscribers :
                                c[2] \in Listeners(outbox[c[1]])}
              /\ UNCHANGED <<published, handled, deadLetters>>
          BY <1>t, <3>6 DEF FetchPending, OutcomeInv, BatchIsPending, TypeOK, consumerVars
        <4>2. p \in batch'[x] => d \in todo'[x]
          BY <1>s, <2>1, <4>1
        <4>3. ToCome(p, s)' <=> ToCome(p, s)
          BY <3>2, <3>3, <4>1, <4>2
        <4> QED
          BY <2>4, <4>1, <4>3, TimesUnchanged
      <3>7. CASE MarkPublished(x)
        <4>1. /\ todo[x] = {} /\ pc[x] = "delivering" /\ pc'[x] = "idle"
              /\ published' = published \cup {outbox[q] : q \in batch[x]} /\ batch'[x] = {}
              /\ UNCHANGED <<handled, deadLetters>>
          BY <1>t, <3>7 DEF MarkPublished, TypeOK, consumerVars
        <4>2. e \in published' <=> e \in published \/ p \in batch[x]
          <5>1. \A q \in batch[x] : outbox[q] = e => q = p
            BY <1>3, <1>t DEF IInv, UniqueIds, TypeOK
          <5> QED
            BY <4>1, <5>1
        <4>3. ToCome(p, s)' <=> ToCome(p, s)
          BY <3>2, <3>3, <4>1, <4>2
        <4> QED
          BY <2>4, <4>1, <4>3, TimesUnchanged
      <3>8. CASE StartHandling(x) \/ HandlerFails(x) \/ RetryAfterDelay(x)
        <4>1. /\ UNCHANGED <<published, batch, todo, handled, deadLetters>>
              /\ pc[x] # "recording" /\ pc'[x] # "recording"
          BY <1>t, <3>8 DEF StartHandling, HandlerFails, Catch, RetryAfterDelay, TypeOK, consumerVars
        <4> QED
          BY <3>5, <4>1
      <3>9. CASE HandlerSucceeds(x)
        <4>1. PICK c \in todo[x] :
                 /\ IsNext(x, c)
                 /\ handled' = [handled EXCEPT ![c[2]][outbox[c[1]]] = @ + 1]
          BY <3>9 DEF HandlerSucceeds
        <4>2. /\ UNCHANGED <<published, batch, todo, deadLetters>>
              /\ pc[x] = "handling" /\ pc'[x] = "recording"
          BY <1>t, <3>9 DEF HandlerSucceeds, TypeOK
        <4>3. IsNext(x, d)' <=> IsNext(x, d)
          BY <4>2 DEF IsNext
        <4>4. IsNext(x, d) <=> d = c
          BY <1>t, <4>1, NextIsUnique
        <4>5. c[1] \in Positions /\ c = <<c[1], c[2]>> /\ c[2] \in Subscribers
          BY <1>t, PairFacts DEF TypeOK
        <4>6. CASE d = c
          <5>1. handled'[s][e] = handled[s][e] + 1
            BY <1>t, <1>s, <2>1, <4>1, <4>6 DEF TypeOK
          <5>2. ToCome(p, s) /\ ~ToCome(p, s)'
            BY <3>2, <3>3, <3>4, <4>2, <4>3, <4>4, <4>6
          <5>3. TimesDeadLettered(s, e)' = TimesDeadLettered(s, e)
            BY <4>2, TimesUnchanged
          <5>4. handled[s][e] + TimesDeadLettered(s, e) = 0
            BY <2>2, <5>2 DEF Outcomes
          <5>5. handled'[s][e] + TimesDeadLettered(s, e)' = 1
            BY <2>3, <5>1, <5>3, <5>4
          <5> QED
            BY <2>1, <5>2, <5>5 DEF Outcomes, TimesDeadLettered
        <4>7. CASE d # c
          <5>1. ~(s = c[2] /\ e = outbox[c[1]])
            BY <1>3, <4>5, <4>7 DEF IInv, UniqueIds
          <5>2. handled'[s][e] = handled[s][e]
            BY <1>t, <1>s, <2>1, <4>1, <4>5, <5>1 DEF TypeOK
          <5>3. ToCome(p, s)' <=> ToCome(p, s)
            BY <3>2, <3>3, <4>2, <4>3, <4>4, <4>7
          <5> QED
            BY <2>4, <4>2, <5>2, <5>3, TimesUnchanged
        <4> QED
          BY <4>6, <4>7
      <3>10. ASSUME NEW c \in todo[x], IsNext(x, c), Acknowledge(x, c),
                    UNCHANGED <<published, handled>>
             PROVE  /\ d # c => (ToCome(p, s)' <=> ToCome(p, s))
                    /\ d = c => ~ToCome(p, s)'
                    /\ d = c /\ pc[x] # "recording" => ToCome(p, s)
                    /\ d = c /\ pc[x] = "recording" => ~ToCome(p, s)
        <4>1. batch' = batch /\ todo'[x] = todo[x] \ {c} /\ pc'[x] = "delivering"
          BY <1>t, <3>10 DEF Acknowledge, TypeOK
        <4>2. IsNext(x, d) <=> d = c
          BY <1>t, <3>10, NextIsUnique
        <4> QED
          BY <3>2, <3>3, <3>4, <3>10, <4>1, <4>2
      <3>11. CASE RecordProcessed(x)
        <4>1. PICK c \in todo[x] : IsNext(x, c) /\ Acknowledge(x, c)
          BY <3>11 DEF RecordProcessed
        <4>2. UNCHANGED <<published, handled, deadLetters>> /\ pc[x] = "recording"
          BY <3>11 DEF RecordProcessed
        <4>3. ToCome(p, s)' <=> ToCome(p, s)
          BY <3>10, <4>1, <4>2
        <4> QED
          BY <2>4, <4>2, <4>3, TimesUnchanged
      <3>12. CASE SkipProcessed(x)
        <4>1. PICK c \in todo[x] :
                 IsNext(x, c) /\ Acknowledge(x, c) /\ outbox[c[1]] \in processed[c[2]]
          BY <3>12 DEF SkipProcessed
        <4>2. UNCHANGED <<published, handled, deadLetters>> /\ pc[x] = "delivering"
          BY <3>12 DEF SkipProcessed, consumerVars
        <4>3. d # c
          <5> SUFFICES ASSUME d = c PROVE FALSE
            OBVIOUS
          <5>1. handled[s][e] > 0
            BY <1>s, <4>1 DEF OutcomeInv, ProcessedWasHandled
          <5>2. ToCome(p, s)
            BY <3>10, <4>1, <4>2
          <5>3. handled[s][e] + TimesDeadLettered(s, e) = 0
            BY <2>2, <5>2 DEF Outcomes
          <5> QED
            BY <2>3, <5>1, <5>3
        <4>4. ToCome(p, s)' <=> ToCome(p, s)
          BY <3>10, <4>1, <4>2, <4>3
        <4> QED
          BY <2>4, <4>2, <4>4, TimesUnchanged
      <3>13. CASE DeadLetter(x)
        <4>1. PICK c \in todo[x] :
                 /\ IsNext(x, c) /\ Acknowledge(x, c)
                 /\ deadLetters' = [deadLetters EXCEPT ![c[2]] = Append(@, outbox[c[1]])]
          BY <3>13 DEF DeadLetter
        <4>2. UNCHANGED <<published, handled>> /\ pc[x] = "deadLettering"
          BY <3>13 DEF DeadLetter
        <4>3. /\ c[1] \in Positions /\ c = <<c[1], c[2]>> /\ c[2] \in Subscribers
              /\ outbox[c[1]] \in Events
          BY <1>t, PairFacts, PositionsFacts DEF TypeOK
        <4>4. deadLetters[s] \in Seq(Events)
          BY <1>t, <1>s DEF TypeOK
        <4>5. CASE d = c
          <5>1. deadLetters'[s] = Append(deadLetters[s], e)
            <6>1. c[2] = s /\ outbox[c[1]] = e
              BY <4>5
            <6>2. deadLetters' = [deadLetters EXCEPT ![s] = Append(deadLetters[s], e)]
              BY <4>1, <6>1
            <6>3. s \in DOMAIN deadLetters
              BY <1>t, <1>s DEF TypeOK
            <6> QED
              BY <6>2, <6>3
          <5>2. TimesDeadLettered(s, e)' = TimesDeadLettered(s, e) + 1
            <6>1. PICK q \in Seq(Events) : q = deadLetters[s]
              BY <4>4
            <6>2. Cardinality({i \in DOMAIN Append(q, e) : Append(q, e)[i] = e})
                     = Cardinality({i \in DOMAIN q : q[i] = e}) + 1
              BY <2>1, DeadLettersAreCounted
            <6> QED
              BY <5>1, <6>1, <6>2 DEF TimesDeadLettered
          <5>3. ToCome(p, s) /\ ~ToCome(p, s)'
            BY <3>10, <4>1, <4>2, <4>5
          <5>4. handled[s][e] + TimesDeadLettered(s, e) = 0
            BY <2>2, <5>3 DEF Outcomes
          <5>5. handled'[s][e] + TimesDeadLettered(s, e)' = 1
            BY <2>3, <4>2, <5>2, <5>4
          <5> QED
            BY <2>1, <5>3, <5>5 DEF Outcomes, TimesDeadLettered
        <4>6. CASE d # c
          <5>1. ~(s = c[2] /\ e = outbox[c[1]])
            BY <1>3, <4>3, <4>6 DEF IInv, UniqueIds
          <5>2. \/ deadLetters'[s] = deadLetters[s]
                \/ s = c[2] /\ deadLetters'[s] = Append(deadLetters[s], outbox[c[1]])
            BY <1>t, <1>s, <4>1 DEF TypeOK
          <5>3. TimesDeadLettered(s, e)' = TimesDeadLettered(s, e)
            <6>1. CASE deadLetters'[s] = deadLetters[s]
              BY <6>1, TimesUnchanged
            <6>2. CASE s = c[2] /\ deadLetters'[s] = Append(deadLetters[s], outbox[c[1]])
              <7>1. e \in Events \ {outbox[c[1]]}
                BY <2>1, <5>1, <6>2
              <7>2. PICK q \in Seq(Events) : q = deadLetters[s]
                BY <4>4
              <7>3. PICK y \in Events : y = outbox[c[1]]
                BY <4>3
              <7>4. e # y /\ deadLetters'[s] = Append(q, y)
                BY <6>2, <7>1, <7>2, <7>3
              <7>5. \A z \in Events \ {y} :
                       Cardinality({i \in DOMAIN Append(q, y) : Append(q, y)[i] = z})
                         = Cardinality({i \in DOMAIN q : q[i] = z})
                BY <7>2, <7>3, DeadLettersAreCounted, Zenon
              <7>6. Cardinality({i \in DOMAIN Append(q, y) : Append(q, y)[i] = e})
                       = Cardinality({i \in DOMAIN q : q[i] = e})
                <8>1. e \in Events \ {y}
                  BY <2>e, <7>4
                <8> HIDE <2>e
                <8> QED
                  BY <7>5, <8>1, Zenon
              <7> QED
                BY <7>2, <7>4, <7>6 DEF TimesDeadLettered
            <6> QED
              BY <5>2, <6>1, <6>2
          <5>4. ToCome(p, s)' <=> ToCome(p, s)
            BY <3>10, <4>1, <4>2, <4>6
          <5> QED
            BY <2>4, <4>2, <5>3, <5>4
        <4> QED
          BY <4>5, <4>6
      <3>14. ~(DeserializeThrows(x) \/ PortRejects(x) \/ RecordFails(x))
        BY <1>r DEF DeserializeThrows, PortRejects, DrainRejects, RecordFails
      <3> QED
        BY <2>6, <3>6, <3>7, <3>8, <3>9, <3>11, <3>12, <3>13, <3>14 DEF Drain
    <2> QED
      BY <2>5, <2>6 DEF Next
  <1> QED
    BY <1>1, <1>2, <1>3

-----------------------------------------------------------------------------
(* Outcomes per delivery                                                    *)

LEMMA TimesGrows ==
    ASSUME NEW m \in Nat, NEW a \in Nat, NEW b \in Nat, a <= b
    PROVE  m * a <= m * b /\ m * a \in Nat /\ m * (a + 1) = m * a + m
  <1>1. PICK c \in Nat : b = a + c
    <2>1. b - a \in Nat /\ b = a + (b - a)
      OBVIOUS
    <2> QED
      BY <2>1
  <1>2. m * b = m * a + m * c /\ m * c \in Nat /\ m * a \in Nat
    BY <1>1
  <1>3. m * (a + 1) = m * a + m
    OBVIOUS
  <1> QED
    BY <1>2, <1>3

(* As many slots for each r as w says.                                      *)
Slots(R, w) == UNION {{r} \X (1..w[r]) : r \in R}

LEMMA SlotsAreFinite ==
    ASSUME NEW R, IsFiniteSet(R), NEW m \in Nat, NEW w \in [R -> 0..m]
    PROVE  IsFiniteSet(Slots(R, w)) /\ Cardinality(Slots(R, w)) \in Nat
  <1>1. Slots(R, w) \subseteq R \X (1..m)
    BY DEF Slots
  <1>2. IsFiniteSet(1..m)
    BY FS_Interval
  <1>3. IsFiniteSet(R \X (1..m))
    BY <1>2, FS_Product
  <1>4. IsFiniteSet(Slots(R, w))
    BY <1>1, <1>3, FS_Subset
  <1> QED
    BY <1>4, FS_CardinalityType

(* The slots of one and those of the others.                                *)
LEMMA SlotsOfOne ==
    ASSUME NEW R, IsFiniteSet(R), NEW m \in Nat, NEW w \in [R -> 0..m], NEW x \in R
    PROVE  Cardinality(Slots(R, w)) = Cardinality(Slots(R \ {x}, w)) + w[x]
  <1> DEFINE A == Slots(R \ {x}, w)
             B == {x} \X (1..w[x])
  <1>w. w[x] \in Nat
    OBVIOUS
  <1>1. Slots(R, w) = A \cup B
    BY DEF Slots
  <1>2. A \cap B = {}
    BY DEF Slots
  <1>3. IsFiniteSet(A)
    <2>1. A \subseteq Slots(R, w)
      BY <1>1
    <2>2. IsFiniteSet(Slots(R, w))
      BY SlotsAreFinite
    <2> QED
      BY <2>1, <2>2, FS_Subset
  <1>4. IsFiniteSet(B) /\ Cardinality(B) = w[x]
    <2>1. IsFiniteSet(1..w[x]) /\ Cardinality(1..w[x]) = w[x]
      BY <1>w, FS_Interval
    <2>2. IsFiniteSet({x}) /\ Cardinality({x}) = 1
      BY FS_Singleton
    <2>3. IsFiniteSet(B) /\ Cardinality(B) = Cardinality({x}) * Cardinality(1..w[x])
      BY <2>1, <2>2, FS_Product
    <2> QED
      BY <1>w, <2>1, <2>2, <2>3
  <1> HIDE DEF A, B
  <1>5. Cardinality(A \cup B) = Cardinality(A) + Cardinality(B) - Cardinality(A \cap B)
    BY <1>3, <1>4, FS_Union, Zenon
  <1>6. Cardinality(A \cap B) = 0
    BY <1>2, FS_EmptySet
  <1>7. Cardinality(A) \in Nat
    BY <1>3, FS_CardinalityType
  <1>8. Cardinality(A \cup B) = Cardinality(A) + w[x]
    BY <1>4, <1>5, <1>6, <1>7, <1>w
  <1> QED
    BY <1>1, <1>8 DEF A

(* Changing the slots of one changes their number by the difference.        *)
LEMMA SlotsChange ==
    ASSUME NEW R, IsFiniteSet(R), NEW m \in Nat,
           NEW v \in [R -> 0..m], NEW w \in [R -> 0..m],
           NEW x \in R, \A r \in R \ {x} : v[r] = w[r]
    PROVE  Cardinality(Slots(R, w)) + v[x] = Cardinality(Slots(R, v)) + w[x]
  <1>1. Slots(R \ {x}, v) = Slots(R \ {x}, w)
    BY DEF Slots
  <1>2. /\ Cardinality(Slots(R, v)) = Cardinality(Slots(R \ {x}, v)) + v[x]
        /\ Cardinality(Slots(R, w)) = Cardinality(Slots(R \ {x}, w)) + w[x]
    BY SlotsOfOne
  <1>3. Cardinality(Slots(R \ {x}, v)) \in Nat
    <2>1. Slots(R \ {x}, v) \subseteq Slots(R, v)
      BY DEF Slots
    <2>2. IsFiniteSet(Slots(R, v))
      BY SlotsAreFinite
    <2>3. IsFiniteSet(Slots(R \ {x}, v))
      BY <2>1, <2>2, FS_Subset
    <2> QED
      BY <2>3, FS_CardinalityType
  <1>4. v[x] \in Nat /\ w[x] \in Nat
    OBVIOUS
  <1> QED
    BY <1>1, <1>2, <1>3, <1>4

LEMMA PerDeliveryType == PerDelivery \in Nat \ {0} /\ PerDelivery <= MaxAttempts + 1
  BY BackboneAssumption DEF PerDelivery

LEMMA DueType ==
    ASSUME TypeOK, NEW r \in Relays, NEW s, NEW e
    PROVE  /\ DueInHand(r) \in 0..(MaxAttempts + 2) /\ DueInHand(r) \in Nat
           /\ Due(r, s, e) \in 0..(MaxAttempts + 2) /\ Due(r, s, e) \in Nat
  <1>1. attempt[r] \in Nat /\ attempt[r] <= MaxAttempts /\ MaxAttempts \in Nat
    BY BackboneAssumption DEF TypeOK
  <1>2. DueInHand(r) \in 0..(MaxAttempts + 2)
    BY <1>1, PerDeliveryType DEF DueInHand
  <1>3. PerDelivery \in 0..(MaxAttempts + 2) /\ 0 \in 0..(MaxAttempts + 2)
    BY <1>1, PerDeliveryType
  <1>4. Due(r, s, e) \in 0..(MaxAttempts + 2)
    BY <1>2, <1>3 DEF Due
  <1> QED
    BY <1>1, <1>2, <1>4

(* What is due changes by what is due at the one relay that moves.          *)
LEMMA DueChange ==
    ASSUME TypeOK, TypeOK', IsFiniteSet(Relays), NEW x \in Relays, NEW s, NEW e,
           \A r \in Relays \ {x} : Due(r, s, e)' = Due(r, s, e)
    PROVE  /\ Cardinality(StillDue(s, e)) \in Nat /\ Cardinality(StillDue(s, e)') \in Nat
           /\ Due(x, s, e) \in Nat /\ Due(x, s, e)' \in Nat
           /\ Cardinality(StillDue(s, e)') + Due(x, s, e)
                = Cardinality(StillDue(s, e)) + Due(x, s, e)'
  <1> DEFINE m == MaxAttempts + 2
             v == [r \in Relays |-> Due(r, s, e)]
             w == [r \in Relays |-> Due(r, s, e)']
  <1>1. m \in Nat
    BY BackboneAssumption
  <1>2. \A r \in Relays : Due(r, s, e) \in 0..m
    BY DueType
  <1>3. \A r \in Relays : Due(r, s, e)' \in 0..m
    <2> SUFFICES ASSUME NEW r \in Relays PROVE Due(r, s, e)' \in 0..m
      OBVIOUS
    <2>1. attempt'[r] \in Nat /\ attempt'[r] <= MaxAttempts /\ MaxAttempts \in Nat
      BY BackboneAssumption DEF TypeOK
    <2>2. DueInHand(r)' \in 0..m
      BY <2>1, PerDeliveryType DEF DueInHand, PerDelivery
    <2>3. PerDelivery \in 0..m /\ 0 \in 0..m
      BY <2>1, PerDeliveryType
    <2> QED
      BY <2>2, <2>3 DEF Due, PerDelivery
  <1>4. v \in [Relays -> 0..m] /\ w \in [Relays -> 0..m] /\ v[x] = Due(x, s, e) /\ w[x] = Due(x, s, e)'
    BY <1>2, <1>3
  <1>5. \A r \in Relays \ {x} : v[r] = w[r]
    OBVIOUS
  <1>6. StillDue(s, e) = Slots(Relays, v) /\ StillDue(s, e)' = Slots(Relays, w)
    BY DEF StillDue, Slots
  <1>7. v[x] \in Nat /\ w[x] \in Nat
    BY <1>1, <1>2, <1>3
  <1> HIDE DEF m, v, w
  <1>8. Cardinality(Slots(Relays, w)) + v[x] = Cardinality(Slots(Relays, v)) + w[x]
    BY <1>1, <1>4, <1>5, SlotsChange
  <1>9. Cardinality(Slots(Relays, v)) \in Nat /\ Cardinality(Slots(Relays, w)) \in Nat
    BY <1>1, <1>4, SlotsAreFinite
  <1> QED
    BY <1>4, <1>6, <1>7, <1>8, <1>9

(* Relays that a step leaves where they are owe what they owed.             *)
LEMMA DueKept ==
    ASSUME TypeOK, [Next]_vars, NEW x \in Relays,
           pc'[x] = pc[x], todo'[x] = todo[x], attempt'[x] = attempt[x], NEW s, NEW e
    PROVE  Due(x, s, e)' = Due(x, s, e)
  <1>1. InHand(x, s, e)' <=> InHand(x, s, e)
    BY InHandKept
  <1>2. Owes(x, s, e)' <=> Owes(x, s, e)
    <2>1. \A d \in todo[x] : outbox'[d[1]] = outbox[d[1]]
      BY StepGrows, PairFacts DEF TypeOK
    <2> QED
      BY <2>1 DEF Owes
  <1>3. DueInHand(x)' = DueInHand(x)
    BY DEF DueInHand, PerDelivery
  <1> QED
    BY <1>1, <1>2, <1>3 DEF Due, PerDelivery

(* With the same deliveries to make, only the one in hand can be due for    *)
(* another number of outcomes.                                              *)
LEMMA DueInHandChanges ==
    ASSUME TypeOK, [Next]_vars, NEW x \in Relays, todo'[x] = todo[x], NEW s, NEW e
    PROVE  /\ InHand(x, s, e) => /\ Due(x, s, e) = DueInHand(x)
                                 /\ Due(x, s, e)' = DueInHand(x)'
           /\ ~InHand(x, s, e) => Due(x, s, e)' = Due(x, s, e)
  <1>1. InHand(x, s, e)' <=> InHand(x, s, e)
    BY InHandKept
  <1>2. Owes(x, s, e)' <=> Owes(x, s, e)
    <2>1. \A d \in todo[x] : outbox'[d[1]] = outbox[d[1]]
      BY StepGrows, PairFacts DEF TypeOK
    <2> QED
      BY <2>1 DEF Owes
  <1> QED
    BY <1>1, <1>2 DEF Due, PerDelivery

(* Nothing is due from a delivery that was acknowledged, and the others are *)
(* due as before.                                                           *)
LEMMA AcknowledgedIsNotDue ==
    ASSUME IInv, outbox' = outbox, NEW x \in Relays, NEW d \in todo[x], IsNext(x, d),
           Acknowledge(x, d), NEW s, NEW e
    PROVE  /\ InHand(x, s, e) => Due(x, s, e) = DueInHand(x) /\ Due(x, s, e)' = 0
           /\ ~InHand(x, s, e) => Due(x, s, e)' = Due(x, s, e)
  <1>t. TypeOK
    BY DEF IInv
  <1>1. todo'[x] = todo[x] \ {d} /\ pc'[x] = "delivering"
    BY <1>t DEF Acknowledge, TypeOK
  <1>2. InHand(x, s, e) <=> s = d[2] /\ e = outbox[d[1]]
    BY <1>t, InHandFacts
  <1>3. \A c \in todo[x] : c[2] = d[2] /\ outbox[c[1]] = outbox[d[1]] => c = d
    <2>1. todo[x] \subseteq Positions \X Subscribers
      BY <1>t DEF TypeOK
    <2>2. \A c \in todo[x] : c[1] \in Positions /\ c = <<c[1], c[2]>>
      BY <2>1, PairFacts
    <2> QED
      BY <2>2 DEF IInv, UniqueIds
  <1>4. Owes(x, s, e)' <=> Owes(x, s, e) /\ ~InHand(x, s, e)
    BY <1>1, <1>2, <1>3 DEF Owes
  <1>5. InHand(x, s, e)' => Owes(x, s, e)'
    BY DEF InHand, IsNext, Owes
  <1>6. DueInHand(x)' = PerDelivery
    BY <1>1 DEF DueInHand, PerDelivery
  <1> QED
    BY <1>4, <1>5, <1>6 DEF Due, PerDelivery

LEMMA OutcomesType ==
    ASSUME TypeOK, NEW s \in Subscribers, NEW e \in Events
    PROVE  OutcomesOf(s, e) \in Nat
  BY TimesDeadLetteredType DEF TypeOK, OutcomesOf

LEMMA HoldersAreFinite ==
    ASSUME IsFiniteSet(Relays), NEW e
    PROVE  /\ IsFiniteSet(Holding(e)) /\ Cardinality(Holding(e)) \in Nat
           /\ IsFiniteSet(Holding(e)') /\ Cardinality(Holding(e)') \in Nat
  <1>1. Holding(e) \subseteq Relays /\ Holding(e)' \subseteq Relays
    BY DEF Holding
  <1>2. IsFiniteSet(Holding(e)) /\ IsFiniteSet(Holding(e)')
    BY <1>1, FS_Subset
  <1> QED
    BY <1>2, FS_CardinalityType

LEMMA OutcomesPrimed ==
    ASSUME TypeOK', NEW s \in Subscribers, NEW e \in Events
    PROVE  OutcomesOf(s, e)' \in Nat
  <1>1. PICK k \in Nat : DOMAIN (deadLetters'[s]) = 1..k
    BY DEF TypeOK
  <1>2. IsFiniteSet(1..k)
    BY FS_Interval
  <1>3. IsFiniteSet({i \in 1..k : deadLetters'[s][i] = e})
    BY <1>2, FS_Subset
  <1>4. TimesDeadLettered(s, e)' \in Nat
    BY <1>1, <1>3, FS_CardinalityType DEF TimesDeadLettered
  <1> QED
    BY <1>4 DEF TypeOK, OutcomesOf

(* Who holds an entry, where a step leaves the batch of all or of all but   *)
(* one relay alone.                                                         *)
LEMMA HoldersKept ==
    ASSUME TypeOK, [Next]_vars, NEW x \in Relays, NEW e,
           \A r \in Relays \ {x} : batch'[r] = batch[r]
    PROVE  /\ batch'[x] = batch[x] => Holding(e)' = Holding(e)
           /\ \A r \in Relays \ {x} : r \in Holding(e)' <=> r \in Holding(e)
  <1>1. \A r \in Relays : \A p \in batch[r] : outbox'[p] = outbox[p]
    BY StepGrows DEF TypeOK
  <1> QED
    BY <1>1 DEF Holding

(* A step of x that makes no more outcomes than were due, and lets nobody   *)
(* hold less than the rejections it adds.                                   *)
LEMMA MoveKeepsDelivered ==
    ASSUME NEW n \in Nat, TypeOK, TypeOK', [Next]_vars, IsFiniteSet(Relays), NEW x \in Relays,
           NEW s \in Subscribers, NEW e \in Events, DeliveredWithin(n, s, e),
           \A r \in Relays \ {x} :
              pc'[r] = pc[r] /\ todo'[r] = todo[r] /\ attempt'[r] = attempt[r],
           OutcomesOf(s, e)' + Due(x, s, e)' <= OutcomesOf(s, e) + Due(x, s, e),
           published \subseteq published',
           rejections <= rejections',
           e \notin published' =>
              Cardinality(Holding(e)) + rejections <= Cardinality(Holding(e)') + rejections'
    PROVE  DeliveredWithin(n, s, e)'
  <1> DEFINE total == OutcomesOf(s, e) + Cardinality(StillDue(s, e))
             h == Cardinality(Holding(e)) + rejections
  <1>1. \A r \in Relays \ {x} : Due(r, s, e)' = Due(r, s, e)
    BY DueKept
  <1>2. /\ Cardinality(StillDue(s, e)) \in Nat /\ Cardinality(StillDue(s, e)') \in Nat
        /\ Due(x, s, e) \in Nat /\ Due(x, s, e)' \in Nat
        /\ Cardinality(StillDue(s, e)') + Due(x, s, e)
             = Cardinality(StillDue(s, e)) + Due(x, s, e)'
    BY <1>1, DueChange
  <1>3. OutcomesOf(s, e) \in Nat /\ OutcomesOf(s, e)' \in Nat
    BY OutcomesType, OutcomesPrimed
  <1>4. total' <= total /\ total \in Nat /\ total' \in Nat
    BY <1>2, <1>3
  <1>5. rejections \in Nat /\ rejections' \in Nat /\ PerDelivery \in Nat /\ PerDelivery' = PerDelivery
    BY PerDeliveryType, BackboneAssumption DEF TypeOK, PerDelivery
  <1>6. h \in Nat /\ h' \in Nat
    BY <1>5, HoldersAreFinite
  <1>7. /\ e \notin published => total <= PerDelivery * h
        /\ total <= PerDelivery * (n + rejections)
    BY DEF DeliveredWithin
  <1>8. e \notin published' => total' <= PerDelivery * h'
    <2> SUFFICES ASSUME e \notin published' PROVE total' <= PerDelivery * h'
      OBVIOUS
    <2>1. h <= h' /\ total <= PerDelivery * h
      BY <1>7
    <2> HIDE DEF total, h
    <2>2. PerDelivery * h <= PerDelivery * h' /\ PerDelivery * h \in Nat /\ PerDelivery * h' \in Nat
      BY <2>1, <1>5, <1>6, TimesGrows
    <2> QED
      BY <1>4, <2>1, <2>2
  <1>9. total' <= PerDelivery * (n + rejections')
    <2> DEFINE a == n + rejections
               b == n + rejections'
    <2>1. a \in Nat /\ b \in Nat /\ a <= b
      BY <1>5
    <2>2. total <= PerDelivery * a
      BY <1>7
    <2> HIDE DEF total, a, b
    <2>3. PerDelivery * a <= PerDelivery * b /\ PerDelivery * a \in Nat /\ PerDelivery * b \in Nat
      BY <2>1, <1>5, TimesGrows
    <2>4. total' <= PerDelivery * b
      BY <1>4, <2>2, <2>3
    <2> QED
      BY <2>4 DEF b
  <1> QED
    BY <1>5, <1>8, <1>9 DEF DeliveredWithin

(* A drain that fetches e is one more that holds it, as long as e is not    *)
(* published; the drains in progress bound those that do.                   *)
LEMMA FetchKeepsDelivered ==
    ASSUME NEW n \in Nat, IInv, IInv', [Next]_vars, IsFiniteSet(Relays), AtATime(n)',
           FreeHoldsNothing, FreeHoldsNothing',
           NEW x \in Relays, FetchPending(x),
           NEW s \in Subscribers, NEW e \in Events, DeliveredWithin(n, s, e)
    PROVE  DeliveredWithin(n, s, e)'
  <1>t. TypeOK /\ TypeOK'
    BY DEF IInv
  <1>1. /\ pc[x] = "idle" /\ pc'[x] = "delivering" /\ batch[x] = {}
        /\ batch'[x] = OldestPending(BatchSize)
        /\ \A r \in Relays \ {x} :
              /\ pc'[r] = pc[r] /\ todo'[r] = todo[r] /\ batch'[r] = batch[r]
        /\ UNCHANGED <<outbox, published, attempt, handled, deadLetters, rejections>>
    BY <1>t DEF FetchPending, TypeOK, consumerVars, FreeHoldsNothing
  <1>2. OutcomesOf(s, e)' = OutcomesOf(s, e) /\ OutcomesOf(s, e) \in Nat
    BY <1>t, <1>1, OutcomesType DEF OutcomesOf, TimesDeadLettered
  <1>3. \A r \in Relays \ {x} : r \in Holding(e)' <=> r \in Holding(e)
    BY <1>t, <1>1, HoldersKept
  <1>4. x \notin Holding(e)
    BY <1>1 DEF Holding
  <1>5. /\ IsFiniteSet(Holding(e)) /\ Cardinality(Holding(e)) \in Nat
        /\ IsFiniteSet(Holding(e)') /\ Cardinality(Holding(e)') \in Nat
    BY HoldersAreFinite
  <1>6. rejections \in Nat /\ PerDelivery \in Nat /\ PerDelivery' = PerDelivery
    BY <1>t, PerDeliveryType, BackboneAssumption DEF TypeOK, PerDelivery
  <1>7. CASE x \notin Holding(e)'
    <2>1. Holding(e)' = Holding(e)
      BY <1>3, <1>4, <1>7 DEF Holding
    <2>2. ~Owes(x, s, e)'
      <3>1. \A d \in todo'[x] : d[1] \in batch'[x]
        BY DEF IInv, TodoIsOfBatch
      <3> QED
        BY <1>7, <3>1 DEF Owes, Holding
    <2>3. Due(x, s, e)' = 0
      BY <2>2 DEF Due, InHand, IsNext, Owes
    <2>4. Due(x, s, e) \in Nat
      BY <1>t, DueType
    <2> QED
      BY <1>t, <1>1, <1>2, <1>5, <1>6, <2>1, <2>3, <2>4, MoveKeepsDelivered
  <1>8. CASE x \in Holding(e)'
    <2> DEFINE h == Cardinality(Holding(e)) + rejections
    <2>1. e \notin published
      BY <1>1, <1>8, <1>t, OldestPendingIsPrefix DEF Holding, Pending
    <2>2. Cardinality(Holding(e)') = Cardinality(Holding(e)) + 1
      <3>1. Holding(e)' = Holding(e) \cup {x}
        BY <1>3, <1>8 DEF Holding
      <3> QED
        BY <3>1, <1>4, <1>5, FS_AddElement
    <2>3. Due(x, s, e)' <= PerDelivery
      <3>1. DueInHand(x)' = PerDelivery
        BY <1>1 DEF DueInHand, PerDelivery
      <3> QED
        BY <1>6, <3>1 DEF Due
    <2>4. /\ Cardinality(StillDue(s, e)) \in Nat /\ Cardinality(StillDue(s, e)') \in Nat
          /\ Due(x, s, e) \in Nat /\ Due(x, s, e)' \in Nat
          /\ Cardinality(StillDue(s, e)') + Due(x, s, e)
               = Cardinality(StillDue(s, e)) + Due(x, s, e)'
      <3>1. \A r \in Relays \ {x} : Due(r, s, e)' = Due(r, s, e)
        BY <1>t, <1>1, DueKept
      <3> QED
        BY <1>t, <3>1, DueChange
    <2>5. OutcomesOf(s, e) + Cardinality(StillDue(s, e)) <= PerDelivery * h
      BY <2>1 DEF DeliveredWithin
    <2> DEFINE total == OutcomesOf(s, e)' + Cardinality(StillDue(s, e)')
    <2>h. h \in Nat
      BY <1>5, <1>6
    <2>t. total \in Nat
      BY <1>2, <2>4
    <2>6. total <= PerDelivery * (h + 1)
      <3>1. PerDelivery * (h + 1) = PerDelivery * h + PerDelivery /\ PerDelivery * h \in Nat
        BY <1>6, <2>h, TimesGrows
      <3> HIDE DEF h
      <3> QED
        BY <1>2, <1>6, <2>3, <2>4, <2>5, <3>1
    <2>7. Cardinality(Holding(e)') <= n
      <3>1. Holding(e)' \subseteq Busy' /\ Busy' \subseteq Relays
        BY DEF Holding, Busy, FreeHoldsNothing
      <3>2. IsFiniteSet(Busy')
        BY <3>1, FS_Subset
      <3>3. Cardinality(Busy') \in Nat /\ Cardinality(Busy') <= n
        BY <3>2, FS_CardinalityType DEF AtATime
      <3>4. Cardinality(Holding(e)') <= Cardinality(Busy')
        BY <3>1, <3>2, FS_Subset
      <3> QED
        BY <1>5, <3>3, <3>4
    <2>8. h + 1 = Cardinality(Holding(e)') + rejections'
      BY <1>1, <1>5, <1>6, <2>2
    <2>9. total <= PerDelivery * (n + rejections)
      <3> DEFINE a == h + 1
                 b == n + rejections
      <3>1. a \in Nat /\ b \in Nat /\ a <= b
        BY <1>1, <1>5, <1>6, <2>7, <2>8, <2>h
      <3>2. total <= PerDelivery * a
        BY <2>6
      <3> HIDE DEF a, b, total
      <3>3. PerDelivery * a <= PerDelivery * b /\ PerDelivery * a \in Nat /\ PerDelivery * b \in Nat
        BY <3>1, <1>6, TimesGrows
      <3>4. total <= PerDelivery * b
        BY <2>t, <3>2, <3>3
      <3> QED
        BY <3>4 DEF b
    <2>10. total <= PerDelivery * (Cardinality(Holding(e)') + rejections')
      BY <2>6, <2>8
    <2>11. total <= PerDelivery * (n + rejections')
      BY <1>1, <2>9
    <2> QED
      BY <1>6, <2>10, <2>11 DEF DeliveredWithin
  <1> QED
    BY <1>7, <1>8

(* A step of x that keeps what is held, and rejects nothing.                *)
LEMMA GoingOnKeepsDelivered ==
    ASSUME NEW n \in Nat, TypeOK, TypeOK', [Next]_vars, IsFiniteSet(Relays), NEW x \in Relays,
           NEW s \in Subscribers, NEW e \in Events, DeliveredWithin(n, s, e),
           \A r \in Relays \ {x} :
              pc'[r] = pc[r] /\ todo'[r] = todo[r] /\ attempt'[r] = attempt[r],
           UNCHANGED <<batch, published, rejections>>,
           OutcomesOf(s, e)' + Due(x, s, e)' <= OutcomesOf(s, e) + Due(x, s, e)
    PROVE  DeliveredWithin(n, s, e)'
  <1>1. Holding(e)' = Holding(e)
    BY HoldersKept
  <1>2. Cardinality(Holding(e)) + rejections \in Nat /\ rejections \in Nat
    BY HoldersAreFinite DEF TypeOK
  <1> QED
    BY <1>1, <1>2, MoveKeepsDelivered

(* New entries change nothing about those written before.                   *)
LEMMA QuietKeepsDelivered ==
    ASSUME NEW n \in Nat, TypeOK, [Next]_vars,
           NEW s \in Subscribers, NEW e \in Events, DeliveredWithin(n, s, e),
           UNCHANGED <<published, pc, batch, todo, attempt, handled, deadLetters, rejections>>
    PROVE  DeliveredWithin(n, s, e)'
  <1>1. \A r \in Relays : Due(r, s, e)' = Due(r, s, e)
    BY DueKept
  <1>2. StillDue(s, e)' = StillDue(s, e)
    BY <1>1 DEF StillDue
  <1>3. Holding(e)' = Holding(e)
    <2>1. \A r \in Relays : \A p \in batch[r] : outbox'[p] = outbox[p]
      BY StepGrows DEF TypeOK
    <2> QED
      BY <2>1 DEF Holding
  <1>4. OutcomesOf(s, e)' = OutcomesOf(s, e)
    BY DEF OutcomesOf, TimesDeadLettered
  <1> QED
    BY <1>2, <1>3, <1>4 DEF DeliveredWithin, PerDelivery

(* A drain that rejects no longer holds what it held, but it counts itself. *)
LEMMA RejectionKeepsDelivered ==
    ASSUME NEW n \in Nat, TypeOK, TypeOK', [Next]_vars, IsFiniteSet(Relays), NEW x \in Relays,
           NEW s \in Subscribers, NEW e \in Events, DeliveredWithin(n, s, e),
           DrainRejects(x), UNCHANGED <<published, handled, deadLetters>>
    PROVE  DeliveredWithin(n, s, e)'
  <1>1. /\ todo'[x] = {} /\ rejections' = rejections + 1 /\ rejections \in Nat
        /\ \A r \in Relays \ {x} :
              /\ pc'[r] = pc[r] /\ todo'[r] = todo[r]
              /\ attempt'[r] = attempt[r] /\ batch'[r] = batch[r]
    BY DEF DrainRejects, TypeOK
  <1>2. Due(x, s, e)' = 0 /\ Due(x, s, e) \in Nat
    <2>1. ~Owes(x, s, e)' /\ ~InHand(x, s, e)'
      BY <1>1 DEF Owes, InHand, IsNext
    <2>2. Due(x, s, e)' = 0
      BY <2>1 DEF Due
    <2>3. Due(x, s, e) \in Nat
      BY DueType
    <2> QED
      BY <2>2, <2>3
  <1>3. OutcomesOf(s, e)' = OutcomesOf(s, e) /\ OutcomesOf(s, e) \in Nat
    BY OutcomesType DEF OutcomesOf, TimesDeadLettered
  <1>4. Cardinality(Holding(e)) <= Cardinality(Holding(e)') + 1
    <2>1. \A r \in Relays \ {x} : r \in Holding(e)' <=> r \in Holding(e)
      BY <1>1, HoldersKept
    <2>2. Holding(e) \subseteq Holding(e)' \cup {x}
      BY <2>1 DEF Holding
    <2>3. /\ IsFiniteSet(Holding(e)) /\ Cardinality(Holding(e)) \in Nat
          /\ IsFiniteSet(Holding(e)') /\ Cardinality(Holding(e)') \in Nat
      BY HoldersAreFinite
    <2>4. /\ IsFiniteSet(Holding(e)' \cup {x})
          /\ Cardinality(Holding(e)' \cup {x}) = IF x \in Holding(e)' THEN Cardinality(Holding(e)')
                                                 ELSE Cardinality(Holding(e)') + 1
      BY <2>3, FS_AddElement
    <2>5. Cardinality(Holding(e)) <= Cardinality(Holding(e)' \cup {x})
      BY <2>2, <2>4, FS_Subset
    <2> QED
      BY <2>3, <2>4, <2>5
  <1>5. Cardinality(Holding(e)) + rejections <= Cardinality(Holding(e)') + rejections'
    BY <1>1, <1>4, HoldersAreFinite
  <1> QED
    BY <1>1, <1>2, <1>3, <1>5, MoveKeepsDelivered

(* A batch is marked when nothing of it is owed: what it held is published. *)
LEMMA MarkingKeepsDelivered ==
    ASSUME NEW n \in Nat, IInv, TypeOK', [Next]_vars, IsFiniteSet(Relays), NEW x \in Relays,
           NEW s \in Subscribers, NEW e \in Events, DeliveredWithin(n, s, e),
           MarkPublished(x)
    PROVE  DeliveredWithin(n, s, e)'
  <1>t. TypeOK
    BY DEF IInv
  <1>1. /\ todo[x] = {} /\ todo'[x] = {}
        /\ UNCHANGED <<outbox, handled, deadLetters, rejections>>
        /\ \A r \in Relays \ {x} :
              /\ pc'[r] = pc[r] /\ todo'[r] = todo[r]
              /\ attempt'[r] = attempt[r] /\ batch'[r] = batch[r]
    BY <1>t DEF MarkPublished, consumerVars, TypeOK
  <1>2. Due(x, s, e) = 0 /\ Due(x, s, e)' = 0
    BY <1>1 DEF Due, InHand, IsNext, Owes
  <1>3. OutcomesOf(s, e)' = OutcomesOf(s, e) /\ OutcomesOf(s, e) \in Nat
    BY <1>t, <1>1, OutcomesType DEF OutcomesOf, TimesDeadLettered
  <1>4. e \notin published' => Holding(e)' = Holding(e)
    <2> SUFFICES ASSUME e \notin published' PROVE Holding(e)' = Holding(e)
      OBVIOUS
    <2>1. x \notin Holding(e)
      BY DEF MarkPublished, Holding
    <2>2. x \notin Holding(e)'
      BY <1>t DEF MarkPublished, Holding, TypeOK
    <2>3. \A r \in Relays \ {x} : r \in Holding(e)' <=> r \in Holding(e)
      BY <1>t, <1>1, HoldersKept
    <2> QED
      BY <2>1, <2>2, <2>3 DEF Holding
  <1>5. Cardinality(Holding(e)) + rejections \in Nat /\ rejections \in Nat
    BY <1>t, HoldersAreFinite DEF TypeOK
  <1>6. published \subseteq published'
    BY DEF MarkPublished
  <1> QED
    BY <1>t, <1>1, <1>2, <1>3, <1>4, <1>5, <1>6, MoveKeepsDelivered

(* The consumer returns: with no outcome more, or with the dead letter that *)
(* was due.                                                                 *)
LEMMA AcknowledgingKeepsDelivered ==
    ASSUME NEW n \in Nat, IInv, TypeOK', [Next]_vars, IsFiniteSet(Relays), NEW x \in Relays,
           NEW s \in Subscribers, NEW e \in Events, DeliveredWithin(n, s, e),
           SkipProcessed(x) \/ RecordProcessed(x) \/ DeadLetter(x)
    PROVE  DeliveredWithin(n, s, e)'
  <1>t. TypeOK
    BY DEF IInv
  <1>1. PICK d \in todo[x] :
           /\ IsNext(x, d) /\ Acknowledge(x, d)
           /\ DeadLetter(x) =>
                 deadLetters' = [deadLetters EXCEPT ![d[2]] = Append(@, outbox[d[1]])]
           /\ ~DeadLetter(x) => deadLetters' = deadLetters
    BY DEF SkipProcessed, RecordProcessed, DeadLetter, consumerVars
  <1>2. UNCHANGED <<outbox, published, batch, handled, rejections>>
    BY <1>1 DEF SkipProcessed, RecordProcessed, DeadLetter, Acknowledge, consumerVars
  <1>3. \A r \in Relays \ {x} :
           pc'[r] = pc[r] /\ todo'[r] = todo[r] /\ attempt'[r] = attempt[r]
    BY <1>t, <1>1 DEF Acknowledge, TypeOK
  <1>4. /\ InHand(x, s, e) => Due(x, s, e) = DueInHand(x) /\ Due(x, s, e)' = 0
        /\ ~InHand(x, s, e) => Due(x, s, e)' = Due(x, s, e)
    BY <1>1, <1>2, AcknowledgedIsNotDue
  <1>5. /\ Due(x, s, e) \in Nat /\ OutcomesOf(s, e) \in Nat /\ OutcomesOf(s, e)' \in Nat
        /\ handled[s][e] \in Nat /\ TimesDeadLettered(s, e) \in Nat
    <2>1. Due(x, s, e) \in Nat
      BY <1>t, DueType
    <2>2. OutcomesOf(s, e) \in Nat /\ OutcomesOf(s, e)' \in Nat
      BY <1>t, OutcomesType, OutcomesPrimed
    <2>3. handled[s][e] \in Nat /\ TimesDeadLettered(s, e) \in Nat
      BY <1>t, TimesDeadLetteredType DEF TypeOK
    <2> QED
      BY <2>1, <2>2, <2>3
  <1>6. OutcomesOf(s, e)' + Due(x, s, e)' <= OutcomesOf(s, e) + Due(x, s, e)
    <2>1. CASE DeadLetter(x)
      <3>1. /\ d[2] \in Subscribers /\ outbox[d[1]] \in Events
            /\ InHand(x, s, e) <=> s = d[2] /\ e = outbox[d[1]]
        BY <1>t, <1>1, InHandFacts
      <3>2. TimesDeadLettered(s, e)' =
               TimesDeadLettered(s, e) + (IF s = d[2] /\ e = outbox[d[1]] THEN 1 ELSE 0)
        BY <1>t, <1>1, <2>1, <3>1, DeadLetterIsOutcome
      <3>3. OutcomesOf(s, e)' = OutcomesOf(s, e) + (IF InHand(x, s, e) THEN 1 ELSE 0)
        BY <1>2, <1>5, <3>1, <3>2 DEF OutcomesOf
      <3>4. DueInHand(x) = 1
        BY <2>1 DEF DeadLetter, DueInHand
      <3> QED
        BY <1>4, <1>5, <3>3, <3>4
    <2>2. CASE ~DeadLetter(x)
      <3>1. OutcomesOf(s, e)' = OutcomesOf(s, e)
        BY <1>1, <1>2, <2>2 DEF OutcomesOf, TimesDeadLettered
      <3> QED
        BY <1>4, <1>5, <3>1
    <2> QED
      BY <2>1, <2>2
  <1> QED
    BY <1>t, <1>2, <1>3, <1>6, GoingOnKeepsDelivered

(* An attempt begins, fails or is scheduled again: nothing more is due.     *)
LEMMA AttemptKeepsDelivered ==
    ASSUME NEW n \in Nat, IInv, TypeOK', [Next]_vars, IsFiniteSet(Relays), NEW x \in Relays,
           NEW s \in Subscribers, NEW e \in Events, DeliveredWithin(n, s, e),
           StartHandling(x) \/ HandlerFails(x) \/ RecordFails(x) \/ RetryAfterDelay(x)
    PROVE  DeliveredWithin(n, s, e)'
  <1>t. TypeOK
    BY DEF IInv
  <1>1. /\ UNCHANGED <<outbox, published, batch, todo, handled, deadLetters, rejections>>
        /\ \A r \in Relays \ {x} : pc'[r] = pc[r] /\ attempt'[r] = attempt[r]
    BY <1>t DEF StartHandling, HandlerFails, RecordFails, Catch, RetryAfterDelay,
                consumerVars, TypeOK
  <1>2. OutcomesOf(s, e)' = OutcomesOf(s, e) /\ OutcomesOf(s, e) \in Nat
    BY <1>t, <1>1, OutcomesType DEF OutcomesOf, TimesDeadLettered
  <1>3. /\ attempt[x] \in Nat /\ attempt[x] <= MaxAttempts /\ MaxAttempts \in Nat \ {0}
        /\ DueInHand(x) \in Nat /\ Due(x, s, e) \in Nat
    <2>1. DueInHand(x) \in Nat /\ Due(x, s, e) \in Nat
      BY <1>t, DueType
    <2> QED
      BY <1>t, <2>1, BackboneAssumption DEF TypeOK
  <1>4. DueInHand(x)' \in Nat /\ DueInHand(x)' <= DueInHand(x)
    <2>1. CASE StartHandling(x)
      <3>1. pc[x] = "delivering" /\ pc'[x] = "handling" /\ attempt'[x] = 1
        BY <2>1, <1>t DEF StartHandling, TypeOK
      <3> QED
        BY <1>3, <3>1 DEF DueInHand, PerDelivery
    <2>2. CASE HandlerFails(x) \/ RecordFails(x)
      <3>1. /\ pc[x] = "handling" \/ (pc[x] = "recording" /\ RecordMayFail)
            /\ attempt'[x] = attempt[x]
            /\ \/ pc'[x] = "sleeping"
               \/ pc'[x] = "deadLettering"
        BY <2>2, <1>t DEF HandlerFails, RecordFails, Catch, TypeOK
      <3> QED
        BY <1>3, <3>1 DEF DueInHand, PerDelivery
    <2>3. CASE RetryAfterDelay(x)
      <3>1. pc[x] = "sleeping" /\ pc'[x] = "handling" /\ attempt'[x] = attempt[x] + 1
        BY <2>3, <1>t DEF RetryAfterDelay, TypeOK
      <3> QED
        BY <1>3, <3>1 DEF DueInHand, PerDelivery
    <2> QED
      BY <2>1, <2>2, <2>3
  <1>5. /\ InHand(x, s, e) => Due(x, s, e) = DueInHand(x) /\ Due(x, s, e)' = DueInHand(x)'
        /\ ~InHand(x, s, e) => Due(x, s, e)' = Due(x, s, e)
    BY <1>t, <1>1, DueInHandChanges
  <1>6. OutcomesOf(s, e)' + Due(x, s, e)' <= OutcomesOf(s, e) + Due(x, s, e)
    BY <1>2, <1>3, <1>4, <1>5
  <1> QED
    BY <1>t, <1>1, <1>6, GoingOnKeepsDelivered

(* A success was due.                                                       *)
LEMMA SuccessKeepsDelivered ==
    ASSUME NEW n \in Nat, IInv, TypeOK', [Next]_vars, IsFiniteSet(Relays), NEW x \in Relays,
           NEW s \in Subscribers, NEW e \in Events, DeliveredWithin(n, s, e),
           HandlerSucceeds(x)
    PROVE  DeliveredWithin(n, s, e)'
  <1>t. TypeOK
    BY DEF IInv
  <1>1. /\ UNCHANGED <<outbox, published, batch, todo, attempt, deadLetters, rejections>>
        /\ pc[x] = "handling" /\ pc'[x] = "recording"
        /\ \A r \in Relays \ {x} : pc'[r] = pc[r]
    BY <1>t DEF HandlerSucceeds, TypeOK
  <1>2. PICK d \in todo[x] :
           /\ IsNext(x, d)
           /\ handled' = [handled EXCEPT ![d[2]][outbox[d[1]]] = @ + 1]
    BY DEF HandlerSucceeds
  <1>3. /\ d[2] \in Subscribers /\ outbox[d[1]] \in Events
        /\ InHand(x, s, e) <=> s = d[2] /\ e = outbox[d[1]]
    BY <1>t, <1>2, InHandFacts
  <1>4. handled'[s][e] = handled[s][e] + (IF InHand(x, s, e) THEN 1 ELSE 0)
    <2>1. handled[s][e] \in Nat
      BY <1>t DEF TypeOK
    <2> QED
      BY <1>t, <1>2, <1>3, <2>1 DEF TypeOK
  <1>5. /\ Due(x, s, e) \in Nat /\ handled[s][e] \in Nat
        /\ TimesDeadLettered(s, e) \in Nat
        /\ TimesDeadLettered(s, e)' = TimesDeadLettered(s, e)
    <2>1. Due(x, s, e) \in Nat
      BY <1>t, DueType
    <2>2. handled[s][e] \in Nat /\ TimesDeadLettered(s, e) \in Nat
      BY <1>t, TimesDeadLetteredType DEF TypeOK
    <2>3. TimesDeadLettered(s, e)' = TimesDeadLettered(s, e)
      BY <1>1 DEF TimesDeadLettered
    <2> QED
      BY <2>1, <2>2, <2>3
  <1>6. DueInHand(x)' + 1 = DueInHand(x) /\ DueInHand(x)' \in Nat
    <2>1. attempt[x] \in Nat /\ attempt[x] <= MaxAttempts /\ MaxAttempts \in Nat
      BY <1>t, BackboneAssumption DEF TypeOK
    <2> QED
      BY <1>1, <2>1 DEF DueInHand, PerDelivery
  <1>7. /\ InHand(x, s, e) => Due(x, s, e) = DueInHand(x) /\ Due(x, s, e)' = DueInHand(x)'
        /\ ~InHand(x, s, e) => Due(x, s, e)' = Due(x, s, e)
    BY <1>t, <1>1, DueInHandChanges
  <1>8. OutcomesOf(s, e)' + Due(x, s, e)' <= OutcomesOf(s, e) + Due(x, s, e)
    BY <1>4, <1>5, <1>6, <1>7 DEF OutcomesOf
  <1> QED
    BY <1>t, <1>1, <1>8, GoingOnKeepsDelivered

LEMMA StepFreeHoldsNothing ==
    ASSUME TypeOK, FreeHoldsNothing, [Next]_vars
    PROVE  FreeHoldsNothing'
  <1> SUFFICES ASSUME NEW x \in Relays, pc'[x] = "idle" PROVE batch'[x] = {}
    BY DEF FreeHoldsNothing
  <1>1. CASE pc'[x] = pc[x] /\ batch'[x] = batch[x]
    BY <1>1 DEF FreeHoldsNothing
  <1>2. ASSUME NEW r \in Relays, DrainRejects(r) \/ MarkPublished(r)
        PROVE  batch'[x] = {}
    <2>1. batch'[r] = {} /\ (r # x => pc'[x] = pc[x] /\ batch'[x] = batch[x])
      BY <1>2 DEF DrainRejects, MarkPublished, TypeOK
    <2> QED
      BY <1>1, <2>1
  <1>3. ASSUME NEW r \in Relays,
               \/ FetchPending(r) \/ SkipProcessed(r) \/ StartHandling(r)
               \/ HandlerSucceeds(r) \/ HandlerFails(r) \/ RecordProcessed(r)
               \/ RecordFails(r) \/ RetryAfterDelay(r) \/ DeadLetter(r)
        PROVE  batch'[x] = {}
    <2>1. pc'[r] # "idle" /\ (r # x => pc'[x] = pc[x] /\ batch'[x] = batch[x])
      BY <1>3 DEF FetchPending, SkipProcessed, StartHandling, HandlerSucceeds, HandlerFails,
         RecordProcessed, RecordFails, Catch, RetryAfterDelay, DeadLetter, Acknowledge, TypeOK
    <2> QED
      BY <1>1, <2>1
  <1>4. CASE (\E w \in Events : Write(w)) \/ UNCHANGED vars
    BY <1>1, <1>4 DEF Write, relayVars, vars
  <1>5. ASSUME NEW r \in Relays, DeserializeThrows(r) \/ PortRejects(r)
        PROVE  DrainRejects(r)
    BY <1>5 DEF DeserializeThrows, PortRejects
  <1> QED
    BY <1>2, <1>3, <1>4, <1>5 DEF Next, Drain

LEMMA StepDeliveriesInv ==
    ASSUME NEW n \in Nat, IsFiniteSet(Relays), IInv, IInv', DeliveriesInv(n),
           AtATime(n)', [Next]_vars
    PROVE  DeliveriesInv(n)'
  <1>t. TypeOK /\ TypeOK'
    BY DEF IInv
  <1>f. FreeHoldsNothing /\ FreeHoldsNothing'
    BY <1>t, StepFreeHoldsNothing DEF DeliveriesInv
  <1> SUFFICES ASSUME NEW s \in Subscribers, NEW e \in Events
               PROVE  DeliveredWithin(n, s, e)'
    BY <1>f DEF DeliveriesInv
  <1>i. DeliveredWithin(n, s, e)
    BY DEF DeliveriesInv
  <1>1. CASE (\E w \in Events : Write(w)) \/ UNCHANGED vars
    <2>1. UNCHANGED <<published, pc, batch, todo, attempt, handled, deadLetters, rejections>>
      BY <1>1 DEF Write, relayVars, consumerVars, vars
    <2> QED
      BY <1>t, <1>i, <2>1, QuietKeepsDelivered
  <1>2. ASSUME NEW r \in Relays, FetchPending(r) PROVE DeliveredWithin(n, s, e)'
    BY <1>f, <1>i, <1>2, FetchKeepsDelivered
  <1>3. ASSUME NEW r \in Relays, DeserializeThrows(r) \/ PortRejects(r)
        PROVE  DeliveredWithin(n, s, e)'
    <2>1. DrainRejects(r) /\ UNCHANGED <<published, handled, deadLetters>>
      BY <1>3 DEF DeserializeThrows, PortRejects, consumerVars
    <2> QED
      BY <1>t, <1>i, <2>1, RejectionKeepsDelivered
  <1>4. ASSUME NEW r \in Relays, SkipProcessed(r) \/ RecordProcessed(r) \/ DeadLetter(r)
        PROVE  DeliveredWithin(n, s, e)'
    BY <1>t, <1>i, <1>4, AcknowledgingKeepsDelivered
  <1>5. ASSUME NEW r \in Relays,
               StartHandling(r) \/ HandlerFails(r) \/ RecordFails(r) \/ RetryAfterDelay(r)
        PROVE  DeliveredWithin(n, s, e)'
    BY <1>t, <1>i, <1>5, AttemptKeepsDelivered
  <1>6. ASSUME NEW r \in Relays, HandlerSucceeds(r) PROVE DeliveredWithin(n, s, e)'
    BY <1>t, <1>i, <1>6, SuccessKeepsDelivered
  <1>7. ASSUME NEW r \in Relays, MarkPublished(r) PROVE DeliveredWithin(n, s, e)'
    BY <1>t, <1>i, <1>7, MarkingKeepsDelivered
  <1> QED
    BY <1>1, <1>2, <1>3, <1>4, <1>5, <1>6, <1>7 DEF Next, Drain

-----------------------------------------------------------------------------
(* The theorems                                                             *)

(* The inductive invariant holds in every reachable state.                  *)
THEOREM BackboneInvariant == Spec => []IInv
  BY InitIInv, StepIInv, PTL DEF Spec

(* The backbone's variables always have their types: in particular attempt  *)
(* numbers never exceed MaxAttempts, and relays only hold positions that    *)
(* exist in the outbox (event-consumer.ts:45-54, outbox-relay.ts:29).       *)
THEOREM BackboneTypes == Spec => []TypeOK
  <1>1. IInv => TypeOK
    BY DEF IInv
  <1> QED
    BY <1>1, BackboneInvariant, PTL

(* No event is marked published before all its consumers are done with it,  *)
(* for any number of overlapping drains (outbox-relay.ts:28-39).            *)
THEOREM NothingLost == Spec => []PublishedOnlyWhenSettled
  <1>1. IInv => PublishedOnlyWhenSettled
    BY DEF IInv
  <1> QED
    BY <1>1, BackboneInvariant, PTL

(* Consumers see the events of their topic in the order they were written,  *)
(* also when drains overlap or restart (in-memory-bus.ts:6-10).             *)
THEOREM InOrder == Spec => []DeliveredInOrder
  <1>1. IInv => DeliveredInOrder
    BY DEF IInv
  <1> QED
    BY <1>1, BackboneInvariant, PTL

(* An undecodable entry that somebody listens to stops the outbox: it and   *)
(* all that were appended after it are neither handled nor published, for   *)
(* any number of overlapping drains (event-consumer.ts:39).                 *)
THEOREM NothingPassesTheUndecodable == Spec => []UndecodableBlocksOutbox
  <1>1. Init => BlockInv
    <2> SUFFICES ASSUME Init PROVE BlockInv
      OBVIOUS
    <2>1. Positions = {} /\ \A s \in Subscribers : Settled(s) = {}
      BY DEF Init, Positions, Settled, DeadLettered
    <2>2. \A s \in Subscribers, e \in Events : handled[s][e] = 0
      BY DEF Init
    <2>3. \A r \in Relays : todo[r] = {}
      BY DEF Init
    <2> QED
      BY <2>1, <2>2, <2>3, BackboneAssumption
      DEF BlockInv, AttemptsAreDecodable, UndecodableIsUnsettled, UndecodableBlocksOutbox
  <1>2. IInv /\ BlockInv /\ [Next]_vars => BlockInv'
    BY StepAttemptsAreDecodable, StepUndecodableIsUnsettled, StepUndecodableBlocks DEF BlockInv
  <1>3. BlockInv => UndecodableBlocksOutbox
    BY DEF BlockInv
  <1> QED
    BY <1>1, <1>2, <1>3, BackboneInvariant, PTL DEF Spec

(* While drains do not overlap and nothing but handlers fails, each         *)
(* published event had one outcome per consumer, for any number of callers  *)
(* of drainOnce and of attempts (event-consumer.ts:45-78).                  *)
THEOREM OneOutcomeUnlessDrainsOverlap ==
    ASSUME ~RecordMayFail
    PROVE  Spec /\ []DrainsAreAlone => []OneOutcome
  <1>1. Init => OutcomeInv
    <2> SUFFICES ASSUME Init PROVE OutcomeInv
      OBVIOUS
    <2>1. /\ Positions = {}
          /\ \A r \in Relays : batch[r] = {} /\ pc[r] = "idle"
          /\ \A s \in Subscribers : processed[s] = {}
      BY DEF Init, Positions
    <2> QED
      BY <2>1 DEF OutcomeInv, BatchIsPending, RecordingWasHandled, ProcessedWasHandled,
                  OutcomeAtTheEnd
  <1>2. IInv /\ OutcomeInv /\ DrainsAreAlone /\ DrainsAreAlone' /\ [Next]_vars
            => OutcomeInv'
    BY StepBatchIsPending, StepRecordingWasHandled, StepProcessedWasHandled, StepOutcomeAtTheEnd
    DEF OutcomeInv
  <1>3. OutcomeInv => OneOutcome
    BY DEF OutcomeInv, OutcomeAtTheEnd, OneOutcome, Owed
  <1> QED
    BY <1>1, <1>2, <1>3, BackboneInvariant, PTL DEF Spec

OneRelay == \A a, b \in Relays : a = b

(* In particular where there is one relay.                                  *)
THEOREM OneOutcomeWithOneRelay ==
    ASSUME OneRelay, ~RecordMayFail
    PROVE  Spec => []OneOutcome
  <1>1. DrainsAreAlone
    BY DEF OneRelay, DrainsAreAlone
  <1>2. Spec /\ []DrainsAreAlone => []OneOutcome
    BY OneOutcomeUnlessDrainsOverlap
  <1> QED
    BY <1>1, <1>2, PTL

(* How many drains were ever in progress together bounds the successes.     *)
LEMMA OverlapBoundsSuccesses ==
    ASSUME NEW n \in Nat, ~RecordMayFail, IsFiniteSet(Relays)
    PROVE  /\ Init => OverlapInv(n)
           /\ IInv /\ OverlapInv(n) /\ AtATime(n)' /\ [Next]_vars => OverlapInv(n)'
           /\ IInv /\ OverlapInv(n) =>
                 \A s \in Subscribers, e \in Events : handled[s][e] <= n
  <1>1. Init => OverlapInv(n)
    <2> SUFFICES ASSUME Init, NEW s \in Subscribers, NEW e \in Events
                 PROVE  HandledWithin(n, s, e)
      BY DEF OverlapInv
    <2>1. handled[s][e] = 0 /\ Attempting(s, e) = {}
      BY DEF Init, Attempting
    <2> QED
      BY <2>1, RelaySetsAreFinite, FS_EmptySet DEF HandledWithin
  <1>2. IInv /\ OverlapInv(n) /\ AtATime(n)' /\ [Next]_vars => OverlapInv(n)'
    BY StepOverlapInv
  <1>3. IInv /\ OverlapInv(n) => \A s \in Subscribers, e \in Events : handled[s][e] <= n
    <2> SUFFICES ASSUME IInv, OverlapInv(n), NEW s \in Subscribers, NEW e \in Events
                 PROVE  handled[s][e] <= n
      OBVIOUS
    <2>1. handled[s][e] \in Nat
      BY DEF IInv, TypeOK
    <2> QED
      BY <2>1, RelaySetsAreFinite DEF OverlapInv, HandledWithin
  <1> QED
    BY <1>1, <1>2, <1>3

(* A handler succeeds on an event no more often than drains overlap: if at  *)
(* no time more than n calls of drainOnce are in progress, at most n times, *)
(* however many callers there are and whatever rejects and is drained       *)
(* again, as long as record does not fail (event-consumer.ts:38-51).        *)
THEOREM HandledOncePerOverlappingDrain ==
    ASSUME NEW n \in Nat, ~RecordMayFail, IsFiniteSet(Relays)
    PROVE  Spec /\ []AtATime(n) =>
               [](\A s \in Subscribers, e \in Events : handled[s][e] <= n)
  <1>1. Init => OverlapInv(n)
    BY OverlapBoundsSuccesses
  <1>2. IInv /\ OverlapInv(n) /\ AtATime(n)' /\ [Next]_vars => OverlapInv(n)'
    BY OverlapBoundsSuccesses
  <1>3. IInv /\ OverlapInv(n) => \A s \in Subscribers, e \in Events : handled[s][e] <= n
    BY OverlapBoundsSuccesses
  <1> QED
    BY <1>1, <1>2, <1>3, BackboneInvariant, PTL DEF Spec

(* Callers that wait for each other's drains make no handler succeed twice, *)
(* however many there are and however often the other ports reject and the  *)
(* drain is run again (outbox-relay.ts:17-18, event-consumer.ts:27).        *)
THEOREM OnceUnlessDrainsOverlap ==
    ASSUME ~RecordMayFail, IsFiniteSet(Relays)
    PROVE  Spec /\ []DrainsAreAlone => []HandledAtMostOnce
  <1>1. Init => OverlapInv(1)
    BY OverlapBoundsSuccesses
  <1>2. IInv /\ OverlapInv(1) /\ AtATime(1)' /\ [Next]_vars => OverlapInv(1)'
    BY OverlapBoundsSuccesses
  <1>3. IInv /\ OverlapInv(1) => HandledAtMostOnce
    BY OverlapBoundsSuccesses DEF HandledAtMostOnce
  <1>4. DrainsAreAlone => AtATime(1)
    <2> SUFFICES ASSUME DrainsAreAlone PROVE Cardinality(Busy) <= 1
      BY DEF AtATime
    <2>1. CASE Busy = {}
      BY <2>1, FS_EmptySet
    <2>2. ASSUME NEW r \in Busy PROVE Cardinality(Busy) = 1
      <3>1. Busy = {r}
        BY DEF Busy, DrainsAreAlone
      <3> QED
        BY <3>1, FS_Singleton
    <2> QED
      BY <2>1, <2>2
  <1> QED
    BY <1>1, <1>2, <1>3, <1>4, BackboneInvariant, PTL DEF Spec

(* In particular where there is one relay (event-consumer.ts:38-79).        *)
THEOREM OnceWithOneRelay ==
    ASSUME OneRelay, ~RecordMayFail
    PROVE  Spec => []HandledAtMostOnce
  <1>1. IsFiniteSet(Relays)
    <2>1. CASE Relays = {}
      BY <2>1, FS_EmptySet
    <2>2. ASSUME NEW r \in Relays PROVE IsFiniteSet(Relays)
      <3>1. Relays = {r}
        BY DEF OneRelay
      <3> QED
        BY <3>1, FS_Singleton
    <2> QED
      BY <2>1, <2>2
  <1>2. DrainsAreAlone
    BY DEF OneRelay, DrainsAreAlone
  <1>3. Spec /\ []DrainsAreAlone => []HandledAtMostOnce
    BY <1>1, OnceUnlessDrainsOverlap
  <1> QED
    BY <1>2, <1>3, PTL

(* Whatever overlaps, a handler succeeds on an event at most once for each  *)
(* caller of drainOnce (event-consumer.ts:41-51).                           *)
THEOREM OncePerRelay ==
    ASSUME ~RecordMayFail, IsFiniteSet(Relays)
    PROVE  Spec => []HandledOncePerRelay
  <1> DEFINE n == Cardinality(Relays)
  <1>n. n \in Nat
    BY FS_CardinalityType
  <1>1. Init => OverlapInv(n)
    BY <1>n, OverlapBoundsSuccesses
  <1>2. IInv /\ OverlapInv(n) /\ [Next]_vars => OverlapInv(n)'
    <2>1. AtATime(n)'
      <3>1. Busy' \subseteq Relays
        BY DEF Busy
      <3> QED
        BY <3>1, FS_Subset DEF AtATime
    <2> QED
      BY <1>n, <2>1, OverlapBoundsSuccesses
  <1>3. IInv /\ OverlapInv(n) => HandledOncePerRelay
    BY <1>n, OverlapBoundsSuccesses DEF HandledOncePerRelay
  <1> QED
    BY <1>1, <1>2, <1>3, BackboneInvariant, PTL DEF Spec

(* What drains in progress together and rejections bound: at most that many *)
(* deliveries of an event are made to a consumer.                           *)
LEMMA DrainsBoundOutcomes ==
    ASSUME NEW n \in Nat, IsFiniteSet(Relays)
    PROVE  /\ Init => DeliveriesInv(n)
           /\ IInv /\ IInv' /\ DeliveriesInv(n) /\ AtATime(n)' /\ [Next]_vars
                 => DeliveriesInv(n)'
           /\ IInv /\ DeliveriesInv(n) =>
                 \A s \in Subscribers, e \in Events :
                     OutcomesOf(s, e) <= PerDelivery * (n + rejections)
  <1>1. ASSUME Init PROVE DeliveriesInv(n)
    <2>1. TypeOK
      BY <1>1, InitTypeOK
    <2>2. FreeHoldsNothing
      BY <1>1 DEF Init, FreeHoldsNothing
    <2> SUFFICES ASSUME NEW s \in Subscribers, NEW e \in Events
                 PROVE  DeliveredWithin(n, s, e)
      BY <2>2 DEF DeliveriesInv
    <2>3. StillDue(s, e) = {}
      <3>1. \A r \in Relays : Due(r, s, e) = 0
        BY <1>1 DEF Init, Due, InHand, IsNext, Owes
      <3> QED
        BY <3>1 DEF StillDue
    <2>4. OutcomesOf(s, e) = 0
      <3>1. handled[s][e] = 0 /\ deadLetters[s] = <<>>
        BY <1>1 DEF Init
      <3>2. {i \in DOMAIN deadLetters[s] : deadLetters[s][i] = e} = {}
        BY <3>1
      <3> QED
        BY <3>1, <3>2, FS_EmptySet DEF OutcomesOf, TimesDeadLettered
    <2> DEFINE h == Cardinality(Holding(e)) + rejections
               a == n + rejections
    <2>5. h \in Nat /\ a \in Nat /\ PerDelivery \in Nat
      BY <2>1, HoldersAreFinite, PerDeliveryType DEF TypeOK
    <2> HIDE DEF h, a
    <2>6. PerDelivery * h \in Nat /\ PerDelivery * a \in Nat
      BY <2>5, TimesGrows
    <2>7. OutcomesOf(s, e) + Cardinality(StillDue(s, e)) = 0
      BY <2>3, <2>4, FS_EmptySet
    <2> QED
      BY <2>6, <2>7 DEF DeliveredWithin, h, a
  <1>2. IInv /\ IInv' /\ DeliveriesInv(n) /\ AtATime(n)' /\ [Next]_vars => DeliveriesInv(n)'
    BY StepDeliveriesInv
  <1>3. ASSUME IInv, DeliveriesInv(n), NEW s \in Subscribers, NEW e \in Events
        PROVE  OutcomesOf(s, e) <= PerDelivery * (n + rejections)
    <2> DEFINE b == PerDelivery * (n + rejections)
               w == [r \in Relays |-> Due(r, s, e)]
    <2>1. TypeOK
      BY <1>3 DEF IInv
    <2>2. OutcomesOf(s, e) + Cardinality(StillDue(s, e)) <= b
      BY <1>3 DEF DeliveriesInv, DeliveredWithin
    <2>3. Cardinality(StillDue(s, e)) \in Nat
      <3>1. w \in [Relays -> 0..(MaxAttempts + 2)] /\ MaxAttempts + 2 \in Nat
        BY <2>1, DueType, BackboneAssumption
      <3>2. StillDue(s, e) = Slots(Relays, w)
        BY DEF StillDue, Slots
      <3> HIDE DEF w
      <3> QED
        BY <3>1, <3>2, SlotsAreFinite
    <2>4. OutcomesOf(s, e) \in Nat
      BY <2>1, OutcomesType
    <2>5. b \in Nat
      <3> DEFINE a == n + rejections
      <3>1. a \in Nat /\ PerDelivery \in Nat
        BY <2>1, PerDeliveryType DEF TypeOK
      <3> HIDE DEF a
      <3>2. PerDelivery * a \in Nat
        BY <3>1, TimesGrows
      <3> QED
        BY <3>2 DEF a
    <2> HIDE DEF b
    <2>6. OutcomesOf(s, e) <= b
      BY <2>2, <2>3, <2>4, <2>5
    <2> QED
      BY <2>6 DEF b
  <1> QED
    BY <1>1, <1>2, <1>3

(* What a consumer makes of an event is bounded by the deliveries of it: if *)
(* at no time more than n calls of drainOnce are in progress, its handler's *)
(* successes and its dead letters together are no more than n deliveries    *)
(* and one for each drain that rejected come to, also when record fails     *)
(* (event-consumer.ts:45-78, outbox-relay.ts:29-38).                        *)
THEOREM OutcomesPerOverlappingDrain ==
    ASSUME NEW n \in Nat, IsFiniteSet(Relays)
    PROVE  Spec /\ []AtATime(n) =>
               [](\A s \in Subscribers, e \in Events :
                      OutcomesOf(s, e) <= PerDelivery * (n + rejections))
  <1>1. Init => DeliveriesInv(n)
    BY DrainsBoundOutcomes
  <1>2. IInv /\ IInv' /\ DeliveriesInv(n) /\ AtATime(n)' /\ [Next]_vars => DeliveriesInv(n)'
    BY DrainsBoundOutcomes
  <1>3. IInv /\ DeliveriesInv(n) =>
           \A s \in Subscribers, e \in Events :
               OutcomesOf(s, e) <= PerDelivery * (n + rejections)
    BY DrainsBoundOutcomes
  <1> QED
    BY <1>1, <1>2, <1>3, BackboneInvariant, PTL DEF Spec

(* Whatever overlaps, fails, is redelivered or dead-lettered again: no more *)
(* outcomes than the callers of drainOnce and the drains that rejected      *)
(* account for (event-consumer.ts:45-78, outbox-relay.ts:29-38).            *)
THEOREM RedeliveryIsBounded ==
    ASSUME IsFiniteSet(Relays)
    PROVE  Spec => []OutcomesPerDelivery
  <1> DEFINE n == Cardinality(Relays)
  <1>n. n \in Nat
    BY FS_CardinalityType
  <1>1. Init => DeliveriesInv(n)
    BY <1>n, DrainsBoundOutcomes
  <1>2. IInv /\ IInv' /\ DeliveriesInv(n) /\ [Next]_vars => DeliveriesInv(n)'
    <2>1. AtATime(n)'
      <3>1. Busy' \subseteq Relays
        BY DEF Busy
      <3> QED
        BY <3>1, FS_Subset DEF AtATime
    <2> QED
      BY <1>n, <2>1, DrainsBoundOutcomes
  <1>3. IInv /\ DeliveriesInv(n) => OutcomesPerDelivery
    BY <1>n, DrainsBoundOutcomes DEF OutcomesPerDelivery
  <1> QED
    BY <1>1, <1>2, <1>3, BackboneInvariant, PTL DEF Spec

(* The backbone implements AtLeastOnceDelivery: marking a batch published   *)
(* strikes events whose subscribers are done, and consume settles an event  *)
(* only after the earlier ones of its topic.                                *)
THEOREM Refinement == Spec => ImplementsDelivery
  <1>1. Init => Delivery!Init
    BY DEF Init, Delivery!Init, Settled, DeadLettered
  <1>2. ASSUME IInv, [Next]_vars
        PROVE  [Delivery!Next]_(Delivery!deliveryVars)
    <2> DEFINE done == [s \in Subscribers |-> Settled(s)]
    <2>t. TypeOK
      BY <1>2 DEF IInv
    <2>1. ASSUME NEW e \in Events, Write(e)
          PROVE  [Delivery!Next]_(Delivery!deliveryVars)
      <3>1. done' = done
        BY <2>1, SettledUnchanged DEF Write, consumerVars
      <3>2. Delivery!Send(e)
        BY <2>1, <3>1 DEF Write, Delivery!Send, Delivery!SentEvents, Written, Positions
      <3> QED
        BY <3>2 DEF Delivery!Next
    <2>2. ASSUME NEW r \in Relays, MarkPublished(r)
          PROVE  [Delivery!Next]_(Delivery!deliveryVars)
      <3> DEFINE marked == {outbox[p] : p \in batch[r]}
      <3>1. done' = done
        BY <2>2, SettledUnchanged DEF MarkPublished, consumerVars
      <3>2. \A p \in batch[r] : p \in Positions /\ outbox[p] \in Events
        BY <2>t, PositionsFacts DEF TypeOK
      <3>3. \A e \in marked : \A s \in Listeners(e) : e \in Settled(s)
        BY <1>2, <2>2 DEF MarkPublished, IInv, DeliveredIsSettled
      <3>4. marked \in SUBSET Delivery!SentEvents
        BY <3>2 DEF Delivery!SentEvents, Positions
      <3>5. \A e \in marked : e \in Events /\ \A s \in Listeners(e) : s \in Subscribers
        BY <3>2 DEF Listeners
      <3>6. Delivery!Strike(marked)
        BY <2>2, <3>1, <3>3, <3>5 DEF MarkPublished, Delivery!Strike
      <3> QED
        BY <3>4, <3>6 DEF Delivery!Next
    <2>3. ASSUME NEW r \in Relays, NEW d \in todo[r], Settles(r, d)
          PROVE  [Delivery!Next]_(Delivery!deliveryVars)
      <3> DEFINE i == d[1]
                 s == d[2]
                 e == outbox[i]
      <3>1. i \in Positions /\ s \in Subscribers /\ e \in Events /\ s \in Listeners(e)
        BY <1>2, <2>t, PairFacts, PositionsFacts DEF TypeOK, IInv, TodoIsOfBatch
      <3>2. UNCHANGED <<outbox, published>>
        BY <2>3 DEF Settles
      <3>3. \A x \in Subscribers :
                Settled(x)' = IF x = s THEN Settled(x) \cup {e} ELSE Settled(x)
        BY <2>3 DEF Settles
      <3>4. CASE e \in Settled(s)
        <4>1. \A x \in Subscribers : Settled(x)' = Settled(x)
          BY <3>3, <3>4
        <4> QED
          BY <3>2, <4>1 DEF Delivery!deliveryVars
      <3>5. CASE e \notin Settled(s)
        <4>1. \A j \in Positions :
                 j < i /\ s \in Listeners(outbox[j]) => outbox[j] \in Settled(s)
          BY <1>2, <2>3, EarlierSettled DEF Settles
        <4>2. \A j \in Positions : outbox[j] \in Events
          BY <2>t, PositionsFacts
        <4>3. done' = [done EXCEPT ![s] = @ \cup {e}]
          BY <3>1, <3>3
        <4>4. Delivery!Settle(s, i)
          BY <3>1, <3>2, <3>5, <4>1, <4>2, <4>3 DEF Delivery!Settle, Positions
        <4> QED
          BY <3>1, <4>4 DEF Delivery!Next, Positions
      <3> QED
        BY <3>4, <3>5
    <2>4. CASE UNCHANGED <<outbox, published, processed, deadLetters>>
      BY <2>4, SettledUnchanged DEF Delivery!deliveryVars
    <2> QED
      BY <1>2, <2>t, <2>1, <2>2, <2>3, <2>4, StepKinds
      DEF FetchPending, HandlerSucceeds, OnlyControl, consumerVars
  <1> QED
    BY <1>1, <1>2, BackboneInvariant, PTL DEF Spec, ImplementsDelivery, Delivery!Spec
=============================================================================
