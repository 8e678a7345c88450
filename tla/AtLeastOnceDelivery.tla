------------------------- MODULE AtLeastOnceDelivery -------------------------
(***************************************************************************)
(* What the event backbone promises, with the relay, the bus, the retries  *)
(* and the consumer left out (docs/architecture/05-events-queues-workers-  *)
(* and-jobs.md, sections 1.1 and 1.3): an event that was sent is settled at*)
(* each of its subscribers, in the order of sending, and is struck off the *)
(* outbox only after that.                                                 *)
(***************************************************************************)
EXTENDS Naturals, Sequences

CONSTANTS
    Events,
    Subscribers,
    ListenersOf     \* the set of subscribers of each event

VARIABLES
    sent,           \* the events sent, oldest first
    settled,        \* the events settled at each subscriber
    struck          \* the events that are no longer pending

deliveryVars == <<sent, settled, struck>>

SentEvents == {sent[i] : i \in DOMAIN sent}

Init ==
    /\ sent = <<>>
    /\ settled = [s \in Subscribers |-> {}]
    /\ struck = {}

Send(e) ==
    /\ e \notin SentEvents
    /\ sent' = Append(sent, e)
    /\ UNCHANGED <<settled, struck>>

(* Subscriber s is done with the i-th event; every earlier event it listens *)
(* to was settled before.                                                   *)
Settle(s, i) ==
    /\ s \in ListenersOf[sent[i]]
    /\ sent[i] \notin settled[s]
    /\ \A j \in DOMAIN sent :
          j < i /\ s \in ListenersOf[sent[j]] => sent[j] \in settled[s]
    /\ settled' = [settled EXCEPT ![s] = @ \cup {sent[i]}]
    /\ UNCHANGED <<sent, struck>>

(* Events leave the outbox only when all their subscribers are done.        *)
Strike(E) ==
    /\ \A e \in E : \A s \in ListenersOf[e] : e \in settled[s]
    /\ struck' = struck \cup E
    /\ UNCHANGED <<sent, settled>>

Next ==
    \/ \E e \in Events : Send(e)
    \/ \E s \in Subscribers, i \in DOMAIN sent : Settle(s, i)
    \/ \E E \in SUBSET SentEvents : Strike(E)

Spec == Init /\ [][Next]_deliveryVars
=============================================================================
