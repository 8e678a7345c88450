------------------------------ MODULE SinkRelay ------------------------------
(***************************************************************************)
(* The delivery half of the composition roots of the inventory, catalog,   *)
(* pricing and media services: an OutboxRelay drains the service's outbox  *)
(* through the in-memory bus into a sink that notes every delivery.        *)
(*                                                                         *)
(* The sink is a bare subscriber: it has no EventConsumer around it, so it *)
(* neither skips what it has seen nor retries, and nothing in such a       *)
(* wiring rejects.  A relay stands for one caller of drainOutbox; the      *)
(* wiring hands the same function to everybody.                            *)
(***************************************************************************)
EXTENDS Naturals, Sequences, FiniteSets

CONSTANTS
    Relays,       \* callers of drainOutbox that may be in progress together
    BatchSize,    \* OutboxRelayDeps.batchSize
    IsRouted(_)   \* TRUE iff the sink subscribed to the topic of an entry

VARIABLES
    outbox,     \* the service's outbox; a position stands for its entry
    published,  \* the entries whose status is "published"
    batch,      \* the entries fetchPending gave the relay, {} outside a drain
    todo,       \* the entries of the batch that the sink was not given yet
    delivered   \* the entries the sink was given, in order (its array keeps
                \* only their types)

relayVars == <<published, batch, todo, delivered>>

Entries == DOMAIN outbox

Pending == Entries \ published

OldestPending(n) ==
    {p \in Pending : Cardinality({q \in Pending : q < p}) < n}

RelayTypeOK ==
    /\ published \subseteq Entries
    /\ batch \in [Relays -> SUBSET Entries]
    /\ todo \in [Relays -> SUBSET Entries]
    /\ delivered \in Seq(Entries)

-----------------------------------------------------------------------------
(* Actions                                                                   *)

RelayInit ==
    /\ published = {}
    /\ batch = [r \in Relays |-> {}]
    /\ todo = [r \in Relays |-> {}]
    /\ delivered = <<>>

(* drainOnce reads its batch; an empty one ends the call with no effect.     *)
(* An entry of a topic nobody subscribed to is published to nobody.          *)
FetchPending(r) ==
    /\ batch[r] = {}
    /\ OldestPending(BatchSize) # {}
    /\ batch' = [batch EXCEPT ![r] = OldestPending(BatchSize)]
    /\ todo' = [todo EXCEPT ![r] = {p \in OldestPending(BatchSize) : IsRouted(p)}]
    /\ UNCHANGED <<outbox, published, delivered>>

(* Mutant: the deliveries of a batch are started together and end in any     *)
(* order.                                                                    *)
DeliverNext_AnyOrder(r) ==
    \E p \in todo[r] :
        /\ delivered' = Append(delivered, p)
        /\ todo' = [todo EXCEPT ![r] = @ \ {p}]
        /\ UNCHANGED <<outbox, published, batch>>

(* publishBatch gives the sink the next entry of the batch and awaits it.    *)
DeliverNext(r) ==
    \E p \in todo[r] :
        /\ \A q \in todo[r] : p <= q
        /\ delivered' = Append(delivered, p)
        /\ todo' = [todo EXCEPT ![r] = @ \ {p}]
        /\ UNCHANGED <<outbox, published, batch>>

(* Mutant: everything that is pending is marked.                             *)
MarkPublished_Everything(r) ==
    /\ batch[r] # {}
    /\ todo[r] = {}
    /\ published' = Entries
    /\ batch' = [batch EXCEPT ![r] = {}]
    /\ UNCHANGED <<outbox, todo, delivered>>

MarkPublished(r) ==
    /\ batch[r] # {}
    /\ todo[r] = {}
    /\ published' = published \cup batch[r]
    /\ batch' = [batch EXCEPT ![r] = {}]
    /\ UNCHANGED <<outbox, todo, delivered>>

Drain(r) == FetchPending(r) \/ DeliverNext(r) \/ MarkPublished(r)

RelayNext == \E r \in Relays : Drain(r)
=============================================================================
