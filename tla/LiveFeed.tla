------------------------------ MODULE LiveFeed ------------------------------
(***************************************************************************)
(* The progress stream: the hub of internal/ws that provisioning goroutines *)
(* publish to, and the WebSocket handler of each connected client.         *)
(***************************************************************************)
EXTENDS Naturals, Sequences

CONSTANTS
    Publishers,     \* goroutines that report progress
    Clients,        \* WebSocket connections
    subBuffer,      \* capacity of a subscriber's channel
    MaxEvents       \* bound: events of one publisher

ASSUME FeedAssumption == "free" \notin Publishers /\ subBuffer \in Nat /\ MaxEvents \in Nat

VARIABLES
    mu,             \* holder of Hub.mu, or "free"
    subs,           \* Hub.subs
    chan,           \* channel of each client: [open, queue]
    pub,            \* publisher: events sent so far, and whom it still has to offer one to
    conn,           \* progress of the handler of each client
    client,         \* what the far end does
    seen            \* events the far end received

feed == <<mu, subs, chan, pub, conn, client, seen>>

Event == Publishers \X (1..MaxEvents)

FeedInit ==
    /\ mu = "free" /\ subs = {}
    /\ chan = [c \in Clients |-> [open |-> FALSE, queue |-> <<>>]]
    /\ pub = [p \in Publishers |-> [sent |-> 0, todo |-> {}]]
    /\ conn = [c \in Clients |-> "new"]
    /\ client = [c \in Clients |-> "reading"]
    /\ seen = [c \in Clients |-> <<>>]
-----------------------------------------------------------------------------
PublishUnlocked(p) ==
    /\ mu # p /\ pub[p].sent < MaxEvents
    /\ mu' = p
    /\ pub' = [pub EXCEPT ![p] = [sent |-> @.sent + 1, todo |-> subs]]
    /\ UNCHANGED <<subs, chan, conn, client, seen>>

\* Publish takes the lock ...
Publish(p) ==
    /\ mu = "free" /\ pub[p].sent < MaxEvents
    /\ mu' = p
    /\ pub' = [pub EXCEPT ![p] = [sent |-> @.sent + 1, todo |-> subs]]
    /\ UNCHANGED <<subs, chan, conn, client, seen>>

OfferBlocks(p, c) ==
    /\ c \in pub[p].todo
    /\ Len(chan[c].queue) < subBuffer
    /\ pub' = [pub EXCEPT ![p].todo = @ \ {c}]
    /\ chan' = [chan EXCEPT ![c].queue = Append(@, <<p, pub[p].sent>>)]
    /\ UNCHANGED <<mu, subs, conn, client, seen>>

\* ... offers the event to each subscriber, in the order of the map's range,
\* and drops it for one whose buffer is full ...
Offer(p, c) ==
    /\ c \in pub[p].todo
    /\ pub' = [pub EXCEPT ![p].todo = @ \ {c}]
    /\ chan' = IF Len(chan[c].queue) < subBuffer
               THEN [chan EXCEPT ![c].queue = Append(@, <<p, pub[p].sent>>)]
               ELSE chan
    /\ UNCHANGED <<mu, subs, conn, client, seen>>

\* ... and unlocks.
Published(p) ==
    /\ mu = p /\ pub[p].todo = {}
    /\ mu' = "free"
    /\ UNCHANGED <<subs, chan, pub, conn, client, seen>>
-----------------------------------------------------------------------------
\* The handshake was accepted: Subscribe.
Subscribe(c) ==
    /\ conn[c] = "new" /\ mu = "free"
    /\ subs' = subs \cup {c}
    /\ chan' = [chan EXCEPT ![c].open = TRUE]
    /\ conn' = [conn EXCEPT ![c] = "streaming"]
    /\ UNCHANGED <<mu, pub, client, seen>>

\* The loop takes an event and writes it; to a client that does not read, the
\* write fails at its deadline.
Forward(c) ==
    /\ conn[c] = "streaming" /\ chan[c].queue # <<>>
    /\ chan' = [chan EXCEPT ![c].queue = Tail(@)]
    /\ IF client[c] = "reading"
       THEN seen' = [seen EXCEPT ![c] = Append(@, Head(chan[c].queue))] /\ UNCHANGED conn
       ELSE conn' = [conn EXCEPT ![c] = "leaving"] /\ UNCHANGED seen
    /\ UNCHANGED <<mu, subs, pub, client>>

\* No reader goroutine: a loss shows only when a write fails.
DetectNothing(c) == FALSE /\ UNCHANGED feed

\* The reader goroutine saw the connection end.
Detect(c) ==
    /\ conn[c] = "streaming" /\ client[c] = "left"
    /\ conn' = [conn EXCEPT ![c] = "leaving"]
    /\ UNCHANGED <<mu, subs, chan, pub, client, seen>>

CancelUnlocked(c) ==
    /\ conn[c] = "leaving"
    /\ subs' = subs \ {c}
    /\ conn' = [conn EXCEPT ![c] = "closing"]
    /\ UNCHANGED <<mu, chan, pub, client, seen>>

\* cancel: out of the map under the lock, and only then ...
Cancel(c) ==
    /\ conn[c] = "leaving" /\ mu = "free"
    /\ subs' = subs \ {c}
    /\ conn' = [conn EXCEPT ![c] = "closing"]
    /\ UNCHANGED <<mu, chan, pub, client, seen>>

\* ... closed.
Close(c) ==
    /\ conn[c] = "closing"
    /\ chan' = [chan EXCEPT ![c].open = FALSE]
    /\ conn' = [conn EXCEPT ![c] = "gone"]
    /\ UNCHANGED <<mu, subs, pub, client, seen>>

\* The far end stops reading without a word, or goes away.
ClientStalls(c) ==
    /\ client[c] = "reading"
    /\ client' = [client EXCEPT ![c] = "stalled"]
    /\ UNCHANGED <<mu, subs, chan, pub, conn, seen>>

ClientLeaves(c) ==
    /\ client[c] # "left"
    /\ client' = [client EXCEPT ![c] = "left"]
    /\ UNCHANGED <<mu, subs, chan, pub, conn, seen>>
-----------------------------------------------------------------------------
Publishing(p) == Published(p) \/ \E c \in Clients : Offer(p, c)
Handling(c) == Forward(c) \/ Detect(c) \/ Cancel(c) \/ Close(c)

FeedNext ==
    \/ \E p \in Publishers : Publish(p) \/ Publishing(p)
    \/ \E c \in Clients : \/ Subscribe(c) \/ Handling(c)
                          \/ ClientStalls(c) \/ ClientLeaves(c)

FeedSpec == FeedInit /\ [][FeedNext]_feed

\* Goroutines that can run do.
FeedFairSpec == /\ FeedSpec
            /\ \A p \in Publishers : WF_feed(Publishing(p))
            /\ \A c \in Clients : WF_feed(Handling(c))
-----------------------------------------------------------------------------
FeedTypeOK ==
    /\ mu \in Publishers \cup {"free"} /\ subs \subseteq Clients
    /\ \A c \in Clients : /\ chan[c].open \in BOOLEAN
                          /\ chan[c].queue \in Seq(Event) /\ Len(chan[c].queue) <= subBuffer
                          /\ conn[c] \in {"new", "streaming", "leaving", "closing", "gone"}
                          /\ client[c] \in {"reading", "stalled", "left"}
    /\ \A p \in Publishers : pub[p].sent \in 0..MaxEvents /\ pub[p].todo \subseteq Clients

\* No publisher can send on a closed channel, which would end the process:
\* cancel takes the channel out of the map, under the lock, before closing it.
NeverSendsOnClosed ==
    \A p \in Publishers : \A c \in pub[p].todo : chan[c].open

\* Two clients never see two events in different orders: an event is offered to
\* everyone before the next one is, though slow clients miss some.
SameOrder ==
    \A c, d \in Clients : \A i, j \in DOMAIN seen[c] : \A k, l \in DOMAIN seen[d] :
        seen[c][i] = seen[d][k] /\ seen[c][j] = seen[d][l] /\ i < j => k < l

\* No client, stalled or gone, holds a publisher up (the hub "never blocks").
PublishReturns == \A p \in Publishers : mu = p ~> mu # p

\* The hub forgets a client that went away, with or without further events.
LeaversAreDropped == \A c \in Clients : client[c] = "left" /\ c \in subs ~> c \notin subs

\* The stream is sound: nothing is sent on a closed channel, and all clients see
\* one order.
StreamIsSound == NeverSendsOnClosed /\ SameOrder

\* The stream serves, whatever clients do, and only while they stay.
StreamServes == PublishReturns /\ LeaversAreDropped
=============================================================================
