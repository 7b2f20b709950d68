--------------------------- MODULE ProcessProofs ----------------------------
(***************************************************************************)
(* Proofs about the goroutines of the control-plane process: the progress  *)
(* stream, for any numbers of publishers and clients and any buffer, and   *)
(* the shutdown, for any finite sets of requests and jobs.                 *)
(***************************************************************************)
EXTENDS Shutdown, LiveFeed, FiniteSetTheorems, SequenceTheorems, TLAPS

\* Only the holder of the lock has somebody left to offer its event to, all of
\* them in the map; a channel in the map is open and its handler has not yet
\* cancelled.
FInv ==
    /\ pub = [p \in Publishers |-> pub[p]]
    /\ \A p \in Publishers : pub[p] = [sent |-> pub[p].sent, todo |-> pub[p].todo]
    /\ conn = [c \in Clients |-> conn[c]]
    /\ chan = [c \in Clients |-> chan[c]]
    /\ \A c \in Clients : chan[c] = [open |-> chan[c].open, queue |-> chan[c].queue]
    /\ subs \subseteq Clients
    /\ \A p \in Publishers : pub[p].todo \subseteq subs /\ (mu # p => pub[p].todo = {})
    /\ \A c \in subs : chan[c].open /\ conn[c] \in {"streaming", "leaving"}

LEMMA FInvInit == FeedInit => FInv
BY DEF FeedInit, FInv

\* The queue of a channel may change while the rest stands.
LEMMA QueueOnly ==
    ASSUME FInv, NEW c \in Clients, NEW q, chan' = [chan EXCEPT ![c].queue = q]
    PROVE  /\ chan' = [d \in Clients |-> chan'[d]]
           /\ \A d \in Clients : /\ chan'[d] = [open |-> chan'[d].open, queue |-> chan'[d].queue]
                                 /\ chan'[d].open = chan[d].open
           /\ chan'[c].queue = q /\ \A d \in Clients \ {c} : chan'[d] = chan[d]
<1>1. chan' = [d \in Clients |-> IF d = c THEN [open |-> chan[d].open, queue |-> q] ELSE chan[d]]
  BY DEF FInv
<1> QED
  BY <1>1 DEF FInv

\* A channel is opened or closed.
LEMMA OpenOnly ==
    ASSUME FInv, NEW c \in Clients, NEW b, chan' = [chan EXCEPT ![c].open = b]
    PROVE  /\ chan' = [d \in Clients |-> chan'[d]]
           /\ \A d \in Clients : chan'[d] = [open |-> chan'[d].open, queue |-> chan'[d].queue]
           /\ chan'[c].open = b /\ chan'[c].queue = chan[c].queue
           /\ \A d \in Clients \ {c} : chan'[d] = chan[d]
<1>1. chan' = [d \in Clients |-> IF d = c THEN [open |-> b, queue |-> chan[d].queue] ELSE chan[d]]
  BY DEF FInv
<1> QED
  BY <1>1 DEF FInv

\* An event was offered to one client.
LEMMA TodoOnly ==
    ASSUME FInv, NEW p \in Publishers, NEW t, pub' = [pub EXCEPT ![p].todo = t]
    PROVE  pub' = [pub EXCEPT ![p] = [sent |-> pub[p].sent, todo |-> t]]
<1>1. pub' = [o \in Publishers |-> IF o = p THEN [sent |-> pub[p].sent, todo |-> t] ELSE pub[o]]
  BY DEF FInv
<1> QED
  BY <1>1, Zenon DEF FInv

\* One more event from p, or one client fewer to offer it to.
LEMMA PubOnly ==
    ASSUME FInv, NEW p \in Publishers, NEW r, NEW s, NEW t,
           pub' = [pub EXCEPT ![p] = r], r = [sent |-> s, todo |-> t]
    PROVE  /\ pub' = [o \in Publishers |-> pub'[o]]
           /\ \A o \in Publishers : pub'[o] = [sent |-> pub'[o].sent, todo |-> pub'[o].todo]
           /\ pub'[p].sent = s /\ pub'[p].todo = t
           /\ \A o \in Publishers \ {p} : pub'[o] = pub[o]
<1>1. pub' = [o \in Publishers |-> IF o = p THEN r ELSE pub[o]]
  BY Zenon DEF FInv
<1> QED
  BY <1>1 DEF FInv

\* One step per action of the hub and of the handlers.
LEMMA FInvStep ==
    ASSUME FInv, [FeedNext]_feed
    PROVE  FInv'
<1>1. ASSUME NEW p \in Publishers, Publish(p) PROVE FInv'
  <2>1. pub' = [pub EXCEPT ![p] = [sent |-> pub[p].sent + 1, todo |-> subs]]
    BY <1>1, Zenon DEF Publish
  <2>2. /\ pub' = [o \in Publishers |-> pub'[o]]
        /\ \A o \in Publishers : pub'[o] = [sent |-> pub'[o].sent, todo |-> pub'[o].todo]
        /\ pub'[p].todo = subs
        /\ \A o \in Publishers \ {p} : pub'[o] = pub[o]
    BY <2>1, PubOnly, Zenon
  <2> QED
    BY <1>1, <2>2, FeedAssumption, ZenonT(30) DEF Publish, FInv
<1>2. ASSUME NEW p \in Publishers, NEW c \in Clients, Offer(p, c) PROVE FInv'
  <2>1. pub' = [pub EXCEPT ![p] = [sent |-> pub[p].sent, todo |-> pub[p].todo \ {c}]]
    BY <1>2, TodoOnly, Zenon DEF Offer
  <2>2. /\ pub' = [o \in Publishers |-> pub'[o]]
        /\ \A o \in Publishers : pub'[o] = [sent |-> pub'[o].sent, todo |-> pub'[o].todo]
        /\ pub'[p].todo = pub[p].todo \ {c}
        /\ \A o \in Publishers \ {p} : pub'[o] = pub[o]
    BY <2>1, PubOnly, Zenon
  <2>3. CASE chan' = chan
    BY <1>2, <2>2, <2>3, ZenonT(30) DEF Offer, FInv
  <2>4. CASE chan' # chan
    <3>1. chan' = [chan EXCEPT ![c].queue = Append(chan[c].queue, <<p, pub[p].sent>>)]
      BY <1>2, <2>4, Zenon DEF Offer
    <3>2. /\ chan' = [d \in Clients |-> chan'[d]]
          /\ \A d \in Clients : /\ chan'[d] = [open |-> chan'[d].open, queue |-> chan'[d].queue]
                                /\ chan'[d].open = chan[d].open
      BY <3>1, QueueOnly, Zenon
    <3>3. UNCHANGED <<mu, subs, conn>>
      BY <1>2, Zenon DEF Offer
    <3>4. \A o \in Publishers : /\ pub'[o].todo \subseteq subs
                               /\ mu # o => pub'[o].todo = {}
      BY <2>2, ZenonT(30) DEF FInv
    <3>5. \A d \in subs : chan'[d].open /\ conn[d] \in {"streaming", "leaving"}
      BY <3>2, Zenon DEF FInv
    <3> QED
      BY <2>2, <3>2, <3>3, <3>4, <3>5, Zenon DEF FInv
  <2> QED
    BY <2>3, <2>4, Zenon
<1>3. ASSUME NEW p \in Publishers, Published(p) PROVE FInv'
  BY <1>3, Zenon DEF Published, FInv
<1>4. ASSUME NEW c \in Clients, Subscribe(c) PROVE FInv'
  <2>1. /\ chan' = [d \in Clients |-> chan'[d]]
        /\ \A d \in Clients : chan'[d] = [open |-> chan'[d].open, queue |-> chan'[d].queue]
        /\ chan'[c].open = TRUE
        /\ \A d \in Clients \ {c} : chan'[d] = chan[d]
    BY <1>4, OpenOnly, Zenon DEF Subscribe
  <2>2. conn' = [d \in Clients |-> IF d = c THEN "streaming" ELSE conn[d]]
    BY <1>4, Zenon DEF Subscribe, FInv
  <2>3. subs' = subs \cup {c} /\ UNCHANGED <<mu, pub>> /\ mu = "free"
    BY <1>4, Zenon DEF Subscribe
  <2>4. \A p \in Publishers : pub[p].todo = {}
    BY <2>3, FeedAssumption, Zenon DEF FInv
  <2> QED
    BY <2>1, <2>2, <2>3, <2>4, Zenon DEF FInv
<1>5. ASSUME NEW c \in Clients, Forward(c) PROVE FInv'
  <2>1. /\ chan' = [d \in Clients |-> chan'[d]]
        /\ \A d \in Clients : /\ chan'[d] = [open |-> chan'[d].open, queue |-> chan'[d].queue]
                              /\ chan'[d].open = chan[d].open
    BY <1>5, QueueOnly, Zenon DEF Forward
  <2>2. conn' = conn \/ conn' = [d \in Clients |-> IF d = c THEN "leaving" ELSE conn[d]]
    BY <1>5, Zenon DEF Forward, FInv
  <2>3. UNCHANGED <<mu, subs, pub>>
    BY <1>5, Zenon DEF Forward
  <2>4. CASE conn' = conn
    BY <2>1, <2>3, <2>4, Zenon DEF FInv
  <2>5. CASE conn' = [d \in Clients |-> IF d = c THEN "leaving" ELSE conn[d]]
    BY <2>1, <2>3, <2>5, Zenon DEF FInv
  <2> QED
    BY <2>2, <2>4, <2>5, Zenon
<1>6. ASSUME NEW c \in Clients, Detect(c) PROVE FInv'
  BY <1>6, Zenon DEF Detect, FInv
<1>7. ASSUME NEW c \in Clients, Cancel(c) PROVE FInv'
  BY <1>7, FeedAssumption, ZenonT(30) DEF Cancel, FInv
<1>8. ASSUME NEW c \in Clients, Close(c) PROVE FInv'
  <2>1. /\ chan' = [d \in Clients |-> chan'[d]]
        /\ \A d \in Clients : chan'[d] = [open |-> chan'[d].open, queue |-> chan'[d].queue]
        /\ chan'[c].open = FALSE
        /\ \A d \in Clients \ {c} : chan'[d] = chan[d]
    BY <1>8, OpenOnly, Zenon DEF Close
  <2>2. conn' = [d \in Clients |-> IF d = c THEN "gone" ELSE conn[d]]
    BY <1>8, Zenon DEF Close, FInv
  <2>3. c \notin subs
    BY <1>8, Zenon DEF Close, FInv
  <2>4. UNCHANGED <<mu, subs, pub>>
    BY <1>8, Zenon DEF Close
  <2> QED
    BY <2>1, <2>2, <2>3, <2>4, ZenonT(30) DEF FInv
<1>9. ASSUME NEW c \in Clients, ClientStalls(c) \/ ClientLeaves(c) PROVE FInv'
  BY <1>9, ZenonT(30) DEF ClientStalls, ClientLeaves, FInv
<1>10. CASE UNCHANGED feed
  BY <1>10, Zenon DEF feed, FInv
<1> QED
  BY <1>1, <1>2, <1>3, <1>4, <1>5, <1>6, <1>7, <1>8, <1>9, <1>10, Zenon
  DEF FeedNext, Publishing, Handling

LEMMA FeedInvariant == FeedSpec => []FInv
BY FInvInit, FInvStep, PTL DEF FeedSpec
-----------------------------------------------------------------------------
FeedTypes ==
    /\ mu \in Publishers \cup {"free"}
    /\ \A c \in Clients : /\ chan[c].open \in BOOLEAN
                          /\ chan[c].queue \in Seq(Event) /\ Len(chan[c].queue) <= subBuffer
    /\ conn \in [Clients -> {"new", "streaming", "leaving", "closing", "gone"}]
    /\ client \in [Clients -> {"reading", "stalled", "left"}]
    /\ seen \in [Clients -> Seq(Event)]
    /\ \A p \in Publishers : pub[p].sent \in 0..MaxEvents /\ (mu = p => pub[p].sent > 0)

\* The events on their way to a client, from the first it received to the last it
\* may still receive.
Stream(c) == IF conn[c] = "streaming" THEN seen[c] \o chan[c].queue ELSE seen[c]

\* Two streams have the events they share in one order, and none twice.
Agree(s, t) ==
    \A i, j \in DOMAIN s : \A k, l \in DOMAIN t : s[i] = t[k] /\ s[j] = t[l] /\ i < j => k < l

\* All streams agree; they hold events that were published; and the event being
\* published is the last of each stream it has reached.
OrderInv ==
    /\ \A c, d \in Clients : Agree(Stream(c), Stream(d))
    /\ \A c \in Clients : \A i \in DOMAIN Stream(c) : Stream(c)[i][2] <= pub[Stream(c)[i][1]].sent
    /\ \A c \in Clients, p \in Publishers : \A i \in DOMAIN Stream(c) :
          mu = p /\ Stream(c)[i] = <<p, pub[p].sent>> =>
              c \notin pub[p].todo /\ \A j \in DOMAIN Stream(c) : j <= i
    /\ \A c \in Clients : conn[c] = "new" => chan[c].queue = <<>>

FeedInv == FInv /\ FeedTypes /\ OrderInv

LEMMA FeedTypesInit == FeedInit => FeedTypes
<1> SUFFICES ASSUME FeedInit PROVE FeedTypes
  OBVIOUS
<1>1. \A c \in Clients : chan[c].open = FALSE /\ chan[c].queue = <<>>
  BY Zenon DEF FeedInit
<1>2. \A c \in Clients : /\ chan[c].open \in BOOLEAN
                         /\ chan[c].queue \in Seq(Event) /\ Len(chan[c].queue) <= subBuffer
  <2>1. <<>> \in Seq(Event) /\ Len(<<>>) = 0 /\ subBuffer \in Nat
    BY FeedAssumption, EmptySeq, Zenon
  <2>2. Len(<<>>) <= subBuffer
    BY <2>1
  <2> QED
    BY <1>1, <2>1, <2>2, Zenon
<1>3. \A p \in Publishers : pub[p].sent = 0 /\ mu # p
  BY FeedAssumption, Zenon DEF FeedInit
<1>4. seen \in [Clients -> Seq(Event)]
  BY DEF FeedInit
<1>5. /\ conn \in [Clients -> {"new", "streaming", "leaving", "closing", "gone"}]
      /\ client \in [Clients -> {"reading", "stalled", "left"}] /\ mu = "free"
  BY Zenon DEF FeedInit
<1> QED
  BY <1>2, <1>3, <1>4, <1>5, FeedAssumption DEF FeedTypes

\* The event a publisher offers is one.
LEMMA IsEvent ==
    ASSUME FInv, FeedTypes, NEW p \in Publishers, pub[p].todo # {}
    PROVE  mu = p /\ <<p, pub[p].sent>> \in Event
BY FeedAssumption DEF FInv, FeedTypes, Event

LEMMA OfferTypes ==
    ASSUME FInv, FeedTypes, NEW p \in Publishers, NEW c \in Clients, Offer(p, c)
    PROVE  FeedTypes'
<1>1. UNCHANGED <<mu, conn, client, seen>>
  BY Zenon DEF Offer
<1>2. \A o \in Publishers : pub'[o].sent = pub[o].sent
  <2>1. pub' = [pub EXCEPT ![p] = [sent |-> pub[p].sent, todo |-> pub[p].todo \ {c}]]
    BY TodoOnly, Zenon DEF Offer
  <2> QED
    BY <2>1, PubOnly, Zenon
<1>3. CASE chan' = chan
  BY <1>1, <1>2, <1>3, Zenon DEF FeedTypes
<1>4. CASE chan' # chan
  <2>1. /\ chan' = [chan EXCEPT ![c].queue = Append(chan[c].queue, <<p, pub[p].sent>>)]
        /\ Len(chan[c].queue) < subBuffer
    BY <1>4, Zenon DEF Offer
  <2>2. <<p, pub[p].sent>> \in Event
    BY IsEvent, Zenon DEF Offer
  <2>3. /\ \A d \in Clients : chan'[d].open = chan[d].open
        /\ chan'[c].queue = Append(chan[c].queue, <<p, pub[p].sent>>)
        /\ \A d \in Clients \ {c} : chan'[d] = chan[d]
    BY <2>1, QueueOnly, Zenon
  <2>4. chan[c].queue \in Seq(Event) /\ Len(chan[c].queue) \in Nat
    BY DEF FeedTypes
  <2>5. chan'[c].queue \in Seq(Event) /\ Len(chan'[c].queue) = Len(chan[c].queue) + 1
    BY <2>2, <2>3, <2>4, AppendProperties
  <2>6. Len(chan'[c].queue) <= subBuffer
    BY <2>1, <2>4, <2>5, FeedAssumption
  <2>7. ASSUME NEW d \in Clients
        PROVE  /\ chan'[d].open \in BOOLEAN
               /\ chan'[d].queue \in Seq(Event) /\ Len(chan'[d].queue) <= subBuffer
    BY <2>3, <2>5, <2>6, Zenon DEF FeedTypes
  <2> QED
    BY <1>1, <1>2, <2>7, Zenon DEF FeedTypes
<1> QED
  BY <1>3, <1>4, Zenon

LEMMA ForwardTypes ==
    ASSUME FInv, FeedTypes, NEW c \in Clients, Forward(c)
    PROVE  FeedTypes'
<1> DEFINE q == chan[c].queue
<1>1. UNCHANGED <<mu, pub, client>> /\ q # <<>> /\ chan' = [chan EXCEPT ![c].queue = Tail(q)]
  BY Zenon DEF Forward
<1>2. q \in Seq(Event) /\ Len(q) \in Nat /\ Len(q) <= subBuffer
  BY DEF FeedTypes
<1>3. Head(q) \in Event /\ Tail(q) \in Seq(Event) /\ Len(Tail(q)) = Len(q) - 1
  BY <1>1, <1>2, HeadTailProperties, Zenon
<1>4. /\ \A d \in Clients : chan'[d].open = chan[d].open
      /\ chan'[c].queue = Tail(q)
      /\ \A d \in Clients \ {c} : chan'[d] = chan[d]
  BY <1>1, QueueOnly, Zenon
<1>5. Len(Tail(q)) <= subBuffer
  BY <1>2, <1>3, FeedAssumption
<1> HIDE DEF q
<1>6. ASSUME NEW d \in Clients
      PROVE  /\ chan'[d].open \in BOOLEAN
             /\ chan'[d].queue \in Seq(Event) /\ Len(chan'[d].queue) <= subBuffer
  BY <1>3, <1>4, <1>5, Zenon DEF FeedTypes
<1>7. seen[c] \in Seq(Event) /\ Append(seen[c], Head(q)) \in Seq(Event)
  BY <1>3, AppendProperties, Zenon DEF FeedTypes
<1>8. /\ seen' = seen \/ seen' = [seen EXCEPT ![c] = Append(seen[c], Head(q))]
      /\ conn' = conn \/ conn' = [conn EXCEPT ![c] = "leaving"]
  BY Zenon DEF Forward, q
<1>9. seen' \in [Clients -> Seq(Event)]
  BY <1>7, <1>8, Zenon DEF FeedTypes
<1>10. conn' \in [Clients -> {"new", "streaming", "leaving", "closing", "gone"}]
  BY <1>8, Zenon DEF FeedTypes
<1> QED
  BY <1>1, <1>6, <1>9, <1>10, Zenon DEF FeedTypes

LEMMA FeedTypesStep == ASSUME FInv, FeedTypes, [FeedNext]_feed PROVE FeedTypes'
<1>1. ASSUME NEW p \in Publishers, Publish(p) PROVE FeedTypes'
  <2>1. pub' = [pub EXCEPT ![p] = [sent |-> pub[p].sent + 1, todo |-> subs]]
    BY <1>1, Zenon DEF Publish
  <2>2. pub'[p].sent = pub[p].sent + 1 /\ \A o \in Publishers \ {p} : pub'[o] = pub[o]
    BY <2>1, PubOnly, Zenon
  <2>3. /\ mu' = p /\ UNCHANGED <<chan, conn, client, seen>> /\ pub[p].sent < MaxEvents
    BY <1>1, Zenon DEF Publish
  <2>4. pub'[p].sent \in 0..MaxEvents /\ pub'[p].sent > 0
    <3>1. pub[p].sent \in 0..MaxEvents
      BY Zenon DEF FeedTypes
    <3> QED
      BY <2>2, <2>3, <3>1, FeedAssumption
  <2>5. \A o \in Publishers : pub'[o].sent \in 0..MaxEvents /\ (mu' = o => pub'[o].sent > 0)
    BY <2>2, <2>3, <2>4, Zenon DEF FeedTypes
  <2> QED
    BY <2>3, <2>5, Zenon DEF FeedTypes
<1>2. ASSUME NEW p \in Publishers, Published(p) PROVE FeedTypes'
  BY <1>2, FeedAssumption, Zenon DEF Published, FeedTypes
<1>3. ASSUME NEW c \in Clients, Subscribe(c) \/ Close(c) PROVE FeedTypes'
  <2>1. \E b \in BOOLEAN : chan' = [chan EXCEPT ![c].open = b]
    BY <1>3, Zenon DEF Subscribe, Close
  <2>2. \A d \in Clients : chan'[d].open \in BOOLEAN /\ chan'[d].queue = chan[d].queue
    BY <2>1, OpenOnly DEF FeedTypes
  <2>3. UNCHANGED <<mu, pub, client, seen>>
    BY <1>3, Zenon DEF Subscribe, Close
  <2>4. conn' \in [Clients -> {"new", "streaming", "leaving", "closing", "gone"}]
    BY <1>3, Zenon DEF Subscribe, Close, FeedTypes
  <2> QED
    BY <2>2, <2>3, <2>4, Zenon DEF FeedTypes
<1>4. ASSUME NEW c \in Clients, Detect(c) \/ Cancel(c) PROVE FeedTypes'
  BY <1>4, Zenon DEF Detect, Cancel, FeedTypes
<1>5. ASSUME NEW c \in Clients, ClientStalls(c) \/ ClientLeaves(c) PROVE FeedTypes'
  BY <1>5, Zenon DEF ClientStalls, ClientLeaves, FeedTypes
<1>6. CASE UNCHANGED feed
  BY <1>6, Zenon DEF feed, FeedTypes
<1> QED
  BY <1>1, <1>2, <1>3, <1>4, <1>5, <1>6, OfferTypes, ForwardTypes, Zenon
  DEF FeedNext, Publishing, Handling
-----------------------------------------------------------------------------
LEMMA StreamIsSeq ==
    ASSUME FeedTypes, NEW c \in Clients
    PROVE  /\ Stream(c) \in Seq(Event) /\ DOMAIN Stream(c) = 1 .. Len(Stream(c))
           /\ Len(Stream(c)) \in Nat
           /\ DOMAIN seen[c] \subseteq DOMAIN Stream(c)
           /\ \A i \in DOMAIN seen[c] : seen[c][i] = Stream(c)[i]
<1>1. seen[c] \in Seq(Event) /\ chan[c].queue \in Seq(Event)
  BY Zenon DEF FeedTypes
<1> DEFINE s == seen[c]
           q == chan[c].queue
<1>2. /\ s \o q \in Seq(Event) /\ Len(s \o q) = Len(s) + Len(q)
      /\ \A i \in 1 .. Len(s) + Len(q) : (s \o q)[i] = IF i <= Len(s) THEN s[i] ELSE q[i - Len(s)]
  BY <1>1, ConcatProperties, Zenon
<1>3. Len(s) \in Nat /\ DOMAIN s = 1 .. Len(s) /\ Len(q) \in Nat
  BY <1>1, LenProperties, Zenon
<1>4. DOMAIN (s \o q) = 1 .. Len(s) + Len(q)
  BY <1>2, LenProperties, Zenon
<1> HIDE DEF s, q
<1>5. CASE conn[c] = "streaming"
  <2>1. Stream(c) = s \o q
    BY <1>5, Zenon DEF Stream, s, q
  <2>2. DOMAIN s \subseteq DOMAIN (s \o q) /\ \A i \in DOMAIN s : s[i] = (s \o q)[i]
    BY <1>2, <1>3, <1>4
  <2> QED
    BY <1>2, <1>3, <1>4, <2>1, <2>2 DEF s
<1>6. CASE conn[c] # "streaming"
  <2>1. Stream(c) = s
    BY <1>6, Zenon DEF Stream, s
  <2> QED
    BY <1>1, <1>3, <2>1, Zenon DEF s
<1> QED
  BY <1>5, <1>6, Zenon

\* Parts of streams that agree agree.
LEMMA PartsAgree ==
    ASSUME NEW s, NEW t, Agree(s, t), NEW u, NEW v,
           DOMAIN u \subseteq DOMAIN s, \A i \in DOMAIN u : u[i] = s[i],
           DOMAIN v \subseteq DOMAIN t, \A i \in DOMAIN v : v[i] = t[i]
    PROVE  Agree(u, v)
BY Zenon DEF Agree

\* A step that publishes nothing and only shortens streams.
LEMMA Shortened ==
    ASSUME OrderInv, UNCHANGED pub, mu' \in {mu, "free"},
           \A c \in Clients : /\ DOMAIN Stream(c)' \subseteq DOMAIN Stream(c)
                              /\ \A i \in DOMAIN Stream(c)' : Stream(c)'[i] = Stream(c)[i],
           \A c \in Clients : conn'[c] = "new" => chan'[c].queue = <<>>
    PROVE  OrderInv'
<1>1. ASSUME NEW c \in Clients, NEW d \in Clients
      PROVE  Agree(Stream(c)', Stream(d)')
  <2>1. Agree(Stream(c), Stream(d))
    BY Zenon DEF OrderInv
  <2> QED
    BY <2>1, PartsAgree
<1>2. ASSUME NEW c \in Clients, NEW i \in DOMAIN Stream(c)'
      PROVE  Stream(c)'[i][2] <= pub[Stream(c)'[i][1]].sent
  BY Zenon DEF OrderInv
<1>3. ASSUME NEW c \in Clients, NEW p \in Publishers, NEW i \in DOMAIN Stream(c)',
             mu' = p, Stream(c)'[i] = <<p, pub[p].sent>>
      PROVE  c \notin pub[p].todo /\ \A j \in DOMAIN Stream(c)' : j <= i
  <2>1. mu = p /\ i \in DOMAIN Stream(c) /\ Stream(c)[i] = <<p, pub[p].sent>>
    BY <1>3, FeedAssumption, Zenon
  <2> QED
    BY <2>1, Zenon DEF OrderInv
<1> QED
  BY <1>1, <1>2, <1>3, Zenon DEF OrderInv, Agree

\* A new event is in no stream yet.
LEMMA PublishOrder ==
    ASSUME FInv, FeedTypes, OrderInv, NEW p \in Publishers, Publish(p)
    PROVE  OrderInv'
<1>1. mu' = p /\ UNCHANGED <<chan, conn, seen>>
  BY Zenon DEF Publish
<1>2. \A c : Stream(c)' = Stream(c)
  BY <1>1, Zenon DEF Stream
<1>3. pub'[p].sent = pub[p].sent + 1 /\ \A o \in Publishers \ {p} : pub'[o] = pub[o]
  <2>1. pub' = [pub EXCEPT ![p] = [sent |-> pub[p].sent + 1, todo |-> subs]]
    BY Zenon DEF Publish
  <2> QED
    BY <2>1, PubOnly, Zenon
<1>4. \A o \in Publishers : pub[o].sent \in Nat /\ pub[o].sent <= pub'[o].sent /\ pub'[o].sent \in Nat
  BY <1>3 DEF FeedTypes
<1>5. ASSUME NEW c \in Clients, NEW i \in DOMAIN Stream(c)
      PROVE  /\ Stream(c)[i][2] <= pub'[Stream(c)[i][1]].sent
             /\ Stream(c)[i] # <<p, pub'[p].sent>>
  <2>1. Stream(c)[i] \in Event
    BY StreamIsSeq, ElementOfSeq, Zenon
  <2>2. PICK o \in Publishers, n \in 1..MaxEvents : Stream(c)[i] = <<o, n>>
    BY <2>1 DEF Event
  <2>3. n <= pub[o].sent /\ n \in Nat
    <3>1. Stream(c)[i][2] <= pub[Stream(c)[i][1]].sent
      BY Zenon DEF OrderInv
    <3> QED
      BY <2>2, <3>1
  <2>4. n <= pub'[o].sent
    BY <1>4, <2>3
  <2>5. o = p => n # pub'[p].sent
    BY <1>3, <1>4, <2>3
  <2> QED
    BY <2>2, <2>4, <2>5
<1>6. ASSUME NEW c \in Clients, NEW o \in Publishers, NEW i \in DOMAIN Stream(c), mu' = o
      PROVE  Stream(c)[i] # <<o, pub'[o].sent>>
  BY <1>1, <1>5, <1>6, Zenon
<1> QED
  BY <1>1, <1>2, <1>5, <1>6, Zenon DEF OrderInv

\* An event that reaches a stream becomes its last, as in every other stream.
LEMMA AppendAgrees ==
    ASSUME NEW S, NEW s \in Seq(S), NEW t \in Seq(S), NEW e \in S, Agree(s, t), Agree(t, s), Agree(s, s),
           \A i \in DOMAIN s : s[i] # e,
           \A i \in DOMAIN t : t[i] = e => \A j \in DOMAIN t : j <= i
    PROVE  Agree(Append(s, e), t) /\ Agree(t, Append(s, e)) /\ Agree(Append(s, e), Append(s, e))
<1> DEFINE n == Len(s) + 1
           a == Append(s, e)
<1>1. /\ n \in Nat /\ DOMAIN a = DOMAIN s \cup {n} /\ n \notin DOMAIN s
      /\ \A i \in DOMAIN s : a[i] = s[i] /\ i \in Nat /\ i < n
      /\ a[n] = e
  <2>1. /\ a \in Seq(S) /\ Len(a) = n /\ a[n] = e
        /\ \A i \in 1 .. Len(s) : a[i] = s[i]
    BY AppendProperties
  <2>2. Len(s) \in Nat /\ DOMAIN s = 1 .. Len(s) /\ DOMAIN a = 1 .. n
    BY <2>1, LenProperties, Zenon
  <2> HIDE DEF a
  <2> QED
    BY <2>1, <2>2
<1>2. DOMAIN t \subseteq Nat
  BY LenProperties
<1> HIDE DEF a, n
<1>3. Agree(a, t)
  <2> SUFFICES ASSUME NEW i \in DOMAIN a, NEW j \in DOMAIN a, NEW k \in DOMAIN t, NEW l \in DOMAIN t,
                      a[i] = t[k], a[j] = t[l], i < j
               PROVE  k < l
    BY Zenon DEF Agree
  <2>1. i \in DOMAIN s
    BY <1>1
  <2>2. CASE j = n
    <3>1. t[l] = e /\ k <= l
      BY <1>1, <2>2, Zenon
    <3>2. k # l
      BY <1>1, <2>1, <3>1, Zenon
    <3> QED
      BY <1>2, <3>1, <3>2
  <2>3. CASE j # n
    BY <1>1, <2>1, <2>3 DEF Agree
  <2> QED
    BY <2>2, <2>3, Zenon
<1>4. Agree(t, a)
  <2> SUFFICES ASSUME NEW i \in DOMAIN t, NEW j \in DOMAIN t, NEW k \in DOMAIN a, NEW l \in DOMAIN a,
                      t[i] = a[k], t[j] = a[l], i < j
               PROVE  k < l
    BY Zenon DEF Agree
  <2>1. k # n
    BY <1>1, <1>2
  <2>2. CASE l = n
    BY <1>1, <2>1, <2>2, Zenon
  <2>3. CASE l # n
    BY <1>1, <2>1, <2>3, Zenon DEF Agree
  <2> QED
    BY <2>2, <2>3, Zenon
<1>5. Agree(a, a)
  <2> SUFFICES ASSUME NEW i \in DOMAIN a, NEW j \in DOMAIN a, NEW k \in DOMAIN a, NEW l \in DOMAIN a,
                      a[i] = a[k], a[j] = a[l], i < j
               PROVE  k < l
    BY Zenon DEF Agree
  <2>1. i \in DOMAIN s
    BY <1>1
  <2>2. k \in DOMAIN s
    BY <1>1, <2>1, Zenon
  <2>3. CASE l = n
    BY <1>1, <2>2, <2>3, Zenon
  <2>4. CASE l # n
    <3>1. l \in DOMAIN s /\ j \in DOMAIN s
      BY <1>1, <2>4, Zenon
    <3> QED
      BY <1>1, <2>1, <2>2, <3>1 DEF Agree
  <2> QED
    BY <2>3, <2>4, Zenon
<1> QED
  BY <1>3, <1>4, <1>5, Zenon DEF a

\* Offering to one client lengthens its stream, or drops the event.
LEMMA OfferOrder ==
    ASSUME FInv, FeedTypes, OrderInv, NEW p \in Publishers, NEW c \in Clients, Offer(p, c)
    PROVE  OrderInv'
<1> DEFINE e == <<p, pub[p].sent>>
<1>1. UNCHANGED <<mu, conn, seen>> /\ c \in pub[p].todo /\ mu = p /\ e \in Event
  BY IsEvent, Zenon DEF Offer
<1>2. /\ \A o \in Publishers : pub'[o].sent = pub[o].sent
      /\ pub'[p].todo = pub[p].todo \ {c}
  <2>1. pub' = [pub EXCEPT ![p] = [sent |-> pub[p].sent, todo |-> pub[p].todo \ {c}]]
    BY TodoOnly, Zenon DEF Offer
  <2> QED
    BY <2>1, PubOnly, Zenon
<1>3. \A d \in Clients : \A i \in DOMAIN Stream(d) :
         Stream(d)[i] = e => d # c /\ d \notin pub[p].todo /\ \A j \in DOMAIN Stream(d) : j <= i
  BY <1>1, Zenon DEF OrderInv
<1>4. \/ \A d \in Clients : Stream(d)' = Stream(d)
      \/ /\ Stream(c)' = Append(Stream(c), e)
         /\ \A d \in Clients \ {c} : Stream(d)' = Stream(d)
  <2>1. CASE chan' = chan
    BY <1>1, <2>1, Zenon DEF Stream
  <2>2. CASE chan' # chan
    <3>1. chan' = [chan EXCEPT ![c].queue = Append(chan[c].queue, e)]
      BY <2>2, Zenon DEF Offer
    <3> HIDE DEF e
    <3>2. chan'[c].queue = Append(chan[c].queue, e) /\ \A d \in Clients \ {c} : chan'[d] = chan[d]
      BY <3>1, QueueOnly, Zenon
    <3>3. \A d \in Clients \ {c} : Stream(d)' = Stream(d)
      BY <1>1, <3>2, Zenon DEF Stream
    <3>4. CASE conn[c] # "streaming"
      BY <1>1, <3>3, <3>4, Zenon DEF Stream
    <3>5. CASE conn[c] = "streaming"
      <4>1. seen[c] \in Seq(Event) /\ chan[c].queue \in Seq(Event) /\ <<e>> \in Seq(Event)
        BY <1>1 DEF FeedTypes
      <4>2. seen[c] \o Append(chan[c].queue, e) = Append(seen[c] \o chan[c].queue, e)
        <5>1. Append(chan[c].queue, e) = chan[c].queue \o <<e>>
          BY <1>1, <4>1, AppendIsConcat, Zenon
        <5>2. seen[c] \o chan[c].queue \in Seq(Event)
          BY <4>1, ConcatProperties, Zenon
        <5>3. Append(seen[c] \o chan[c].queue, e) = (seen[c] \o chan[c].queue) \o <<e>>
          BY <1>1, <5>2, AppendIsConcat, Zenon
        <5> DEFINE s == seen[c]
                   q == chan[c].queue
                   one == <<e>>
        <5>4. (s \o q) \o one = s \o (q \o one)
          <6>1. s \in Seq(Event) /\ q \in Seq(Event) /\ one \in Seq(Event)
            BY <4>1, Zenon
          <6> HIDE DEF s, q, one
          <6> QED
            BY <6>1, ConcatAssociative
        <5> QED
          BY <5>1, <5>3, <5>4, Zenon
      <4> QED
        BY <1>1, <3>2, <3>3, <3>5, <4>2, Zenon DEF Stream
    <3> QED
      BY <3>4, <3>5, Zenon
  <2> QED
    BY <2>1, <2>2, Zenon
<1>5. \A d \in Clients : conn'[d] = "new" => chan'[d].queue = <<>>
  <2>1. conn[c] # "new"
    BY <1>1, Zenon DEF FInv
  <2>2. \A d \in Clients \ {c} : chan'[d] = chan[d]
    BY QueueOnly, Zenon DEF Offer
  <2> QED
    BY <1>1, <2>1, <2>2, Zenon DEF OrderInv
<1>6. \A o \in Publishers : mu = o => o = p
  BY <1>1, Zenon
<1>7. CASE \A d \in Clients : Stream(d)' = Stream(d)
  <2>1. ASSUME NEW d \in Clients, NEW i \in DOMAIN Stream(d)
        PROVE  Stream(d)[i][2] <= pub'[Stream(d)[i][1]].sent
    <3>1. Stream(d)[i] \in Event
      BY StreamIsSeq, ElementOfSeq, Zenon
    <3>2. Stream(d)[i][1] \in Publishers
      BY <3>1, Zenon DEF Event
    <3> QED
      BY <1>2, <3>2, Zenon DEF OrderInv
  <2>2. ASSUME NEW d \in Clients, NEW i \in DOMAIN Stream(d), Stream(d)[i] = <<p, pub'[p].sent>>
        PROVE  d \notin pub'[p].todo /\ \A j \in DOMAIN Stream(d) : j <= i
    BY <1>2, <1>3, <2>2, Zenon
  <2> QED
    BY <1>1, <1>5, <1>7, <2>1, <2>2, Zenon DEF OrderInv
<1>8. CASE /\ Stream(c)' = Append(Stream(c), e)
           /\ \A d \in Clients \ {c} : Stream(d)' = Stream(d)
  <2> DEFINE n == Len(Stream(c)) + 1
  <2>1. /\ n \in Nat /\ DOMAIN Stream(c)' = DOMAIN Stream(c) \cup {n}
        /\ \A i \in DOMAIN Stream(c) : Stream(c)'[i] = Stream(c)[i] /\ i < n
        /\ Stream(c)'[n] = e
    <3>1. /\ Stream(c) \in Seq(Event) /\ Len(Stream(c)) \in Nat
          /\ DOMAIN Stream(c) = 1 .. Len(Stream(c))
      BY StreamIsSeq, Zenon
    <3>2. /\ Stream(c)' \in Seq(Event) /\ Len(Stream(c)') = n /\ Stream(c)'[n] = e
          /\ \A i \in 1 .. Len(Stream(c)) : Stream(c)'[i] = Stream(c)[i]
      BY <1>1, <1>8, <3>1, AppendProperties
    <3>3. DOMAIN Stream(c)' = 1 .. n
      BY <3>2, LenProperties, Zenon
    <3> QED
      BY <3>1, <3>2, <3>3
  <2>2. ASSUME NEW a \in Clients, NEW b \in Clients
        PROVE  Agree(Stream(a)', Stream(b)')
    <3>1. ASSUME NEW d \in Clients
          PROVE  /\ Agree(Append(Stream(c), e), Stream(d)) /\ Agree(Stream(d), Append(Stream(c), e))
                 /\ Agree(Append(Stream(c), e), Append(Stream(c), e))
      <4>1. /\ Agree(Stream(c), Stream(d)) /\ Agree(Stream(d), Stream(c))
            /\ Agree(Stream(c), Stream(c))
        BY Zenon DEF OrderInv
      <4>2. Stream(c) \in Seq(Event) /\ Stream(d) \in Seq(Event)
        BY StreamIsSeq, Zenon
      <4> HIDE DEF e
      <4> QED
        BY <1>1, <1>3, <4>1, <4>2, AppendAgrees, Zenon
    <3>2. Agree(Stream(a), Stream(b))
      BY Zenon DEF OrderInv
    <3> HIDE DEF e
    <3> QED
      BY <1>8, <3>1, <3>2, Zenon
  <2> HIDE DEF n
  <2>3. ASSUME NEW d \in Clients, NEW i \in DOMAIN Stream(d)'
        PROVE  Stream(d)'[i][2] <= pub'[Stream(d)'[i][1]].sent
    <3>1. CASE d = c /\ i = n
      <4>1. pub[p].sent \in Nat
        BY DEF FeedTypes
      <4> QED
        BY <1>2, <2>1, <3>1, <4>1
    <3>2. CASE ~(d = c /\ i = n)
      <4>1. i \in DOMAIN Stream(d) /\ Stream(d)'[i] = Stream(d)[i]
        BY <1>8, <2>1, <2>3, <3>2
      <4>2. Stream(d)[i] \in Event
        BY <4>1, StreamIsSeq, ElementOfSeq, Zenon
      <4>3. Stream(d)[i][1] \in Publishers
        BY <4>2, Zenon DEF Event
      <4> QED
        BY <1>2, <4>1, <4>3 DEF OrderInv
    <3> QED
      BY <3>1, <3>2, Zenon
  <2>4. ASSUME NEW d \in Clients, NEW i \in DOMAIN Stream(d)', Stream(d)'[i] = <<p, pub'[p].sent>>
        PROVE  d \notin pub'[p].todo /\ \A j \in DOMAIN Stream(d)' : j <= i
    <3>1. Stream(d)'[i] = e
      BY <1>2, <2>4, Zenon
    <3>2. CASE d = c
      <4>1. i = n
        BY <1>3, <2>1, <2>4, <3>1, <3>2, Zenon
      <4>2. DOMAIN Stream(c) \subseteq Nat
        BY StreamIsSeq
      <4> QED
        BY <1>2, <2>1, <3>2, <4>1, <4>2
    <3>3. CASE d # c
      BY <1>2, <1>3, <1>8, <2>4, <3>1, <3>3, Zenon
    <3> QED
      BY <3>2, <3>3, Zenon
  <2> QED
    BY <1>1, <1>5, <2>2, <2>3, <2>4, Zenon DEF OrderInv
<1> QED
  BY <1>4, <1>7, <1>8, Zenon

\* A received event moves from the queue to what was seen; a write that fails ends
\* the stream.
LEMMA ForwardOrder ==
    ASSUME FInv, FeedTypes, OrderInv, NEW c \in Clients, Forward(c)
    PROVE  OrderInv'
<1> DEFINE q == chan[c].queue
           s == seen[c]
<1>1. UNCHANGED <<mu, pub>> /\ conn[c] = "streaming" /\ q # <<>> /\ chan' = [chan EXCEPT ![c].queue = Tail(q)]
  BY Zenon DEF Forward
<1>2. chan'[c].queue = Tail(q) /\ \A d \in Clients \ {c} : chan'[d] = chan[d]
  BY <1>1, QueueOnly, Zenon
<1>3. q \in Seq(Event) /\ s \in Seq(Event) /\ Stream(c) = s \o q
  BY <1>1, Zenon DEF FeedTypes, Stream
<1>4. \/ seen' = [seen EXCEPT ![c] = Append(s, Head(q))] /\ conn' = conn
      \/ seen' = seen /\ conn' = [conn EXCEPT ![c] = "leaving"]
  BY Zenon DEF Forward
<1>5. /\ conn'[c] \in {"streaming", "leaving"}
      /\ conn'[c] = "streaming" => seen'[c] = Append(s, Head(q))
      /\ conn'[c] # "streaming" => seen'[c] = s
      /\ \A d \in Clients \ {c} : conn'[d] = conn[d] /\ seen'[d] = seen[d]
  BY <1>1, <1>4, Zenon DEF FeedTypes
<1>6. \A d \in Clients \ {c} : Stream(d)' = Stream(d)
  BY <1>2, <1>5, Zenon DEF Stream
<1>7. Append(s, Head(q)) \o Tail(q) = s \o q
  <2> HIDE DEF q, s
  <2> DEFINE h == Head(q)
             r == Tail(q)
             one == <<h>>
  <2>1. h \in Event /\ r \in Seq(Event) /\ Len(r) = Len(q) - 1 /\ (\A i \in 1 .. Len(r) : r[i] = q[i+1])
    BY <1>1, <1>3, HeadTailProperties, Zenon
  <2>2. one \in Seq(Event) /\ Len(one) = 1 /\ one[1] = h /\ h = q[1] /\ Len(q) \in Nat /\ Len(q) > 0
    BY <1>1, <1>3, <2>1
  <2> HIDE DEF h, r
  <2>3. Append(s, h) = s \o one
    BY <1>3, <2>1, AppendIsConcat, Zenon
  <2> HIDE DEF one
  <2>0. s \in Seq(Event) /\ one \in Seq(Event) /\ r \in Seq(Event)
    BY <1>3, <2>1, <2>2, Zenon
  <2>4. (s \o one) \o r = s \o (one \o r)
    BY <2>0, ConcatAssociative
  <2>5. /\ one \o r \in Seq(Event) /\ Len(one \o r) = Len(one) + Len(r)
        /\ \A i \in 1 .. Len(one) + Len(r) :
              (one \o r)[i] = IF i <= Len(one) THEN one[i] ELSE r[i - Len(one)]
    BY <2>0, ConcatProperties, Zenon
  <2>6. Len(one \o r) = Len(q)
    BY <2>1, <2>2, <2>5
  <2>7. ASSUME NEW i \in 1 .. Len(q)
        PROVE  (one \o r)[i] = q[i]
    <3>1. CASE i = 1
      BY <2>1, <2>2, <2>5, <3>1
    <3>2. CASE i # 1
      <4>1. i - 1 \in 1 .. Len(r) /\ (i - 1) + 1 = i /\ ~(i <= 1) /\ i \in 1 .. Len(one) + Len(r)
        BY <2>1, <2>2, <3>2
      <4>2. (one \o r)[i] = r[i - 1]
        BY <2>2, <2>5, <4>1, Zenon
      <4>3. r[i - 1] = q[(i - 1) + 1]
        BY <2>1, <4>1, Zenon
      <4> QED
        BY <4>1, <4>2, <4>3, Zenon
    <3> QED
      BY <3>1, <3>2, Zenon
  <2>8. one \o r = q
    BY <1>3, <2>5, <2>6, <2>7, SeqEqual, Zenon
  <2> QED
    BY <2>3, <2>4, <2>8, Zenon DEF h, r
<1>8. /\ DOMAIN Stream(c)' \subseteq DOMAIN Stream(c)
      /\ \A i \in DOMAIN Stream(c)' : Stream(c)'[i] = Stream(c)[i]
  <2>1. CASE conn'[c] = "streaming"
    BY <1>2, <1>3, <1>5, <1>7, <2>1, Zenon DEF Stream
  <2>2. CASE conn'[c] # "streaming"
    <3>1. Stream(c)' = seen[c]
      BY <1>5, <2>2, Zenon DEF Stream
    <3> QED
      BY <3>1, StreamIsSeq, Zenon
  <2> QED
    BY <2>1, <2>2, Zenon
<1>9. \A d \in Clients : conn'[d] = "new" => chan'[d].queue = <<>>
  BY <1>2, <1>5, Zenon DEF OrderInv
<1> QED
  BY <1>1, <1>6, <1>8, <1>9, Shortened, Zenon

LEMMA OrderStep == ASSUME FInv, FeedTypes, OrderInv, [FeedNext]_feed PROVE OrderInv'
<1>1. ASSUME NEW p \in Publishers, Published(p) PROVE OrderInv'
  <2>1. mu' = "free" /\ UNCHANGED <<chan, pub, conn, seen>>
    BY <1>1, Zenon DEF Published
  <2>2. \A c : Stream(c)' = Stream(c)
    BY <2>1, Zenon DEF Stream
  <2> QED
    BY <2>1, <2>2, Shortened, Zenon DEF OrderInv
<1>2. ASSUME NEW c \in Clients, Subscribe(c) \/ Close(c) PROVE OrderInv'
  <2>1. \E b \in BOOLEAN : chan' = [chan EXCEPT ![c].open = b]
    BY <1>2, Zenon DEF Subscribe, Close
  <2>2. \A d \in Clients : chan'[d].queue = chan[d].queue
    BY <2>1, OpenOnly, Zenon
  <2>3. UNCHANGED <<mu, pub, seen>> /\ conn[c] # "streaming"
        /\ \/ conn[c] = "new" /\ conn' = [conn EXCEPT ![c] = "streaming"]
           \/ conn' = [conn EXCEPT ![c] = "gone"]
    BY <1>2, Zenon DEF Subscribe, Close
  <2>4. \A d \in Clients : (d # c => conn'[d] = conn[d]) /\ conn'[c] # "new"
    BY <2>3, Zenon DEF FeedTypes
  <2>5. Stream(c)' = Stream(c)
    <3>1. CASE conn[c] = "new" /\ conn' = [conn EXCEPT ![c] = "streaming"]
      <4>1. Stream(c) = seen[c] /\ Stream(c)' = seen[c] \o chan[c].queue
        BY <2>2, <2>3, <3>1, Zenon DEF Stream, FeedTypes
      <4>2. chan[c].queue = <<>> /\ seen[c] \in Seq(Event)
        BY <3>1, Zenon DEF OrderInv, FeedTypes
      <4> QED
        BY <4>1, <4>2, ConcatEmptySeq, Zenon
    <3>2. CASE conn' = [conn EXCEPT ![c] = "gone"]
      BY <2>3, <3>2, Zenon DEF Stream, FeedTypes
    <3> QED
      BY <2>3, <3>1, <3>2, Zenon
  <2>6. \A d \in Clients : Stream(d)' = Stream(d)
    BY <2>2, <2>3, <2>4, <2>5, Zenon DEF Stream
  <2>7. \A d \in Clients : conn'[d] = "new" => chan'[d].queue = <<>>
    BY <2>2, <2>4, Zenon DEF OrderInv
  <2> QED
    BY <2>3, <2>6, <2>7, Shortened, Zenon
<1>3. ASSUME NEW c \in Clients, Detect(c) \/ Cancel(c) PROVE OrderInv'
  <2>1. /\ UNCHANGED <<mu, pub, chan, seen>>
        /\ \E at \in {"leaving", "closing"} : conn' = [conn EXCEPT ![c] = at]
    BY <1>3, Zenon DEF Detect, Cancel
  <2>2. \A d \in Clients : (d # c => conn'[d] = conn[d]) /\ conn'[c] \in {"leaving", "closing"}
    BY <2>1, Zenon DEF FeedTypes
  <2>3. \A d \in Clients \ {c} : Stream(d)' = Stream(d)
    BY <2>1, <2>2, Zenon DEF Stream
  <2>4. Stream(c)' = seen[c]
    BY <2>1, <2>2, Zenon DEF Stream
  <2>5. \A d \in Clients : conn'[d] = "new" => chan'[d].queue = <<>>
    BY <2>1, <2>2, Zenon DEF OrderInv
  <2>6. \A d \in Clients : /\ DOMAIN Stream(d)' \subseteq DOMAIN Stream(d)
                           /\ \A i \in DOMAIN Stream(d)' : Stream(d)'[i] = Stream(d)[i]
    BY <2>3, <2>4, StreamIsSeq, Zenon
  <2> QED
    BY <2>1, <2>5, <2>6, Shortened, Zenon
<1>4. ASSUME NEW c \in Clients, ClientStalls(c) \/ ClientLeaves(c) PROVE OrderInv'
  BY <1>4, ZenonT(30) DEF ClientStalls, ClientLeaves, OrderInv, Stream
<1>5. CASE UNCHANGED feed
  BY <1>5, ZenonT(30) DEF feed, OrderInv, Stream
<1> QED
  BY <1>1, <1>2, <1>3, <1>4, <1>5, PublishOrder, OfferOrder, ForwardOrder, Zenon
     DEF FeedNext, Publishing, Handling

LEMMA FeedStarts == FeedInit => FInv /\ FeedTypes /\ OrderInv
<1> SUFFICES ASSUME FeedInit PROVE OrderInv
  BY FInvInit, FeedTypesInit, Zenon
<1>1. \A c \in Clients : Stream(c) = <<>> /\ chan[c].queue = <<>> /\ mu = "free"
  BY Zenon DEF FeedInit, Stream
<1>2. DOMAIN <<>> = {}
  OBVIOUS
<1> QED
  BY <1>1, <1>2, Zenon DEF OrderInv, Agree

\* Publish never sends on a channel that cancel has closed, which would be a panic,
\* and whatever a client sees it sees in the order of all others: for any number of
\* publishers, clients and events and any buffer.
THEOREM StreamSound == FeedSpec => []StreamIsSound
<1> DEFINE Inv == FInv /\ FeedTypes /\ OrderInv
<1>1. Inv /\ [FeedNext]_feed => Inv'
  BY FInvStep, FeedTypesStep, OrderStep, Zenon
<1>2. ASSUME Inv
      PROVE  StreamIsSound
  <2>1. NeverSendsOnClosed
    BY <1>2, Zenon DEF FInv, NeverSendsOnClosed
  <2>2. ASSUME NEW c \in Clients, NEW d \in Clients
        PROVE  Agree(seen[c], seen[d])
    <3>1. Agree(Stream(c), Stream(d))
      BY <1>2, Zenon DEF OrderInv
    <3> QED
      BY <1>2, <3>1, StreamIsSeq, PartsAgree
  <2> QED
    BY <2>1, <2>2, Zenon DEF StreamIsSound, SameOrder, Agree
<1> QED
  BY FeedStarts, <1>1, <1>2, PTL DEF FeedSpec

LEMMA FeedTyped == FeedSpec => []FeedTypeOK
<1> DEFINE Inv == FInv /\ FeedTypes
<1>1. Inv /\ [FeedNext]_feed => Inv'
  BY FInvStep, FeedTypesStep, Zenon
<1>2. Inv => FeedTypeOK
  BY Zenon DEF FInv, FeedTypes, FeedTypeOK
<1> QED
  BY FeedStarts, <1>1, <1>2, PTL DEF FeedSpec
-----------------------------------------------------------------------------
(* The goroutines the wait groups count.                                    *)
Looping == {j \in Jobs : loop[j] \in {"select", "running"}}
Working == {r \in Requests : task[r] = "running"}

Stopped == {"closing", "exiting", "exited"}
Drained == {"stop", "stopping"} \cup Stopped
Unserved == {"drain", "draining"} \cup Drained

(* What each place of run() knows.                                          *)
Places ==
    /\ main # "starting" => \A j \in Jobs : loop[j] # "none"
    /\ main \in Stopped => Looping = {}
    /\ pool = "closed" => main \in {"exiting", "exited"}
    /\ closed => main \in Unserved
    /\ main \in Unserved /\ cut = {} => InFlight = {}
    /\ main \in Drained \cup {"draining"} => closed
    /\ main \in Drained /\ cut = {} => Working = {}

(* Where the work of a request is.                                          *)
Handed ==
    \A r \in Requests :
       /\ request[r] \in {"none", "create", "go"} => task[r] = "none"
       /\ cut = {} /\ row[r] = "provisioning"
             => request[r] = "go" \/ task[r] = "running" \/ r \in panicked

IInv == TypeOK /\ Places /\ Handed

(* A member more and a member less.                                         *)
LEMMA Counts ==
    ASSUME NEW S, IsFiniteSet(S), NEW x
    PROVE  /\ x \notin S => Cardinality(S \cup {x}) = Cardinality(S) + 1
           /\ x \in S => Cardinality(S \ {x}) = Cardinality(S) - 1
           /\ Cardinality(S) = 0 => S = {}
BY FS_AddElement, FS_RemoveElement, FS_EmptySet, Zenon

LEMMA Finite == IsFiniteSet(Looping) /\ IsFiniteSet(Working)
BY FiniteAssumption, FS_Subset, Zenon DEF Looping, Working

(* run() starts with no goroutine.                                          *)
LEMMA InitIInv == Init => IInv
<1> SUFFICES ASSUME Init PROVE IInv
  OBVIOUS
<1>1. Looping = {} /\ Working = {}
  BY Zenon DEF Init, Looping, Working
<1>2. TypeOK
  BY <1>1, FS_EmptySet, Zenon DEF Init, TypeOK, Looping, Working
<1> QED
  BY <1>1, <1>2, Zenon
  DEF Init, IInv, Places, Handed, Stopped, Drained, Unserved

(* The scheduler's goroutines.                                              *)
LEMMA LoopKeeps ==
    ASSUME IInv, NEW j \in Jobs, StartJob(j) \/ Ticks(j) \/ Loop(j)
    PROVE  IInv'
<1>1. UNCHANGED <<main, signalled, apiVars, pool, cut>> /\ Working' = Working
  BY Zenon
  DEF StartJob, Ticks, Loop, RunOnce, LoopReturns, JobEnds, apiVars, Working
<1>2. CASE StartJob(j)
  <2>1. j \notin Looping /\ Looping' = Looping \cup {j}
    BY <1>2 DEF IInv, TypeOK, StartJob, Looping
  <2>2. Cardinality(Looping') = jobs'
    BY <1>2, <2>1, Finite, Counts, ZenonT(30) DEF IInv, TypeOK, StartJob, Looping
  <2>3. TypeOK'
    BY <1>1, <1>2, <2>2 DEF IInv, TypeOK, StartJob, Looping, apiVars
  <2> QED
    BY <1>1, <1>2, <2>3
       DEF IInv, TypeOK, Places, Handed, StartJob, Stopped, Drained, Unserved, apiVars, InFlight
<1>3. CASE LoopReturns(j)
  <2>1. j \in Looping /\ Looping' = Looping \ {j}
    BY <1>3, Zenon DEF IInv, TypeOK, LoopReturns, Looping
  <2>2. Cardinality(Looping') = jobs'
    <3>1. jobs = Cardinality(Looping) /\ jobs' = jobs - 1
      BY <1>3, Zenon DEF IInv, TypeOK, LoopReturns, Looping
    <3>2. Cardinality(Looping \ {j}) = Cardinality(Looping) - 1
      BY <2>1, Finite, Counts, Zenon
    <3> QED
      BY <2>1, <3>1, <3>2, Zenon
  <2>3. TypeOK'
    BY <1>1, <1>3, <2>2 DEF IInv, TypeOK, LoopReturns, Looping, apiVars
  <2>4. Places'
    BY <1>1, <1>3, <2>1 DEF IInv, TypeOK, Places, LoopReturns, apiVars, InFlight
  <2> QED
    BY <1>1, <2>3, <2>4, Zenon DEF IInv, Handed, apiVars
<1>4. CASE Ticks(j) \/ RunOnce(j) \/ JobEnds(j)
  <2>1. Looping' = Looping /\ jobs' = jobs
    BY <1>4 DEF IInv, TypeOK, Ticks, RunOnce, JobEnds, Looping
  <2>2. TypeOK'
    <3>1. UNCHANGED <<main, signalled, stopped, apiVars, pool, cut>>
      BY <1>4, Zenon DEF Ticks, RunOnce, JobEnds
    <3>2. tick' \in [Jobs -> BOOLEAN]
      BY <1>4, ZenonT(30) DEF IInv, TypeOK, Ticks, RunOnce, JobEnds
    <3>3. loop' \in [Jobs -> {"none", "select", "running", "exited"}]
      BY <1>4, ZenonT(30) DEF IInv, TypeOK, Ticks, RunOnce, JobEnds
    <3>4. jobs' = Cardinality({i \in Jobs : loop'[i] \in {"select", "running"}})
      BY <2>1, Zenon DEF IInv, TypeOK, Looping
    <3> QED
      BY <3>1, <3>2, <3>3, <3>4, Zenon DEF IInv, TypeOK, apiVars
  <2>3. \A i \in Jobs : loop[i] # "none" => loop'[i] # "none"
    BY <1>4 DEF IInv, TypeOK, Ticks, RunOnce, JobEnds
  <2>4. Places'
    BY <1>1, <2>1, <2>3, Zenon DEF IInv, Places, apiVars, InFlight
  <2> QED
    BY <1>1, <2>2, <2>4, Zenon DEF IInv, Handed, apiVars
<1> QED
  BY <1>2, <1>3, <1>4, Zenon DEF Loop

(* Handlers: they are in flight from Accept to Respond.                     *)
LEMMA HandlerKeeps ==
    ASSUME IInv, NEW r \in Requests, Accept(r) \/ CreateRow(r) \/ Go(r) \/ Respond(r)
    PROVE  IInv'
<1>1. UNCHANGED <<main, signalled, schedVars, closed, panicked, pool, cut>> /\ Looping' = Looping
  BY Zenon DEF Accept, CreateRow, Go, Respond, schedVars, Looping
<1>2. r \in InFlight \/ main = "serving"
  BY Zenon DEF Accept, CreateRow, Go, Respond, InFlight
<1>3. InFlight' \subseteq InFlight \cup {r}
  BY DEF IInv, TypeOK, Accept, CreateRow, Go, Respond, InFlight
<1>4. cut = {} => main \notin Unserved /\ ~closed
  BY <1>2, Zenon DEF IInv, Places, Unserved, Drained, Stopped
<1>5. CASE Go(r) /\ ~closed
  <2>1. r \notin Working /\ Working' = Working \cup {r}
    BY <1>5 DEF IInv, TypeOK, Handed, Go, Working
  <2>2. Cardinality(Working') = wg'
    <3>1. wg = Cardinality(Working) /\ wg' = wg + 1
      BY <1>5, Zenon DEF IInv, TypeOK, Go, Working
    <3>2. Cardinality(Working \cup {r}) = Cardinality(Working) + 1
      BY <2>1, Finite, Counts, Zenon
    <3> QED
      BY <2>1, <3>1, <3>2, Zenon
  <2>3. TypeOK'
    BY <1>1, <1>5, <2>2 DEF IInv, TypeOK, Go, Working, schedVars
  <2>4. main \notin Drained
    BY <1>5, Zenon DEF IInv, Places
  <2>5. Places'
    BY <1>1, <1>4, <2>4, Zenon DEF IInv, Places, Unserved, schedVars
  <2>6. Handed'
    BY <1>1, <1>5 DEF IInv, TypeOK, Handed, Go
  <2> QED
    BY <2>3, <2>5, <2>6, Zenon DEF IInv
<1>6. CASE ~(Go(r) /\ ~closed)
  <2>1. UNCHANGED <<task, wg>> /\ Working' = Working
    BY <1>6, Zenon DEF Accept, CreateRow, Go, Respond, Working
  <2>2. TypeOK'
    BY <1>1, <2>1 DEF IInv, TypeOK, Accept, CreateRow, Go, Respond, schedVars
  <2>3. Places'
    BY <1>1, <1>4, <2>1, Zenon DEF IInv, Places, Unserved, schedVars
  <2>4. Handed'
    BY <1>1, <1>4, <1>6, <2>1 DEF IInv, TypeOK, Handed, Accept, CreateRow, Go, Respond
  <2> QED
    BY <2>2, <2>3, <2>4, Zenon DEF IInv
<1> QED
  BY <1>5, <1>6, Zenon

(* Background work ends in one way or the other, once.                      *)
LEMMA TaskKeeps ==
    ASSUME IInv, NEW r \in Requests, TaskSettles(r) \/ TaskPanics(r)
    PROVE  IInv'
<1>1. UNCHANGED <<main, signalled, schedVars, request, closed, pool, cut>>
      /\ Looping' = Looping /\ InFlight' = InFlight
  BY Zenon DEF TaskSettles, TaskPanics, schedVars, Looping, InFlight
<1>2. r \in Working /\ Working' = Working \ {r}
  BY DEF IInv, TypeOK, TaskSettles, TaskPanics, Working
<1>3. Cardinality(Working') = wg'
  <2>1. wg = Cardinality(Working) /\ wg' = wg - 1
    BY Zenon DEF IInv, TypeOK, TaskSettles, TaskPanics, Working
  <2>2. Cardinality(Working \ {r}) = Cardinality(Working) - 1
    BY <1>2, Finite, Counts, Zenon
  <2> QED
    BY <1>2, <2>1, <2>2, Zenon
<1>4. TypeOK'
  BY <1>1, <1>3 DEF IInv, TypeOK, TaskSettles, TaskPanics, Working, schedVars
<1>5. Places'
  BY <1>1, <1>2, Zenon DEF IInv, Places, schedVars
<1>6. cut = {} => pool = "open"
  <2>1. cut = {} => main \notin Drained
    BY <1>2, Zenon DEF IInv, Places
  <2> QED
    BY <2>1, Zenon DEF IInv, TypeOK, Places, Drained, Stopped
<1>7. Handed'
  BY <1>1, <1>6 DEF IInv, TypeOK, Handed, TaskSettles, TaskPanics
<1> QED
  BY <1>4, <1>5, <1>7, Zenon DEF IInv

(* run() itself.                                                            *)
LEMMA MainKeeps ==
    ASSUME IInv,
           \/ Serves \/ Signal \/ ServeFails \/ ShutdownBegins \/ ShutdownEnds
           \/ DrainBegins \/ DrainEnds \/ StopCancels \/ StopWaits \/ ClosePool \/ Exit
    PROVE  IInv'
<1>1. UNCHANGED <<loop, tick, jobs, request, row, task, wg, panicked>>
      /\ Looping' = Looping /\ Working' = Working /\ InFlight' = InFlight
  BY Zenon
  DEF Serves, Signal, ServeFails, ShutdownBegins, ShutdownEnds, DrainBegins, DrainEnds,
         StopCancels, StopWaits, ClosePool, Exit, schedVars, apiVars, Looping, Working,
     InFlight
<1>2. TypeOK'
  <2>1. /\ main' \in {"starting", "serving", "shutting", "drain", "draining",
                    "stop", "stopping", "closing", "exiting", "exited"}
        /\ signalled' \in BOOLEAN /\ stopped' \in BOOLEAN /\ closed' \in BOOLEAN
    BY Zenon
    DEF IInv, TypeOK, Serves, Signal, ServeFails, ShutdownBegins, ShutdownEnds,
        DrainBegins, DrainEnds, StopCancels, StopWaits, ClosePool, Exit,
        schedVars, apiVars
  <2>2. /\ pool' \in {"open", "closed"}
        /\ cut' \subseteq {"serve", "requests", "tasks"}
    BY Zenon
    DEF IInv, TypeOK, Serves, Signal, ServeFails, ShutdownBegins, ShutdownEnds,
        DrainBegins, DrainEnds, StopCancels, StopWaits, ClosePool, Exit
  <2> QED
    BY <1>1, <2>1, <2>2, Zenon DEF IInv, TypeOK
<1>3. cut' = {} => cut = {}
  BY Zenon
  DEF Serves, Signal, ServeFails, ShutdownBegins, ShutdownEnds, DrainBegins, DrainEnds,
         StopCancels, StopWaits, ClosePool, Exit
<1>4. Handed'
  BY <1>1, <1>3, Zenon DEF IInv, Handed
<1>5. jobs = 0 => Looping = {}
  BY Finite, FS_EmptySet, Zenon DEF IInv, TypeOK, Looping
<1>6. wg = 0 => Working = {}
  BY Finite, FS_EmptySet, Zenon DEF IInv, TypeOK, Working
<1>7. Places'
  <2>1. CASE Serves \/ ShutdownBegins
    <3>1. /\ main \in {"starting", "serving"} /\ main' \in {"serving", "shutting"}
          /\ closed' = closed /\ pool' = pool
          /\ \A j \in Jobs : loop[j] # "none"
      BY <2>1, Zenon
      DEF IInv, Places, Serves, ShutdownBegins, schedVars, apiVars
    <3>2. pool # "closed" /\ ~closed
      BY <3>1, Zenon DEF IInv, Places, Unserved, Drained, Stopped
    <3>3. main' \notin Unserved
      BY <3>1, Zenon DEF Unserved, Drained, Stopped
    <3> QED
      BY <1>1, <3>1, <3>2, <3>3, Zenon DEF Places, Unserved, Drained
  <2>5. CASE Signal
    BY <1>1, <2>5, Zenon DEF IInv, Places, Signal, schedVars, apiVars
  <2>6. CASE ServeFails
    <3>1. /\ main = "serving" /\ main' = "drain" /\ cut' # {}
          /\ closed' = closed /\ pool' = pool
      BY <2>6, Zenon DEF ServeFails, schedVars, apiVars
    <3>2. pool # "closed"
      BY <3>1, Zenon DEF IInv, Places
    <3>3. main' \in Unserved /\ main' \notin Drained \cup {"draining"}
          /\ main' \notin Stopped
      BY <3>1, Zenon DEF Unserved, Drained, Stopped
    <3> QED
      BY <1>1, <3>1, <3>2, <3>3, Zenon DEF IInv, Places
  <2>2. CASE ShutdownEnds \/ DrainBegins
    BY <1>1, <2>2, Zenon DEF IInv, Places, ShutdownEnds, DrainBegins,
       schedVars, apiVars, Unserved, Drained, Stopped
  <2>3. CASE DrainEnds \/ StopCancels
    BY <1>1, <1>6, <2>3, Zenon DEF IInv, Places, DrainEnds, StopCancels,
       schedVars, apiVars, Unserved, Drained, Stopped
  <2>4. CASE StopWaits \/ ClosePool \/ Exit
    BY <1>1, <1>5, <2>4, Zenon DEF IInv, Places, StopWaits, ClosePool, Exit,
       schedVars, apiVars, Unserved, Drained, Stopped
  <2> QED
    BY <2>1, <2>2, <2>3, <2>4, <2>5, <2>6, Zenon
<1> QED
  BY <1>2, <1>4, <1>7, Zenon DEF IInv

LEMMA NextIInv == IInv /\ [Next]_vars => IInv'
<1> SUFFICES ASSUME IInv, [Next]_vars PROVE IInv'
  OBVIOUS
<1>1. CASE UNCHANGED vars
  <2>1. TypeOK'
    BY <1>1, Zenon DEF vars, schedVars, apiVars, IInv, TypeOK
  <2>2. Places'
    BY <1>1, Zenon
    DEF vars, schedVars, apiVars, IInv, Places, Looping, Working, InFlight
  <2>3. Handed'
    BY <1>1, Zenon DEF vars, schedVars, apiVars, IInv, Handed
  <2> QED
    BY <2>1, <2>2, <2>3, Zenon DEF IInv
<1>2. CASE Next
  BY <1>2, LoopKeeps, HandlerKeeps, TaskKeeps, MainKeeps, Zenon DEF Next, Main
<1> QED
  BY <1>1, <1>2, Zenon

(* The inductive invariant: the wait groups count what is running, and each *)
(* place of run() knows what has ended before it (main.go:233-309).         *)
THEOREM Invariance == Spec => []IInv
BY InitIInv, NextIInv, PTL DEF Spec

(* The wait groups are exact, so they never fall below zero                 *)
(* (scheduler.go:91,113, async.go:46,49).                                   *)
THEOREM TypeCorrect == Spec => []TypeOK
<1>1. IInv => TypeOK
  BY Zenon DEF IInv
<1> QED
  BY <1>1, Invariance, PTL

(* No job runs on a closed pool (scheduler.go:96-110, main.go:100,234).     *)
THEOREM JobsEnd == Spec => []JobsEndFirst
<1>1. IInv => JobsEndFirst
  BY DEF IInv, TypeOK, Places, JobsEndFirst, Stopped, Looping
<1> QED
  BY <1>1, Invariance, PTL

(* A shutdown whose waits did not time out leaves nothing in "provisioning" *)
(* (async.go:9-13).                                                         *)
THEOREM ExitIsClean == Spec => []CleanExit
<1>1. IInv => CleanExit
  BY Zenon
  DEF IInv, Places, Handed, CleanExit, Unserved, Drained, Stopped, Working, InFlight
<1> QED
  BY <1>1, Invariance, PTL
=============================================================================
