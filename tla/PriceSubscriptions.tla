---- MODULE PriceSubscriptions ----
(***************************************************************************)
(* A websocket client of the price reporter: each topic it subscribes to is *)
(* a PriceStream over the watch channel of the pair and, where the quote    *)
(* must be converted, over the one of the conversion pair. A watch holds    *)
(* only its latest value, and a stream sees that the value was sent again.  *)
(***************************************************************************)
EXTENDS Integers, FiniteSets

CONSTANTS
    Topics,       \* topics of the client; each has the watch of its pair
    Converted,    \* the topics that require quote conversion
    Conv,         \* the watch of the conversion pair
    MaxPrice,     \* bound on the prices sent on a watch; 0 is the initial 0.0
    MaxRequests,  \* bound on the client's messages
    Closes,       \* may a watch be closed?
    None

Watches == Topics \cup {Conv}

VARIABLES
    value,        \* of each watch: its price, as the number of the update
    open,         \* watches whose sender lives
    subs,         \* subscriptions: the keys of the stream map
    unseen,       \* of each topic: the watches its stream has not read
    waits,        \* of each topic: watches that wake its stream
    got,          \* of each topic: the last price sent, a pair of prices
    requests

vars == <<value, open, subs, unseen, waits, got, requests>>

\* The watches a topic's stream reads, in the order of poll_next.
Reads(t) == IF t \in Converted THEN {t, Conv} ELSE {t}

TypeOK ==
    /\ value \in [Watches -> 0..MaxPrice] /\ open \subseteq Watches
    /\ subs \subseteq Topics
    /\ unseen \in [Topics -> SUBSET Watches] /\ waits \in [Topics -> SUBSET Watches]
    /\ \A t \in Topics : unseen[t] \cup waits[t] \subseteq Reads(t)
    /\ got \in [Topics -> ((0..MaxPrice) \X (0..MaxPrice)) \cup {None}]
    /\ requests \in 0..MaxRequests

Init ==
    /\ value = [w \in Watches |-> 0] /\ open = Watches
    /\ subs = {} /\ unseen = [t \in Topics |-> {}] /\ waits = [t \in Topics |-> {}]
    /\ got = [t \in Topics |-> None] /\ requests = 0

----------------------------------------------------------------------------

\* The exchange connection sends a new price, or its heartbeat the last one.
Send(w, p) ==
    /\ w \in open
    /\ value' = [value EXCEPT ![w] = p]
    /\ unseen' = [t \in Topics |-> IF t \in subs /\ w \in Reads(t)
                                     THEN unseen[t] \cup {w} ELSE unseen[t]]
    /\ UNCHANGED <<open, subs, waits, got, requests>>

Publish(w) == value[w] < MaxPrice /\ Send(w, value[w] + 1)

NoHeartbeat(w) == FALSE

Heartbeat(w) == value[w] > 0 /\ Send(w, value[w])

CloseWatch(w) ==
    /\ Closes /\ w \in open
    /\ open' = open \ {w}
    /\ UNCHANGED <<value, subs, unseen, waits, got, requests>>

\* A subscription, new or again, is a fresh stream, which yields the watch's
\* current value first.
Subscribe(t) ==
    /\ requests < MaxRequests
    /\ requests' = requests + 1
    /\ subs' = subs \cup {t}
    /\ unseen' = [unseen EXCEPT ![t] = Reads(t)]
    /\ waits' = [waits EXCEPT ![t] = Reads(t)]
    /\ UNCHANGED <<value, open, got>>

Unsubscribe(t) ==
    /\ requests < MaxRequests /\ t \in subs
    /\ requests' = requests + 1
    /\ subs' = subs \ {t}
    /\ unseen' = [unseen EXCEPT ![t] = {}] /\ waits' = [waits EXCEPT ![t] = {}]
    /\ UNCHANGED <<value, open, got>>

DrainAny(t, w) == IF w \in unseen[t] THEN "price" ELSE IF w \in open THEN "pending" ELSE "end"

\* The inner loops of poll_next: an unread 0.0 is skipped.
Drain(t, w) ==
    IF w \in unseen[t] /\ value[w] > 0 THEN "price"
    ELSE IF w \in open THEN "pending" ELSE "end"

\* The stream map drops a stream that ended.
EndStream(t) ==
    /\ subs' = subs \ {t}
    /\ unseen' = [unseen EXCEPT ![t] = {}] /\ waits' = [waits EXCEPT ![t] = {}]
    /\ UNCHANGED got

\* A pending stream is woken by the watch it waits for. After a price the loop
\* of handle_connection polls again.
Wait(t, read, for) ==
    /\ unseen' = [unseen EXCEPT ![t] = @ \ read]
    /\ waits' = [waits EXCEPT ![t] = for]
    /\ UNCHANGED subs

\* poll_next. The main price is consumed even when the conversion is pending.
Poll(t) ==
    /\ t \in subs
    /\ CASE Drain(t, t) = "end" -> EndStream(t)
         [] Drain(t, t) = "pending" -> Wait(t, {t}, {t}) /\ UNCHANGED got
         [] Drain(t, t) = "price" /\ t \notin Converted ->
              Wait(t, {t}, Reads(t)) /\ got' = [got EXCEPT ![t] = <<value[t], 1>>]
         [] OTHER ->
              CASE Drain(t, Conv) = "end" -> EndStream(t)
                [] Drain(t, Conv) = "pending" -> Wait(t, Reads(t), {Conv}) /\ UNCHANGED got
                [] OTHER -> /\ Wait(t, Reads(t), Reads(t))
                            /\ got' = [got EXCEPT ![t] = <<value[t], value[Conv]>>]
    /\ UNCHANGED <<value, open, requests>>

\* A stream is polled when a watch it waits for has a value it has not read, and
\* whenever another stream or a message wakes the connection.
Woken(t) == waits[t] \cap (unseen[t] \cup (Watches \ open)) # {}

WokenPoll(t) == Woken(t) /\ Poll(t)

Next ==
    \/ \E w \in Watches : Publish(w) \/ Heartbeat(w) \/ CloseWatch(w)
    \/ \E t \in Topics : Subscribe(t) \/ Unsubscribe(t) \/ Poll(t)

Spec == Init /\ [][Next]_vars

\* The runtime polls a stream that was woken; a live connection sends its last
\* price again and again.
FairSpec ==
    /\ Spec
    /\ \A t \in Topics : WF_vars(WokenPoll(t))
    /\ \A w \in Watches : WF_vars(Publish(w)) /\ WF_vars(Heartbeat(w))

----------------------------------------------------------------------------

\* "draining 0.0s as this should only be sent as the initial value": no client
\* is sent a price that is, or was divided by, the initial value.
NoInitialPrice ==
    \A t \in Topics : got[t] # None => got[t][1] > 0 /\ got[t][2] > 0

\* A client that stays subscribed is in the end sent the latest price of both
\* watches: heartbeats make up for the prices that poll_next drops.
GotLatest(t) == got[t] = <<MaxPrice, IF t \in Converted THEN MaxPrice ELSE 1>>

====
