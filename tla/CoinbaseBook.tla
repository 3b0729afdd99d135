---- MODULE CoinbaseBook ----
(***************************************************************************)
(* The Coinbase connection replicates the levels of an order book from a    *)
(* snapshot and updates, and subscribes again from time to time for a fresh *)
(* snapshot. Messages carry sequence numbers and may be lost on the way.    *)
(***************************************************************************)
EXTENDS Integers, Sequences, FiniteSets, FiniteSetsExt

CONSTANTS
    Levels,        \* price levels; 0 is the level of a reset book
    MaxMessages,   \* bound on the messages of the exchange
    MaxLost,       \* bound on the messages lost
    MaxQueue,      \* bound on the messages under way
    None

Sides == {"bid", "offer"}
Book == [Sides -> SUBSET Levels]
Empty == [s \in Sides |-> {}]

VARIABLES
    market,        \* the exchange's book
    subscribed,    \* does the exchange send updates?
    wire,          \* messages under way, each with the book it makes
    seq,           \* sequence number of the next message
    lost,          \* messages lost
    gap,           \* was a message lost since the last snapshot was sent?
    orders,        \* CoinbaseOrderBookData: levels of each side
    lastSeq,       \* last_sequence_num
    replica,       \* the market's book as of the last message handled
    trusted,       \* was every message since the last snapshot handled?
    price,         \* the last midpoint, as the pair of levels
    handled,       \* sequence number of the last message handled
    reported       \* number of gaps that check_and_update_sequence_num logged

vars == <<market, subscribed, wire, seq, lost, gap, orders, lastSeq, replica, trusted,
          price, handled, reported>>

Message == [type : {"snapshot", "update"}, seq : Nat, side : Sides, level : Levels,
            on : BOOLEAN, book : Book, whole : BOOLEAN]

TypeOK ==
    /\ market \in Book /\ orders \in Book /\ replica \in Book
    /\ subscribed \in BOOLEAN /\ gap \in BOOLEAN /\ trusted \in BOOLEAN
    /\ wire \in Seq(Message) /\ Len(wire) <= MaxQueue
    /\ seq \in 0..MaxMessages /\ lost \in 0..MaxLost /\ reported \in Nat
    /\ lastSeq \in -1..(MaxMessages - 1) /\ handled \in -1..(MaxMessages - 1)
    /\ price \in (Levels \X Levels) \cup {None}

Init ==
    /\ market = Empty /\ subscribed = FALSE /\ wire = <<>> /\ seq = 0
    /\ lost = 0 /\ gap = FALSE
    /\ orders = Empty /\ lastSeq = -1 /\ replica = Empty /\ trusted = FALSE
    /\ price = None /\ handled = -1 /\ reported = 0

client == <<orders, lastSeq, replica, trusted, price, handled, reported>>

----------------------------------------------------------------------------

\* What the exchange sends; whole says that no message before it was lost.
Post(m) ==
    /\ seq < MaxMessages /\ Len(wire) < MaxQueue
    /\ wire' = Append(wire, m) /\ seq' = seq + 1

\* resubscribe_to_channel: unsubscribe, subscribe, and a snapshot comes.
Resubscribe ==
    /\ Post([type |-> "snapshot", seq |-> seq, side |-> "bid", level |-> Max(Levels),
             on |-> TRUE, book |-> market, whole |-> TRUE])
    /\ subscribed' = TRUE /\ gap' = FALSE
    /\ UNCHANGED <<market, lost, client>>

\* A level of the market appears or disappears.
Move(side, level) ==
    LET on == level \notin market[side]
        new == [market EXCEPT ![side] = IF on THEN @ \cup {level} ELSE @ \ {level}]
    IN
    /\ market' = new
    /\ IF subscribed
         THEN Post([type |-> "update", seq |-> seq, side |-> side, level |-> level,
                    on |-> on, book |-> new, whole |-> ~gap])
         ELSE UNCHANGED <<wire, seq>>
    /\ UNCHANGED <<subscribed, lost, gap, client>>

Lose ==
    /\ wire # <<>> /\ lost < MaxLost
    /\ lost' = lost + 1
    /\ LET kept == Tail(wire) IN
        /\ wire' = [i \in DOMAIN kept |->
                      [kept[i] EXCEPT !.whole = @ /\ \E j \in 1..i : kept[j].type = "snapshot"]]
        /\ gap' = (gap \/ \A i \in DOMAIN kept : kept[i].type # "snapshot")
    /\ UNCHANGED <<market, subscribed, seq, client>>

----------------------------------------------------------------------------

\* add_bid and add_offer reject levels that are not positive.
Add(levels, level) == IF level > 0 THEN levels \cup {level} ELSE levels

\* The last-seen number is captured by value: the check of every message starts
\* from the initial -1 and what it stores is dropped.
CheckSequence(n) ==
    /\ reported' = IF lastSeq # -1 /\ n > lastSeq + 1 THEN reported + 1 ELSE reported
    /\ UNCHANGED lastSeq

AddAll(levels) == UNION {Add({}, l) : l \in levels}

KeepOnSnapshot(m) ==
    IF m.type = "snapshot"
      THEN [s \in Sides |-> orders[s] \cup AddAll(m.book[s])]
      ELSE [orders EXCEPT ![m.side] = IF m.on THEN Add(@, m.level) ELSE @ \ {m.level}]

\* A snapshot replaces the book, an update sets or removes a level.
Applied(m) ==
    IF m.type = "snapshot" THEN [s \in Sides |-> AddAll(m.book[s])]
    ELSE [orders EXCEPT ![m.side] = IF m.on THEN Add(@, m.level) ELSE @ \ {m.level}]

\* best_bid and best_offer, when both sides have a level.
Midpoint(b) ==
    IF b["bid"] = {} \/ b["offer"] = {} THEN None ELSE <<Max(b["bid"]), Min(b["offer"])>>

\* midpoint_from_ws_message
Handle ==
    /\ wire # <<>>
    /\ LET m == Head(wire) IN
        /\ CheckSequence(m.seq)
        /\ orders' = Applied(m)
        /\ price' = IF Midpoint(orders') = None THEN price ELSE Midpoint(orders')
        /\ replica' = m.book /\ handled' = m.seq
        /\ trusted' = (m.whole /\ (m.type = "snapshot" \/ trusted))
    /\ wire' = Tail(wire)
    /\ UNCHANGED <<market, subscribed, seq, lost, gap>>

Next ==
    \/ Resubscribe \/ Lose \/ Handle
    \/ \E side \in Sides, level \in Levels : Move(side, level)

Spec == Init /\ [][Next]_vars

----------------------------------------------------------------------------

Positive(b) == [s \in Sides |-> b[s] \ {0}]

\* "refresh the local orderbook from the snapshot received from the new
\* subscription": when nothing was lost since a snapshot, the local book is the
\* exchange's, and before that losses do not outlive the next snapshot.
InSync == trusted => orders = Positive(replica)

\* "Zero-priced levels must not enter the book at all": no midpoint is taken of
\* a level that is zero.
NoZeroMidpoint == price # None => price[1] > 0 /\ price[2] > 0

\* A price is that of the exchange's best levels when the book is in sync.
PriceOfMarket ==
    LET b == Positive(replica) IN
    trusted /\ b["bid"] # {} /\ b["offer"] # {} =>
        price = <<Max(b["bid"]), Min(b["offer"])>>

\* "Check the sequence number of a websocket message against the last-seen one":
\* a message that follows a lost one is reported when it is handled.
ReportsGap ==
    Handle /\ handled # -1 /\ Head(wire).seq > handled + 1 => reported' > reported
====
