----------------------------- MODULE QuoteFeed -----------------------------
(***************************************************************************)
(* The connections to Binance, Kraken and OKX: messages of the exchange    *)
(* carry its best bid and offer, whose midpoint is sent on the watch of    *)
(* the pair; other messages are skipped or end the connection.  Binance    *)
(* starts with a midpoint fetched over its REST API, which the stream      *)
(* buffers.  A price here is twice the midpoint.                           *)
(***************************************************************************)
EXTENDS Integers

CONSTANTS
    Exchanges,     \* those the pair may be listed on
    Quotes,        \* bids and offers of websocket messages
    RestQuotes,    \* bids and offers of the REST answer
    MaxErrors,     \* bound on the connections that end
    None

VARIABLES
    exchange,      \* of the pair
    conn,          \* "down" or "up"
    buffered,      \* buffered_value
    consumed,      \* buffered_value_consumed
    pinged,        \* a keepalive the exchange has yet to answer
    bid, offer,    \* the last quote of the exchange that was seen on this connection
    last,          \* the kind of the last message
    watch,         \* the price on the pair's watch; 0 is its initial value
    errors

vars == <<exchange, conn, buffered, consumed, pinged, bid, offer, last, watch, errors>>

Init ==
    /\ exchange \in Exchanges
    /\ conn = "down" /\ buffered = 0 /\ consumed = TRUE /\ pinged = FALSE
    /\ bid = None /\ offer = None /\ last = None /\ watch = 0 /\ errors = 0

-----------------------------------------------------------------------------
(* Messages *)

Message == [kind : {"quote"}, bid : Quotes, offer : Quotes]
           \cup [kind : {"pong", "notice", "frame", "number", "status", "malformed", "close"},
                 bid : {0}, offer : {0}]

\* What an exchange sends of its own: status messages of a subscription, and
\* on Binance raw numbers.
Sends(m) ==
    /\ m.kind = "pong" => pinged
    /\ m.kind = "status" => exchange # "Binance"
    /\ m.kind = "number" => exchange = "Binance"

\* What is made of a message: a price, nothing, or the end of the connection.
Price(n) == [result |-> "price", price |-> n]

Skip == [result |-> "skip", price |-> 0]

Error == [result |-> "error", price |-> 0]

UnsafeMidpoint(b, o) == Price(b + o)

\* safe_midpoint: no midpoint of a bid or an offer that is not positive.
SafeMidpoint(b, o) == IF b > 0 /\ o > 0 THEN Price(b + o) ELSE Skip

SkipNoText(m) == m.kind = "frame"

\* parse_json_from_message: answers to pings, the notices of OKX and
\* Cloudflare and frames that are not text have nothing to parse.
SkipMessage(m) == m.kind \in {"pong", "notice", "frame"}

\* midpoint_from_ws_message of each exchange, for a message that has a text.
BinanceMidpoint(m) ==
    CASE m.kind = "number" -> Skip
      [] m.kind = "quote" -> SafeMidpoint(m.bid, m.offer)
      [] OTHER -> Error

KrakenMidpoint(m) ==
    CASE m.kind = "status" -> Skip
      [] m.kind = "quote" -> SafeMidpoint(m.bid, m.offer)
      [] OTHER -> Error

OkxMidpoint(m) ==
    CASE m.kind = "status" -> Skip
      [] m.kind = "quote" -> SafeMidpoint(m.bid, m.offer)
      [] OTHER -> Error

Midpoint(m) ==
    IF SkipMessage(m) THEN Skip
    ELSE CASE exchange = "Binance" -> BinanceMidpoint(m)
           [] exchange = "Kraken" -> KrakenMidpoint(m)
           [] exchange = "Okx" -> OkxMidpoint(m)

-----------------------------------------------------------------------------
(* The connection *)

Connected ==
    /\ conn = "down"
    /\ conn' = "up" /\ pinged' = FALSE
    /\ UNCHANGED <<exchange, last, watch, errors>>

\* The stream has no initial value.
ConnectKraken ==
    /\ exchange = "Kraken" /\ Connected
    /\ buffered' = 0 /\ consumed' = TRUE /\ bid' = None /\ offer' = None

ConnectOkx ==
    /\ exchange = "Okx" /\ Connected
    /\ buffered' = 0 /\ consumed' = TRUE /\ bid' = None /\ offer' = None

\* fetch_price_report takes the midpoint of any two numbers.
InitialMidpoint(b, o) == b + o

ConnectBinance(b, o) ==
    /\ exchange = "Binance" /\ Connected
    /\ buffered' = InitialMidpoint(b, o) /\ consumed' = FALSE
    /\ bid' = b /\ offer' = o

PollBufferedAgain ==
    /\ conn = "up" /\ exchange = "Binance"
    /\ consumed' = TRUE /\ watch' = buffered
    /\ UNCHANGED <<exchange, conn, buffered, pinged, bid, offer, last, errors>>

\* The first poll of an InitializablePriceStream that was given a value.
PollBuffered ==
    /\ conn = "up" /\ ~consumed
    /\ consumed' = TRUE /\ watch' = buffered
    /\ UNCHANGED <<exchange, conn, buffered, pinged, bid, offer, last, errors>>

Ends == conn' = "down" /\ errors' = errors + 1

\* One message of the mapped stream: a price is sent on, a message without one
\* is filtered out, and an error ends the connection.
Handle(m) ==
    LET p == Midpoint(m)
    IN  /\ conn = "up" /\ consumed
        /\ last' = m.kind
        /\ IF m.kind = "quote" THEN bid' = m.bid /\ offer' = m.offer ELSE UNCHANGED <<bid, offer>>
        /\ pinged' = (pinged /\ m.kind # "pong")
        /\ IF p = Error THEN errors < MaxErrors /\ Ends ELSE UNCHANGED <<conn, errors>>
        /\ watch' = IF p.result = "price" THEN p.price ELSE watch
        /\ UNCHANGED <<exchange, buffered, consumed>>

\* OKX is pinged with a text, and answers with one; the others with a frame.
SendKeepalive ==
    /\ conn = "up"
    /\ pinged' = (exchange = "Okx")
    /\ UNCHANGED <<exchange, conn, buffered, consumed, bid, offer, last, watch, errors>>

\* The websocket ends, or a keepalive cannot be sent.
ReadFails ==
    /\ conn = "up" /\ errors < MaxErrors
    /\ Ends /\ last' = "read error"
    /\ UNCHANGED <<exchange, buffered, consumed, pinged, bid, offer, watch>>

Next ==
    \/ ConnectKraken \/ ConnectOkx
    \/ \E b, o \in RestQuotes : ConnectBinance(b, o)
    \/ PollBuffered
    \/ \E m \in Message : Sends(m) /\ Handle(m)
    \/ SendKeepalive \/ ReadFails

Spec == Init /\ [][Next]_vars

-----------------------------------------------------------------------------
(* Properties *)

TypeOK ==
    /\ exchange \in Exchanges /\ conn \in {"down", "up"}
    /\ consumed \in BOOLEAN /\ pinged \in BOOLEAN
    /\ buffered \in Nat /\ watch \in Nat
    /\ bid \in Quotes \cup RestQuotes \cup {None} /\ offer \in Quotes \cup RestQuotes \cup {None}
    /\ errors \in 0..MaxErrors

\* No message of a websocket puts the midpoint of a quote that is not positive on
\* the watch.  The first price of a Binance connection is that of its REST answer,
\* whatever it is: of a zero bid and a positive offer it is half the offer.
SendsGoodPrice ==
    watch' # watch => \/ bid' > 0 /\ offer' > 0
                      \/ ~consumed /\ consumed' /\ watch' = bid + offer

\* "the stream resumes on the next valid update": while the connection is up and
\* its last quote is positive, the watch has its midpoint.
FollowsQuotes ==
    conn = "up" /\ consumed /\ bid # None /\ bid > 0 /\ offer > 0 => watch = bid + offer

\* A connection is given up only for a message that cannot be read: answers to
\* its own keepalives, notices and status messages never end it.
LostOnlyOnErrors ==
    conn = "up" /\ conn' = "down" => last' \in {"malformed", "close", "read error"}
=============================================================================
