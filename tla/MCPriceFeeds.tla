---------------------------- MODULE MCPriceFeeds ----------------------------
(***************************************************************************)
(* Prices on their way from an exchange to a consumer, for TLC: the feeds  *)
(* of the exchanges, the supervision of a connection, the shutdown of the  *)
(* reporter when a stream gives up, the topics of a websocket client, and  *)
(* the client library.  The parts share no state: a behaviour picks one    *)
(* part and the others stay in an initial state, so one run checks each    *)
(* part as if it were alone.                                               *)
(***************************************************************************)
EXTENDS Integers, Sequences

CONSTANTS Parts, t1, t2, None

VARIABLES
    part,
    market, subscribed, wire, seq, lost, gap, orders, lastSeq, replica, trusted, price, handled,
    reported,
    exchange, conn, buffered, consumed, pinged, bid, offer, last, watch, errors,
    pc, spent, heart, ack, priced, age, fresh, left, retries,
    registry, task, cancelled, req, subs, desired, gone, todo, refreshes, closures, up, calm,
    value, open, topics, unseen, waits, got, requests,
    loop, connected, prices, timers, stopped, exited, source, dirty, silent, faults, ticks

-----------------------------------------------------------------------------
Book == INSTANCE CoinbaseBook
    WITH Levels <- {0, 1, 2}, MaxMessages <- 4, MaxLost <- 1, MaxQueue <- 2

\* Binance with a first midpoint over REST, and Kraken and OKX.
Rest == INSTANCE QuoteFeed
    WITH Exchanges <- {"Binance"}, Quotes <- {0, 1, 2}, RestQuotes <- {0, 1, 3}, MaxErrors <- 1

Websocket == INSTANCE QuoteFeed
    WITH Exchanges <- {"Kraken", "Okx"}, Quotes <- {0, 1, 2}, RestQuotes <- {}, MaxErrors <- 1

\* Connections that are refused and limited, and fail once they are made; ones that
\* are refused at once, as often as the window allows; and ones that are limited or
\* subscribe in vain.  As in the code, where 15 retries that are 10 or 12 seconds
\* apart do not fit in 60 seconds, MaxRetries of the last kind exceed the window.
Connection == INSTANCE PriceConnection
    WITH Heartbeat <- 2, MaxAge <- 5, Ack <- 3, RetryDelay <- 1, RateDelay <- 2, Window <- 6,
         MaxRetries <- 4, MaxConnect <- 1, Outcomes <- {"ok", "refused", "limited"},
         Ticks <- TRUE, Errors <- TRUE

Refused == INSTANCE PriceConnection
    WITH Heartbeat <- 2, MaxAge <- 5, Ack <- 2, RetryDelay <- 1, RateDelay <- 3, Window <- 8,
         MaxRetries <- 4, MaxConnect <- 0, Outcomes <- {"ok", "refused"},
         Ticks <- TRUE, Errors <- TRUE

Dead == INSTANCE PriceConnection
    WITH Heartbeat <- 2, MaxAge <- 5, Ack <- 2, RetryDelay <- 1, RateDelay <- 3, Window <- 8,
         MaxRetries <- 4, MaxConnect <- 1, Outcomes <- {"ok", "limited"}, Ticks <- FALSE,
         Errors <- FALSE

\* One default stream, which may give up.
Shutdown == INSTANCE PriceStreams
    WITH Pairs <- {"p1"}, UnitPairs <- {}, Tasks <- {t1, t2}, Clients <- {"c1"},
         Inits <- {"i1"}, DesiredSets <- {{"p1"}}, MaxRefreshes <- 1, Overlap <- FALSE,
         Faults <- TRUE

\* A topic read as it is and one that is converted, of watches that stay open or
\* may be closed.
Topic == INSTANCE PriceSubscriptions
    WITH subs <- topics, Topics <- {"direct", "converted"}, Converted <- {"converted"},
         Conv <- "conv", MaxPrice <- 2, MaxRequests <- 2, Closes <- FALSE

Closing == INSTANCE PriceSubscriptions
    WITH subs <- topics, Topics <- {"direct", "converted"}, Converted <- {"converted"},
         Conv <- "conv", MaxPrice <- 1, MaxRequests <- 2, Closes <- TRUE

\* The client library, which may be shut down or not.
Client == INSTANCE PriceClient
    WITH task <- loop, cancelled <- stopped, Mints <- {"m1", "m2"}, ExitOnStale <- TRUE,
         Timeout <- 2, Stops <- FALSE, MaxPrice <- 1, MaxFaults <- 2, MaxTicks <- 4

Stopping == INSTANCE PriceClient
    WITH task <- loop, cancelled <- stopped, Mints <- {"m1", "m2"}, ExitOnStale <- TRUE,
         Timeout <- 2, Stops <- TRUE, MaxPrice <- 1, MaxFaults <- 2, MaxTicks <- 5

-----------------------------------------------------------------------------
bookVars == <<market, subscribed, wire, seq, lost, gap, orders, lastSeq, replica, trusted,
              price, handled, reported>>
feedVars == <<exchange, conn, buffered, consumed, pinged, bid, offer, last, watch, errors>>
connVars == <<pc, spent, heart, ack, priced, age, fresh, left, retries>>
streamVars == <<registry, task, cancelled, req, subs, desired, gone, todo, refreshes, closures,
                up, calm>>
topicVars == <<value, open, topics, unseen, waits, got, requests>>
clientVars == <<loop, connected, prices, timers, stopped, exited, source, dirty, silent, faults,
                ticks>>
vars == <<part, bookVars, feedVars, connVars, streamVars, topicVars, clientVars>>

Init ==
    /\ part \in Parts
    /\ Book!Init
    /\ IF part = "websocket" THEN Websocket!Init ELSE Rest!Init
    /\ Connection!Init
    /\ Shutdown!Init
    /\ Topic!Init
    /\ Client!Init

Next ==
    \/ /\ part = "book" /\ Book!Next
       /\ UNCHANGED <<part, feedVars, connVars, streamVars, topicVars, clientVars>>
    \/ /\ \/ part = "rest" /\ Rest!Next
          \/ part = "websocket" /\ Websocket!Next
       /\ UNCHANGED <<part, bookVars, connVars, streamVars, topicVars, clientVars>>
    \/ /\ \/ part = "connection" /\ Connection!Next
          \/ part = "refused" /\ Refused!Next
          \/ part = "dead" /\ Dead!Next
       /\ UNCHANGED <<part, bookVars, feedVars, streamVars, topicVars, clientVars>>
    \/ /\ part = "shutdown" /\ Shutdown!Next
       /\ UNCHANGED <<part, bookVars, feedVars, connVars, topicVars, clientVars>>
    \/ /\ \/ part = "topic" /\ Topic!Next
          \/ part = "closing" /\ Closing!Next
       /\ UNCHANGED <<part, bookVars, feedVars, connVars, streamVars, clientVars>>
    \/ /\ \/ part = "client" /\ Client!Next
          \/ part = "stopping" /\ Stopping!Next
       /\ UNCHANGED <<part, bookVars, feedVars, connVars, streamVars, topicVars>>

\* Time passes and a timer or attempt that is due is taken; the runtime runs
\* tasks and polls streams that were woken; a live connection repeats its price.
Fairness ==
    /\ WF_connVars(part = "refused" /\ Refused!Tick)
    /\ WF_connVars(part = "refused" /\ Refused!RetryConnection)
    /\ WF_connVars(part = "refused" /\ (Refused!ConnectOk \/ Refused!ConnectFails))
    /\ WF_connVars(part = "refused" /\ Refused!AckTimeout)
    /\ WF_connVars(part = "refused" /\ Refused!HeartbeatFires)
    /\ WF_streamVars(part = "shutdown" /\ Shutdown!RecvClosure)
    /\ \A t \in {t1, t2} :
          /\ WF_streamVars(part = "shutdown" /\ Shutdown!Remove(t))
          /\ WF_streamVars(part = "shutdown" /\ Shutdown!SendClosure(t))
    /\ \A t \in {"direct", "converted"} :
          /\ WF_topicVars(part = "topic" /\ Topic!WokenPoll(t))
          /\ WF_topicVars(part = "closing" /\ Closing!WokenPoll(t))
    /\ \A w \in {"direct", "converted", "conv"} :
          /\ WF_topicVars(part = "topic" /\ Topic!Publish(w))
          /\ WF_topicVars(part = "topic" /\ Topic!Heartbeat(w))
          /\ WF_topicVars(part = "closing" /\ (Closing!Publish(w) \/ Closing!Heartbeat(w)))
    /\ WF_clientVars(part = "client" /\ Client!Task)
    /\ WF_clientVars(part = "stopping" /\ Stopping!Task)
    /\ \A m \in {"m1", "m2"} :
          /\ WF_clientVars(part = "client" /\ Client!Update(m))
          /\ WF_clientVars(part = "client" /\ Client!Publish(m))

Spec == Init /\ [][Next]_vars /\ Fairness

-----------------------------------------------------------------------------
\* A price is one of the exchange: when nothing was lost since a snapshot, the
\* Coinbase book is the exchange's and the price that of its best levels, never
\* of a zero level; and while a connection to the others is up with a positive
\* last quote, the watch has its midpoint.
PricesOfExchange ==
    /\ part = "book" => /\ Book!TypeOK /\ Book!InSync /\ Book!NoZeroMidpoint
                        /\ Book!PriceOfMarket
    /\ part = "rest" => Rest!TypeOK /\ Rest!FollowsQuotes
    /\ part = "websocket" => Websocket!FollowsQuotes

\* Consumers get a fresh price or none: a connection repeats its price every
\* heartbeat while it is younger than the maximal age, and gives up exactly after
\* MAX_CONN_RETRIES attempts in a window, so never for rate limits and subscriptions
\* without a price alone; no client is sent the initial 0.0, raw or as a divisor; the
\* client library falls back to HTTP without a connection until it is shut down, and
\* exits when, and only when, no price came for the staleness timeout.
FreshOrNone ==
    /\ part = "connection" => /\ Connection!TypeOK /\ Connection!ConsumersFresh
                              /\ Connection!ReplayBounded /\ Connection!GivesUpWithinWindow
    /\ part = "dead" => Dead!GivesUpWithinWindow /\ pc # "failed"
    /\ part = "topic" => Topic!TypeOK /\ Topic!NoInitialPrice
    /\ part = "closing" => Closing!NoInitialPrice
    /\ part = "client" => Client!TypeOK /\ Client!FallsBack /\ Client!StaleExits
    /\ part = "stopping" => /\ Stopping!FallsBack /\ Stopping!StaleExits
                            /\ Stopping!ExitOnlyIfStale

\* Prices come back or the process ends: connections that are refused at once, again
\* and again, give up, a stream that gave up brings the reporter down, a subscribed
\* client is sent the latest price in the end, a topic whose watch closed is dropped,
\* and the client library catches up after every reconnection and ends after a
\* shutdown.  Until then no websocket quote that is not positive reaches the watch,
\* and a connection is lost only to what cannot be read, never to an answer, notice
\* or status.
FeedsRecover ==
    /\ [][/\ part = "rest" => Rest!SendsGoodPrice
          /\ part = "websocket" => Websocket!SendsGoodPrice /\ Websocket!LostOnlyOnErrors]_vars
    /\ <>[](part = "refused" /\ pc # "managing") => <>(part = "refused" /\ pc = "failed")
    /\ \A t \in {t1, t2} : (part = "shutdown" /\ task[t].failed) ~> (part = "shutdown" /\ ~up)
    /\ \A t \in {"direct", "converted"} :
          /\ (part = "topic" /\ t \in topics)
                 ~> (part = "topic" /\ (t \in topics => Topic!GotLatest(t)))
          /\ (part = "closing" /\ t \in topics /\ ~(Closing!Reads(t) \subseteq open))
                 ~> (part = "closing" /\ t \notin topics)
    /\ \A m \in {"m1", "m2"} :
          (part = "client" /\ ~exited) ~> (part = "client" /\ (exited \/ prices[m] = 1))
    /\ (part = "stopping" /\ stopped) ~> (part = "stopping" /\ (loop = "ended" \/ exited))

\* "Check the sequence number of a websocket message against the last-seen one":
\* a message that follows a lost one is reported when it is handled.
GapsReported == [][part = "book" => Book!ReportsGap]_vars
=============================================================================
