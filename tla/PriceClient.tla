---- MODULE PriceClient ----
(***************************************************************************)
(* The price reporter's client: a websocket task keeps a map of the latest  *)
(* prices and reconnects whenever the connection ends, a timer exits the    *)
(* process when no price arrives, and get_price reads the map while the     *)
(* stream is connected and asks over HTTP otherwise.                        *)
(***************************************************************************)
EXTENDS Integers, FiniteSets

CONSTANTS
    Mints,          \* the tokens streamed
    ExitOnStale,    \* !allow_stale_price_stream
    Timeout,        \* STALENESS_TIMEOUT, in ticks
    Stops,          \* may shutdown be called?
    MaxPrice,       \* bound on the price changes of a token
    MaxFaults,      \* bound on connections that fail or end
    MaxTicks,       \* bound on the time that passes
    None

VARIABLES
    task,           \* where run_websocket_loop is
    connected,      \* is_connected
    prices,         \* the map: a token's price is the number of its change
    timers,         \* ticks left on the staleness timers that run
    cancelled,      \* the cancellation token
    exited,         \* has the timer ended the process?
    source,         \* the price reporter's prices
    dirty,          \* tokens with a change the reporter has not sent on this connection
    silent,         \* ticks since the last price
    faults, ticks

vars == <<task, connected, prices, timers, cancelled, exited, source, dirty, silent,
          faults, ticks>>

TypeOK ==
    /\ task \in {"connecting", "reading", "closing", "sleeping", "ended"}
    /\ connected \in BOOLEAN /\ cancelled \in BOOLEAN /\ exited \in BOOLEAN
    /\ prices \in [Mints -> (0..MaxPrice) \cup {None}]
    /\ timers \subseteq 0..Timeout
    /\ source \in [Mints -> 0..MaxPrice] /\ dirty \subseteq Mints
    /\ silent \in 0..MaxTicks /\ faults \in 0..MaxFaults /\ ticks \in 0..MaxTicks

Init ==
    /\ task = "connecting" /\ connected = FALSE
    /\ prices = [m \in Mints |-> None] /\ timers = {}
    /\ cancelled = FALSE /\ exited = FALSE
    /\ source = [m \in Mints |-> 0] /\ dirty = {}
    /\ silent = 0 /\ faults = 0 /\ ticks = 0

env == <<source, silent, faults, ticks>>

----------------------------------------------------------------------------

\* connect_and_subscribe: the reporter first sends the current prices.
Connect ==
    /\ task = "connecting" /\ ~exited
    /\ task' = "reading" /\ connected' = TRUE
    /\ dirty' = Mints
    /\ UNCHANGED <<prices, timers, cancelled, exited, env>>

\* The end of an attempt, in run_websocket_loop.
AttemptEnds ==
    /\ task' = IF cancelled THEN "ended" ELSE "sleeping"
    /\ connected' = IF cancelled THEN connected ELSE FALSE

ConnectFails ==
    /\ task = "connecting" /\ ~exited /\ faults < MaxFaults
    /\ AttemptEnds
    /\ faults' = faults + 1
    /\ UNCHANGED <<prices, timers, cancelled, exited, source, dirty, silent, ticks>>

\* restart_staleness_timer
RestartTimer == timers' = IF ExitOnStale THEN {Timeout} ELSE timers

\* A price message of handle_price_updates; cancellation goes first.
Update(m) ==
    /\ task = "reading" /\ ~cancelled /\ ~exited /\ m \in dirty
    /\ prices' = [prices EXCEPT ![m] = source[m]]
    /\ RestartTimer
    /\ dirty' = dirty \ {m} /\ silent' = 0
    /\ UNCHANGED <<task, connected, cancelled, exited, source, faults, ticks>>

\* The connection is closed, fails, or carries a topic that cannot be parsed.
ConnectionEnds ==
    /\ task = "reading" /\ ~exited /\ faults < MaxFaults
    /\ task' = "closing" /\ dirty' = {}
    /\ faults' = faults + 1
    /\ UNCHANGED <<connected, prices, timers, cancelled, exited, source, silent, ticks>>

SeeNothing ==
    /\ task = "reading" /\ cancelled /\ ~exited
    /\ UNCHANGED vars

SeeCancel ==
    /\ task = "reading" /\ cancelled /\ ~exited
    /\ task' = "closing" /\ dirty' = {}
    /\ UNCHANGED <<connected, prices, timers, cancelled, exited, env>>

\* The close frame was sent.
Close ==
    /\ task = "closing" /\ ~exited
    /\ AttemptEnds
    /\ UNCHANGED <<prices, timers, cancelled, exited, dirty, env>>

\* The retry delay is over.
Retry ==
    /\ task = "sleeping" /\ ~exited
    /\ task' = IF cancelled THEN "ended" ELSE "connecting"
    /\ UNCHANGED <<connected, prices, timers, cancelled, exited, dirty, env>>

Shutdown ==
    /\ Stops /\ ~cancelled /\ ~exited
    /\ cancelled' = TRUE
    /\ UNCHANGED <<task, connected, prices, timers, exited, dirty, env>>

\* start_staleness_timer: a timer that is not aborted ends the process.
Expire ==
    /\ 0 \in timers /\ ~exited
    /\ exited' = TRUE
    /\ UNCHANGED <<task, connected, prices, timers, cancelled, dirty, env>>

Task ==
    \/ Connect \/ ConnectFails \/ (\E m \in Mints : Update(m)) \/ ConnectionEnds
    \/ SeeCancel \/ Close \/ Retry

\* The reporter and time.
Publish(m) ==
    /\ source[m] < MaxPrice
    /\ source' = [source EXCEPT ![m] = @ + 1]
    /\ dirty' = IF task = "reading" THEN dirty \cup {m} ELSE dirty
    /\ UNCHANGED <<task, connected, prices, timers, cancelled, exited, silent, faults, ticks>>

Tick ==
    /\ ticks < MaxTicks /\ 0 \notin timers
    /\ ticks' = ticks + 1 /\ silent' = silent + 1
    /\ timers' = {t - 1 : t \in timers}
    /\ UNCHANGED <<task, connected, prices, cancelled, exited, source, dirty, faults>>

Next == Task \/ Shutdown \/ Expire \/ Tick \/ \E m \in Mints : Publish(m)

Spec == Init /\ [][Next]_vars

\* The runtime runs the task whenever it can run; the reporter's prices change.
FairSpec == Spec /\ WF_vars(Task) /\ \A m \in Mints : WF_vars(Update(m)) /\ WF_vars(Publish(m))

----------------------------------------------------------------------------

AnswerFromMap(m) ==
    IF prices[m] # None
      THEN [from |-> "stream", price |-> prices[m]]
      ELSE [from |-> "http", price |-> source[m]]

\* get_price: the answer to a call in this state.
Answer(m) ==
    IF connected
      THEN [from |-> "stream", price |-> prices[m]]   \* None is the stream_missing error
      ELSE [from |-> "http", price |-> source[m]]

\* "fall back to an HTTP request if the stream is not connected": a price is read
\* from the map only while the task serves a connection, or after a shutdown.  The
\* loop then ends without clearing the flag, so that calls that still come get the
\* last price of the map: until the timer ends the process, or for ever if there
\* is none.
FallsBack ==
    ~exited =>
        \A m \in Mints :
            Answer(m).from = "stream"
                => task \in {"reading", "closing"} \/ (cancelled /\ task = "ended")

\* The process is ended only after Timeout without a price, whatever connections
\* came and went: no earlier timer survives an update.
ExitOnlyIfStale == exited => silent >= Timeout

\* "exit the process if no price updates are received within the staleness
\* timeout": once a price came, the timer covers every later silence.
StaleExits ==
    ExitOnStale /\ (\E m \in Mints : prices[m] # None) => silent <= Timeout

====
