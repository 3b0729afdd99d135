---- MODULE PriceConnection ----
(***************************************************************************)
(* The life of one exchange connection in the price reporter                *)
(* (price_stream_manager.rs): manage_connection with its subscribe-ack      *)
(* deadline and heartbeat, and the retry loop with its window of retry      *)
(* timestamps. Time passes in units; timers count down and ages count up.   *)
(***************************************************************************)
EXTENDS Naturals, Sequences

CONSTANTS
    Heartbeat,   \* HEARTBEAT_INTERVAL
    MaxAge,      \* MAX_HEARTBEAT_AGE
    Ack,         \* SUBSCRIBE_ACK_TIMEOUT
    RetryDelay,  \* CONN_RETRY_DELAY
    RateDelay,   \* RATE_LIMIT_RETRY_DELAY
    Window,      \* MAX_CONN_RETRY_WINDOW
    MaxRetries,  \* MAX_CONN_RETRIES
    MaxConnect,  \* how long a connection attempt takes at most
    Outcomes,    \* what attempts may come to: "ok", "refused", "limited"
    Ticks,       \* may the exchange send prices?
    Errors       \* may an established connection fail?

VARIABLES
    pc,       \* "connecting", "managing", "waiting" between retries, "failed"
    spent,    \* time the attempt has taken
    heart,    \* heartbeat_delay
    ack,      \* subscribe_ack_deadline
    priced,   \* received_first_tick, and last_price is set
    age,      \* last_exchange_update.elapsed()
    fresh,    \* time since a price was last sent to the consumers
    left,     \* the sleep before the next retry
    retries   \* the ages of retry_timestamps, oldest first

vars == <<pc, spent, heart, ack, priced, age, fresh, left, retries>>

\* The age at which a silent connection is given up: heartbeats come every
\* Heartbeat after the last tick, and the first one at MaxAge or later fails.
StaleAge == ((MaxAge + Heartbeat - 1) \div Heartbeat) * Heartbeat

TypeOK ==
    /\ pc \in {"connecting", "managing", "waiting", "failed"}
    /\ spent \in 0..MaxConnect
    /\ heart \in 0..Heartbeat
    /\ ack \in 0..Ack
    /\ priced \in BOOLEAN
    /\ age \in 0..StaleAge
    /\ fresh \in 0..StaleAge
    /\ left \in 0..(RetryDelay + RateDelay)
    /\ retries \in Seq(0..Window) /\ Len(retries) <= MaxRetries

Init ==
    /\ pc = "connecting" /\ spent = 0
    /\ heart = 0 /\ ack = 0 /\ priced = FALSE /\ age = 0 /\ fresh = 0
    /\ left = 0 /\ retries = <<>>

----------------------------------------------------------------------------

\* The connection is made: manage_connection starts with fresh timers and no
\* price.
ConnectOk ==
    /\ pc = "connecting" /\ "ok" \in Outcomes
    /\ pc' = "managing" /\ spent' = 0
    /\ heart' = Heartbeat /\ ack' = Ack
    /\ priced' = FALSE /\ age' = 0 /\ fresh' = 0
    /\ UNCHANGED <<left, retries>>

\* An error sends the task to the loop of exhaust_retries, which sleeps first.
Fail(delay) ==
    /\ pc' = "waiting" /\ left' = delay /\ spent' = 0
    /\ heart' = 0 /\ ack' = 0 /\ priced' = FALSE /\ age' = 0 /\ fresh' = 0
    /\ UNCHANGED <<retries>>

ConnectFails ==
    /\ pc = "connecting"
    /\ \/ "refused" \in Outcomes /\ Fail(RetryDelay)
       \/ "limited" \in Outcomes /\ Fail(RateDelay)

\* Retries older than the window are forgotten, this one is added, and the
\* task gives up when there are too many.
RetryConnection ==
    LET kept == SelectSeq(retries, LAMBDA a : a < Window)
    IN  /\ pc = "waiting" /\ left = 0
        /\ retries' = Append(kept, 0)
        /\ pc' = IF Len(kept) + 1 >= MaxRetries THEN "failed" ELSE "connecting"
        /\ UNCHANGED <<spent, heart, ack, priced, age, fresh, left>>

\* The exchange sends a price: it is forwarded, and the heartbeat is put off.
PriceTick ==
    /\ pc = "managing" /\ Ticks
    /\ priced' = TRUE /\ age' = 0 /\ fresh' = 0 /\ heart' = Heartbeat
    /\ UNCHANGED <<pc, spent, ack, left, retries>>

\* The stream errs or closes, or a keepalive cannot be sent.
ConnectionError ==
    /\ pc = "managing" /\ Errors
    /\ Fail(RetryDelay)

\* No price since the connection was made: the subscription is dead.
AckTimeout ==
    /\ pc = "managing" /\ ~priced /\ ack = 0
    /\ Fail(RetryDelay)

HeartbeatFiresAlways ==
    /\ pc = "managing" /\ heart = 0
    /\ heart' = Heartbeat
    /\ fresh' = IF priced THEN 0 ELSE fresh
    /\ UNCHANGED <<pc, spent, ack, priced, age, left, retries>>

\* The heartbeat replays the last price while the exchange was heard of
\* recently, and gives the connection up otherwise.
HeartbeatFires ==
    /\ pc = "managing" /\ heart = 0
    /\ IF priced /\ age >= MaxAge
         THEN Fail(RetryDelay)
         ELSE /\ heart' = Heartbeat
              /\ fresh' = IF priced THEN 0 ELSE fresh
              /\ UNCHANGED <<pc, spent, ack, priced, age, left, retries>>

\* Time passes, but not past a timer that the select would take.
Dec(n) == IF n = 0 THEN 0 ELSE n - 1
Inc(n, max) == IF n < max THEN n + 1 ELSE max

Tick ==
    /\ pc # "failed"
    /\ pc = "connecting" => spent < MaxConnect
    /\ pc = "waiting" => left > 0
    /\ pc = "managing" => heart > 0 /\ (priced \/ ack > 0)
    /\ spent' = IF pc = "connecting" THEN spent + 1 ELSE spent
    /\ left' = Dec(left) /\ heart' = Dec(heart)
    /\ ack' = IF priced THEN 0 ELSE Dec(ack)
    /\ age' = IF priced THEN age + 1 ELSE age
    /\ fresh' = IF priced THEN fresh + 1 ELSE fresh
    /\ retries' = [i \in 1..Len(retries) |-> Inc(retries[i], Window)]
    /\ UNCHANGED <<pc, priced>>

Next ==
    \/ ConnectOk \/ ConnectFails \/ RetryConnection
    \/ PriceTick \/ ConnectionError \/ AckTimeout \/ HeartbeatFires
    \/ Tick

\* Time passes, and a timer or an attempt that is due is taken.
Fairness ==
    /\ WF_vars(Tick) /\ WF_vars(RetryConnection)
    /\ WF_vars(ConnectOk \/ ConnectFails)
    /\ WF_vars(AckTimeout) /\ WF_vars(HeartbeatFires)

Spec == Init /\ [][Next]_vars
FairSpec == Spec /\ Fairness

----------------------------------------------------------------------------

\* Once a connection has sent a price its consumers hear one at least every
\* HEARTBEAT_INTERVAL, a replay if the exchange is slow.
ConsumersFresh == pc = "managing" /\ priced => fresh <= Heartbeat

\* A price was younger than MAX_HEARTBEAT_AGE when it was last sent, replayed or
\* not.  Consumers may hold it for one more heartbeat: then the connection is
\* treated as dead.
ReplayBounded == pc = "managing" /\ priced => age - fresh < MaxAge

\* A stream gives up only when MAX_CONN_RETRIES attempts fell in one window,
\* however they were spread over connections that worked in between; before
\* that there are fewer of them.
GivesUpWithinWindow ==
    IF pc = "failed"
      THEN Len(retries) = MaxRetries /\ \A i \in DOMAIN retries : retries[i] < Window
      ELSE Len(retries) < MaxRetries

====
