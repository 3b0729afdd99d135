---- MODULE FireblocksLimiter ----
(***************************************************************************)
(* The process-wide limiter of Fireblocks calls (fireblocks_rate_limiter.rs *)
(* and rate_limited in fireblocks_client.rs): a token bucket refilled by a  *)
(* task, and a cooldown that a 429 answer starts and that grows with        *)
(* consecutive ones. One unit of time is one refill interval; deadlines are *)
(* kept as the time left to them.                                          *)
(***************************************************************************)
EXTENDS Naturals, Sequences, FiniteSets

CONSTANTS
    Callers,        \* tasks that call Fireblocks
    Capacity,       \* burst_capacity
    InitialCooldown,\* INITIAL_COOLDOWN_SECS
    MaxCooldown,    \* MAX_COOLDOWN_SECS
    MaxShift        \* the 429 after which the cooldown stops growing (5)

ASSUME FireblocksAssumption ==
    /\ Capacity \in Nat \ {0} /\ InitialCooldown \in Nat \ {0}
    /\ MaxCooldown \in Nat /\ InitialCooldown <= MaxCooldown
    /\ MaxShift \in 1..5

VARIABLES
    caller,   \* per caller: pc, and the time left of what it waits for
    queue,    \* callers that wait for a permit, first come first served
    permits,  \* available_permits
    cooldown, \* time left to cooldown_until
    streak,   \* consecutive_429s, up to MaxShift
    meter,    \* the most that some past period sent above one call a unit
    floor     \* per caller: time left of the cooldown its acquire met

vars == <<caller, queue, permits, cooldown, streak, meter, floor>>

TypeOK ==
    /\ caller \in [Callers -> [pc : {"idle", "gate", "asleep", "queued",
                                     "calling", "penalty"},
                               left : 0..MaxCooldown]]
    /\ queue \in Seq(Callers)
    /\ permits \in 0..Capacity
    /\ cooldown \in 0..MaxCooldown
    /\ streak \in 0..MaxShift
    /\ meter \in Nat
    /\ floor \in [Callers -> 0..MaxCooldown]

Init ==
    /\ caller = [c \in Callers |-> [pc |-> "idle", left |-> 0]]
    /\ queue = <<>>
    /\ permits = Capacity
    /\ cooldown = 0 /\ streak = 0 /\ meter = 0
    /\ floor = [c \in Callers |-> 0]

Goto(c, pc, left) == caller' = [caller EXCEPT ![c] = [pc |-> pc, left |-> left]]

----------------------------------------------------------------------------

\* rate_limited begins: acquire is called.
Acquire(c) ==
    /\ caller[c].pc = "idle"
    /\ Goto(c, "gate", 0)
    /\ floor' = [floor EXCEPT ![c] = cooldown]
    /\ UNCHANGED <<queue, permits, cooldown, streak, meter>>

GateOpen(c) ==
    /\ caller[c].pc = "gate"
    /\ Goto(c, "queued", 0) /\ queue' = Append(queue, c)
    /\ UNCHANGED <<permits, cooldown, streak, meter, floor>>

\* The loop of acquire: sleep out the cooldown, and look again; then ask the
\* semaphore for a permit.
Gate(c) ==
    /\ caller[c].pc = "gate"
    /\ IF cooldown > 0
         THEN Goto(c, "asleep", cooldown) /\ UNCHANGED queue
         ELSE Goto(c, "queued", 0) /\ queue' = Append(queue, c)
    /\ UNCHANGED <<permits, cooldown, streak, meter, floor>>

Wake(c) ==
    /\ caller[c].pc = "asleep" /\ caller[c].left = 0
    /\ Goto(c, "gate", 0)
    /\ UNCHANGED <<queue, permits, cooldown, streak, meter, floor>>

GrantKeeping(c) ==
    /\ caller[c].pc = "queued" /\ queue # <<>> /\ Head(queue) = c
    /\ permits > 0
    /\ queue' = Tail(queue)
    /\ Goto(c, "calling", 0)
    /\ meter' = meter + 1
    /\ UNCHANGED <<permits, cooldown, streak, floor>>

\* The semaphore serves its waiters in order; the permit is forgotten.
Grant(c) ==
    /\ caller[c].pc = "queued" /\ queue # <<>> /\ Head(queue) = c
    /\ permits > 0
    /\ permits' = permits - 1
    /\ queue' = Tail(queue)
    /\ Goto(c, "calling", 0)
    /\ meter' = meter + 1
    /\ UNCHANGED <<cooldown, streak, floor>>

\* The call succeeds: the streak of 429s is over.
Succeed(c) ==
    /\ caller[c].pc = "calling"
    /\ Goto(c, "idle", 0)
    /\ streak' = 0
    /\ UNCHANGED <<queue, permits, cooldown, meter, floor>>

\* Any other error is reported to nobody.
OtherError(c) ==
    /\ caller[c].pc = "calling"
    /\ Goto(c, "idle", 0)
    /\ UNCHANGED <<queue, permits, cooldown, streak, meter, floor>>

\* What a shift by 0 to 4 bits multiplies by.
Shifted == <<1, 2, 4, 8, 16>>

\* The cooldown of the n-th consecutive 429.
Backoff(n) ==
    LET secs == InitialCooldown * Shifted[IF n < MaxShift THEN n ELSE MaxShift]
    IN  IF secs < MaxCooldown THEN secs ELSE MaxCooldown

\* on_429 counts the answer and computes a deadline, before it takes the lock.
Penalise(c) ==
    /\ caller[c].pc = "calling"
    /\ Goto(c, "penalty", Backoff(streak + 1))
    /\ streak' = IF streak < MaxShift THEN streak + 1 ELSE MaxShift
    /\ UNCHANGED <<queue, permits, cooldown, meter, floor>>

\* Under the lock the deadline only moves forward.
SetCooldown(c) ==
    /\ caller[c].pc = "penalty"
    /\ cooldown' = IF cooldown < caller[c].left THEN caller[c].left ELSE cooldown
    /\ Goto(c, "idle", 0)
    /\ UNCHANGED <<queue, permits, streak, meter, floor>>

----------------------------------------------------------------------------

Dec(n) == IF n = 0 THEN 0 ELSE n - 1

Elapse ==
    /\ cooldown' = Dec(cooldown)
    /\ caller' = [c \in Callers |->
                     [pc |-> caller[c].pc, left |-> Dec(caller[c].left)]]
    /\ floor' = [c \in Callers |-> Dec(floor[c])]
    /\ meter' = Dec(meter)
    /\ UNCHANGED <<queue, streak>>

RefillUnlessEmpty ==
    /\ Elapse
    /\ permits' = IF permits \in 1..(Capacity - 1) THEN permits + 1 ELSE permits

\* An interval passes and the refill task adds a permit below capacity.
Refill ==
    /\ Elapse
    /\ permits' = IF permits < Capacity THEN permits + 1 ELSE permits

\* The refill task was late: the tick is skipped.
MissedTick ==
    /\ Elapse
    /\ UNCHANGED permits

Next ==
    \/ \E c \in Callers : \/ Acquire(c) \/ Gate(c) \/ Wake(c) \/ Grant(c)
                          \/ Succeed(c) \/ OtherError(c) \/ Penalise(c)
                          \/ SetCooldown(c)
    \/ Refill
    \/ MissedTick

\* Time passes, refills come, and tasks that can run are run.
Fairness ==
    /\ WF_vars(Refill)
    /\ \A c \in Callers : WF_vars(Gate(c)) /\ WF_vars(Wake(c))
                          /\ WF_vars(Grant(c)) /\ WF_vars(SetCooldown(c))

Spec == Init /\ [][Next]_vars
FairSpec == Spec /\ Fairness

----------------------------------------------------------------------------

\* The token bucket: over any period of w refill intervals at most
\* BURST_CAPACITY + w calls are sent, whoever sends them. The meter is the
\* largest excess over any period that ends now.
RateBounded == meter <= Capacity

\* A caller is not sent before the cooldown that was in force when it called
\* acquire: the comment of poll_fireblocks_transaction relies on it after a 429
\* ("the next iteration's acquire will block until cooldown elapses").
AcquireWaits ==
    \A c \in Callers : caller[c].pc \in {"queued", "calling"} => floor[c] = 0

\* The calls are paced: no period sends more than the burst and the refills, and
\* no call is sent within the cooldown that its acquire met.
CallsPaced == RateBounded /\ AcquireWaits

\* With 429s over, a caller at the gate gets to make its call.
QueueServed ==
    <>[](cooldown = 0) =>
        \A c \in Callers : caller[c].pc = "gate" ~> caller[c].pc = "calling"
====
