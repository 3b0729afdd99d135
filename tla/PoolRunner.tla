---- MODULE PoolRunner ----
(***************************************************************************)
(* The pool runner: orders that enter the relayer's global matching pool    *)
(* are moved into a managed pool, given time to fill, and moved back        *)
(* (server/runner.rs). Orders are heard of on a websocket that may drop and *)
(* by a scan of the global pool after every (re)connect                     *)
(* (admin_ws_listener.rs, server/mod.rs); fills reach the task that waits   *)
(* for them through a registry keyed by order (fill_waiter.rs).             *)
(***************************************************************************)
EXTENDS Naturals, Sequences, FiniteSets

CONSTANTS
    Orders,
    Pools,       \* config.managed_pools: [name, tickers, min, max], in order
    Ticker,      \* per order: its base ticker
    Values,      \* the USD values an order may have when it is priced
    Global,      \* GLOBAL_MATCHING_POOL
    Runners,     \* routing tasks that run at the same time
    MaxDrops,    \* bound: times the websocket drops
    MaxInbox,    \* bound: updates in flight when an order fills
    PoolFaults,      \* may calls of the admin API and the price reporter fail?
    Twice,       \* may an order be routed by two tasks at the same time?
    None

\* The managed pools are a list of the configuration, with other names than the
\* global pool, and a maximum that may be missing.
ASSUME PoolAssumption ==
    /\ Len(Pools) \in Nat /\ DOMAIN Pools = 1..Len(Pools)
    /\ \A i \in DOMAIN Pools :
          /\ Pools[i].name \notin {Global, None}
          /\ Pools[i].min \in Nat /\ Pools[i].max \in Nat \cup {None}
    /\ Global # None /\ None \notin Orders \cup Runners \cup Nat
    /\ Values \subseteq Nat /\ MaxDrops \in Nat

VARIABLES
    pool,     \* per order: its matching pool at the relayer; None: not open
    created,  \* the orders that were ever created
    ws,       \* "down", "subscribed" (the scan is next) or "up"
    inbox,    \* updates on the websocket that are not handled yet
    drops,    \* times the websocket dropped
    spawned,  \* per order: routing tasks spawned and not begun
    runner,   \* routing tasks
    waiters,  \* FillWaiterRegistry.waiters
    routed,   \* orders that a routing task has taken up
    doubled,  \* history: orders that two tasks routed at the same time
    failed    \* history: orders that a call of the admin API failed for

history == <<doubled, failed>>
poolVars == <<pool, created, ws, inbox, drops, spawned, runner, waiters, routed, history>>

PoolNames == {Pools[i].name : i \in DOMAIN Pools}

NoRunner == [pc |-> "free", order |-> None, to |-> None, value |-> 0, rx |-> "open"]

PoolTypeOK ==
    /\ pool \in [Orders -> PoolNames \cup {Global, None}]
    /\ created \subseteq Orders
    /\ ws \in {"down", "subscribed", "up"}
    /\ inbox \in Seq([order : Orders, type : {"Created", "InternalFill"}])
    /\ drops \in 0..MaxDrops
    /\ spawned \in [Orders -> Nat]
    /\ runner \in [Runners ->
                    [pc : {"free", "registered", "waiting", "reassign", "finish"},
                     order : Orders \cup {None}, to : PoolNames \cup {None},
                     value : Values \cup {0},
                     rx : {"open", "filled", "closed"}]]
    /\ waiters \in [Orders -> Runners \cup {None}]
    /\ routed \subseteq Orders /\ doubled \subseteq Orders /\ failed \subseteq Orders

PoolInit ==
    /\ pool = [o \in Orders |-> None]
    /\ created = {}
    /\ ws = "down" /\ inbox = <<>> /\ drops = 0
    /\ spawned = [o \in Orders |-> 0]
    /\ runner = [r \in Runners |-> NoRunner]
    /\ waiters = [o \in Orders |-> None]
    /\ routed = {} /\ doubled = {} /\ failed = {}

----------------------------------------------------------------------------
(* The relayer *)

\* Updates are delivered only to a live subscription.
Publish(o, type) ==
    inbox' = IF ws = "down" THEN inbox
             ELSE Append(inbox, [order |-> o, type |-> type])

CreateOrder(o) ==
    /\ o \notin created
    /\ created' = created \cup {o}
    /\ pool' = [pool EXCEPT ![o] = Global]
    /\ Publish(o, "Created")
    /\ UNCHANGED <<ws, drops, spawned, runner, waiters, routed, history>>

\* A match inside a managed pool; a full one closes the order.
FillOrder(o, full) ==
    /\ pool[o] \in PoolNames
    /\ Len(inbox) < MaxInbox
    /\ pool' = IF full THEN [pool EXCEPT ![o] = None] ELSE pool
    /\ Publish(o, "InternalFill")
    /\ UNCHANGED <<created, ws, drops, spawned, runner, waiters, routed, history>>

----------------------------------------------------------------------------
(* The listener *)

\* The listener subscribes, after the delay of a reconnect.
Subscribe ==
    /\ ws = "down"
    /\ ws' = "subscribed"
    /\ UNCHANGED <<pool, created, inbox, drops, spawned, runner, waiters, routed, history>>

ScanSkipped ==
    /\ ws = "subscribed"
    /\ ws' = "up"
    /\ UNCHANGED <<pool, created, inbox, drops, spawned, runner, waiters, routed, history>>

\* process_open_orders spawns a task for every order in the global pool.
Scan ==
    /\ ws = "subscribed"
    /\ ws' = "up"
    /\ spawned' = [o \in Orders |->
                    IF pool[o] = Global THEN spawned[o] + 1 ELSE spawned[o]]
    /\ UNCHANGED <<pool, created, inbox, drops, runner, waiters, routed, history>>

\* A failed scan is not fatal.
ScanFails == PoolFaults /\ ScanSkipped

\* The stream ends: what was not handled is lost.
Drop ==
    /\ ws # "down" /\ drops < MaxDrops
    /\ ws' = "down" /\ inbox' = <<>> /\ drops' = drops + 1
    /\ UNCHANGED <<pool, created, spawned, runner, waiters, routed, history>>

\* The waiter, if there is one, is taken out and sent the fill.
Notify(o) ==
    /\ waiters' = [waiters EXCEPT ![o] = None]
    /\ runner' = [r \in Runners |->
                    IF r = waiters[o] THEN [runner[r] EXCEPT !.rx = "filled"]
                    ELSE runner[r]]

\* handle_order_update. An order is Created in the global pool.
HandleUpdate ==
    /\ ws = "up" /\ inbox # <<>>
    /\ inbox' = Tail(inbox)
    /\ LET m == Head(inbox)
       IN  IF m.type = "InternalFill"
             THEN Notify(m.order) /\ UNCHANGED spawned
             ELSE /\ spawned' = [spawned EXCEPT ![m.order] = @ + 1]
                  /\ UNCHANGED <<runner, waiters>>
    /\ UNCHANGED <<pool, created, ws, drops, routed, history>>

----------------------------------------------------------------------------
(* A routing task *)

EligibleIgnoringSize(p, ticker, value) == ticker \in p.tickers

\* A pool takes an order of its tickers and of a value within its band.
Eligible(p, ticker, value) ==
    ticker \in p.tickers /\ value >= p.min /\ (p.max # None => value <= p.max)

\* The first pool that is eligible; None when no pool is.
SelectManagedPool(ticker, value) ==
    LET ok == {i \in DOMAIN Pools : Eligible(Pools[i], ticker, value)}
    IN  IF ok = {} THEN None
        ELSE Pools[CHOOSE i \in ok : \A j \in ok : i <= j].name

\* Dropping a sender closes the channel of a task that still waits on it.
CloseRx(rs, t) ==
    [r \in Runners |-> IF r = t /\ rs[r].rx = "open"
                         THEN [rs[r] EXCEPT !.rx = "closed"] ELSE rs[r]]

\* Active tasks on an order.
Routing(o) == {r \in Runners : runner[r].order = o}

\* The order is priced and a pool selected; the task registers its waiter,
\* whose channel replaces any other of this order. Without a pool, or without
\* a price, the task ends.
Route(r, o, v) ==
    /\ runner[r] = NoRunner /\ spawned[o] > 0
    /\ Twice \/ Routing(o) = {}
    /\ spawned' = [spawned EXCEPT ![o] = @ - 1]
    /\ routed' = routed \cup {o}
    /\ LET p == SelectManagedPool(Ticker[o], v)
       IN  IF p = None
             THEN UNCHANGED <<runner, waiters>>
             ELSE /\ waiters' = [waiters EXCEPT ![o] = r]
                  /\ runner' = [CloseRx(runner, waiters[o]) EXCEPT ![r] =
                        [pc |-> "registered", order |-> o, to |-> p, value |-> v,
                         rx |-> "open"]]
    /\ doubled' = IF Routing(o) = {} THEN doubled ELSE doubled \cup {o}
    /\ UNCHANGED <<pool, created, ws, inbox, drops, failed>>

\* FillWaiterRegistry::remove takes whatever waiter the order has now.
RemoveWaiter(r, o) ==
    /\ waiters' = [waiters EXCEPT ![o] = None]
    /\ runner' = [CloseRx(runner, waiters[o]) EXCEPT ![r] = NoRunner]

\* The order is assigned to the managed pool. A closed order cannot be.
Assign(r) ==
    /\ runner[r].pc = "registered" /\ pool[runner[r].order] # None
    /\ pool' = [pool EXCEPT ![runner[r].order] = runner[r].to]
    /\ runner' = [runner EXCEPT ![r].pc = "waiting"]
    /\ UNCHANGED <<created, ws, inbox, drops, spawned, waiters, routed, history>>

\* An error of the call ends the task; the relayer may have made the move.
AssignFails(r) ==
    /\ runner[r].pc = "registered"
    /\ PoolFaults \/ pool[runner[r].order] = None
    /\ \/ UNCHANGED pool
       \/ /\ pool[runner[r].order] # None
          /\ pool' = [pool EXCEPT ![runner[r].order] = runner[r].to]
    /\ failed' = IF pool[runner[r].order] = None THEN failed ELSE failed \cup {runner[r].order}
    /\ RemoveWaiter(r, runner[r].order)
    /\ UNCHANGED <<created, ws, inbox, drops, spawned, routed, doubled>>

\* The fill arrives, the channel closes, or the timeout elapses.
Awaited(r) ==
    /\ runner[r].pc = "waiting"
    /\ runner' = [runner EXCEPT ![r].pc = "reassign"]
    /\ UNCHANGED <<pool, created, ws, inbox, drops, spawned, waiters, routed, history>>

\* The order is moved back to the global pool.
Reassign(r) ==
    /\ runner[r].pc = "reassign"
    /\ pool' = [pool EXCEPT ![runner[r].order] = IF @ = None THEN None ELSE Global]
    /\ runner' = [runner EXCEPT ![r].pc = "finish"]
    /\ UNCHANGED <<created, ws, inbox, drops, spawned, waiters, routed, history>>

\* An error of that call is logged.
ReassignFails(r) ==
    /\ PoolFaults /\ runner[r].pc = "reassign"
    /\ runner' = [runner EXCEPT ![r].pc = "finish"]
    /\ failed' = failed \cup {runner[r].order}
    /\ UNCHANGED <<pool, created, ws, inbox, drops, spawned, waiters, routed, doubled>>

\* The result is recorded and the waiter removed.
FinishKeepingWaiter(r) ==
    /\ runner[r].pc = "finish"
    /\ runner' = [runner EXCEPT ![r] = NoRunner]
    /\ UNCHANGED <<pool, created, ws, inbox, drops, spawned, waiters, routed, history>>

FinishRoute(r) ==
    /\ runner[r].pc = "finish"
    /\ RemoveWaiter(r, runner[r].order)
    /\ UNCHANGED <<pool, created, ws, inbox, drops, spawned, routed, history>>

\* The listener, one task, and the steps of a routing task once it has begun.
Listen == Subscribe \/ Scan \/ ScanFails \/ HandleUpdate
RunnerWork(r) ==
    \/ Assign(r) \/ AssignFails(r) \/ Awaited(r)
    \/ Reassign(r) \/ ReassignFails(r) \/ FinishRoute(r)

PoolNext ==
    \/ \E o \in Orders : CreateOrder(o) \/ \E full \in BOOLEAN : FillOrder(o, full)
    \/ Listen \/ Drop
    \/ \E r \in Runners : RunnerWork(r) \/ \E o \in Orders, v \in Values : Route(r, o, v)

\* The listener reconnects for ever, the runtime runs spawned tasks, the fill
\* timeout elapses and calls are answered.
PoolSpec ==
    /\ PoolInit /\ [][PoolNext]_poolVars
    /\ WF_poolVars(Listen)
    /\ \A r \in Runners : WF_poolVars(RunnerWork(r))
    /\ \A o \in Orders : WF_poolVars(\E r \in Runners, v \in Values : Route(r, o, v))

----------------------------------------------------------------------------

\* "Always reassign back to global pool": an order that no task works on is not
\* left in a managed pool, unless a call failed.
NotStranded ==
    \A o \in Orders \ failed : pool[o] \in PoolNames => Routing(o) # {}

\* A task that has its order in hand leaves no waiter behind: a registered
\* waiter belongs to a task of that order, whose channel is open.
WaitersLive ==
    \A o \in Orders :
        waiters[o] # None => /\ runner[waiters[o]].order = o
                             /\ runner[waiters[o]].rx = "open"

\* Pool i takes an order of a value, and no pool before it does.
Fits(i, o, v) ==
    /\ Ticker[o] \in Pools[i].tickers
    /\ Pools[i].min <= v
    /\ Pools[i].max = None \/ v <= Pools[i].max

FitsFirst(i, o, v) == Fits(i, o, v) /\ \A j \in 1..(i - 1) : ~Fits(j, o, v)

\* The pool a task picks takes the order's ticker and value, and no pool that
\* the operator listed before it does (select_managed_pool).
FirstPoolThatFits ==
    \A r \in Runners : runner[r].to # None =>
        \E i \in DOMAIN Pools :
            Pools[i].name = runner[r].to /\ FitsFirst(i, runner[r].order, runner[r].value)

\* A task that waits for a fill has its order in the managed pool, unless the
\* order was closed or another task routed it at the same time.
WaitsInPool ==
    \A r \in Runners :
        runner[r].pc = "waiting" /\ runner[r].order \notin doubled =>
            pool[runner[r].order] \in {runner[r].to, None}

\* An order is put into the first managed pool that fits it and stays there while
\* its task waits for a fill; it is not left there when no task works on it, also
\* when several tasks routed it at once; and no fill waiter outlives its task,
\* also when calls fail.
PoolAssignment == NotStranded /\ WaitersLive /\ FirstPoolThatFits /\ WaitsInPool

====
