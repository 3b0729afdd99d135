---- MODULE PriceStreams ----
(***************************************************************************)
(* The registry of price streams of the price reporter                     *)
(* (price_stream_manager.rs, main.rs, ws_server.rs): requests look a pair   *)
(* up under the read lock and add it under the write lock, each added pair  *)
(* has a task that feeds its channel and removes the pair when it ends, and *)
(* a refresh of the token mapping cancels the pairs that are gone.          *)
(*                                                                         *)
(* A task id stands for the task, its watch channel and its cancellation    *)
(* token, which are created together.                                      *)
(***************************************************************************)
EXTENDS Naturals, Sequences, FiniteSets

CONSTANTS
    Pairs,        \* pair infos, as the registry compares them
    UnitPairs,    \* the pairs whose base is their quote
    Tasks,        \* price stream tasks: the bound on streams ever started
    Clients,      \* websocket connections
    Inits,        \* concurrent initialisations of default streams
    DesiredSets,  \* the sets of default pairs a token mapping may give
    MaxRefreshes, \* bound: refreshes of the token mapping, the first at startup
    Overlap,      \* may a refresh start while streams come and go?
    Faults,       \* may connections and validations fail?
    None

ASSUME PriceStreamsAssumption ==
    /\ UnitPairs \subseteq Pairs
    /\ DesiredSets \subseteq SUBSET Pairs
    /\ MaxRefreshes \in Nat
    /\ Clients \cap Inits = {}
    /\ None \notin Pairs \cup Tasks /\ \A S \in SUBSET Pairs : S # None
    /\ Overlap \in BOOLEAN /\ Faults \in BOOLEAN

VARIABLES
    registry,   \* GlobalPriceStreams.price_streams
    task,       \* price stream tasks
    cancelled,  \* tokens that are cancelled
    req,        \* calls of get_or_create_price_receiver
    subs,       \* the StreamMap of every websocket connection
    desired,    \* the default pairs of the last refresh
    gone,       \* the pairs a refresh found to cancel; None: no refresh runs
    todo,       \* default streams whose initialisation is spawned, not begun
    refreshes,  \* refreshes begun
    closures,   \* the closure channel
    up,         \* the main loop runs
    calm        \* history: no validation failed, and no refresh began while
                \* streams came and went

vars == <<registry, task, cancelled, req, subs, desired, gone, todo,
          refreshes, closures, up, calm>>

Requests == Clients \cup Inits

Running == {"unit", "connecting", "streaming", "retrying"}
Finished == {"ended", "removed", "closed"}

TypeOK ==
    /\ registry \in [Pairs -> Tasks \cup {None}]
    /\ task \in [Tasks -> [pair : Pairs \cup {None},
                           pc : {"free"} \cup Running \cup Finished,
                           failed : BOOLEAN]]
    /\ cancelled \subseteq Tasks
    /\ req \in [Requests -> [pc : {"idle", "lookup", "add"},
                             pair : Pairs \cup {None}]]
    /\ subs \in [Clients -> [Pairs -> Tasks \cup {None}]]
    /\ desired \subseteq Pairs
    /\ gone \in (SUBSET Pairs) \cup {None}
    /\ todo \subseteq Pairs
    /\ refreshes \in 0..MaxRefreshes
    /\ closures \in Seq(BOOLEAN)
    /\ up \in BOOLEAN /\ calm \in BOOLEAN

Idle == [pc |-> "idle", pair |-> None]

Init ==
    /\ registry = [p \in Pairs |-> None]
    /\ task = [t \in Tasks |-> [pair |-> None, pc |-> "free", failed |-> FALSE]]
    /\ cancelled = {}
    /\ req = [r \in Requests |-> Idle]
    /\ subs = [c \in Clients |-> [p \in Pairs |-> None]]
    /\ desired = {} /\ gone = None /\ todo = {} /\ refreshes = 0
    /\ closures = <<>>
    /\ up = TRUE /\ calm = TRUE

----------------------------------------------------------------------------
(* Requests *)

\* The receiver goes into the StreamMap of a connection, under its pair; a
\* default initialisation drops it.
Deliver(r, p, t) ==
    subs' = IF r \in Clients THEN [subs EXCEPT ![r][p] = t] ELSE subs

\* A websocket client subscribes to a pair. The listener is bound after the
\* default streams of startup.
StartClient(c, p) ==
    /\ up /\ refreshes > 0 /\ req[c].pc = "idle"
    /\ req' = [req EXCEPT ![c] = [pc |-> "lookup", pair |-> p]]
    /\ UNCHANGED <<registry, task, cancelled, subs, desired, gone, todo,
                   refreshes, closures, up, calm>>

\* A spawned initialisation of a default stream begins.
StartDefault(r, p) ==
    /\ up /\ req[r].pc = "idle" /\ p \in todo
    /\ todo' = todo \ {p}
    /\ req' = [req EXCEPT ![r] = [pc |-> "lookup", pair |-> p]]
    /\ UNCHANGED <<registry, task, cancelled, subs, desired, gone, refreshes,
                   closures, up, calm>>

\* The look-up under the read lock, which is dropped before the write lock is
\* taken.
Lookup(r) ==
    /\ up /\ req[r].pc = "lookup"
    /\ LET p == req[r].pair
       IN  IF registry[p] # None
             THEN /\ Deliver(r, p, registry[p])
                  /\ req' = [req EXCEPT ![r] = Idle]
             ELSE /\ req' = [req EXCEPT ![r].pc = "add"]
                  /\ UNCHANGED subs
    /\ UNCHANGED <<registry, task, cancelled, desired, gone, todo, refreshes,
                   closures, up, calm>>

\* validate_subscription asks the exchange, and the request ends on an error.
ValidateFails(r) ==
    /\ up /\ Faults /\ req[r].pc = "add" /\ req[r].pair \notin UnitPairs
    /\ req' = [req EXCEPT ![r] = Idle]
    /\ calm' = FALSE
    /\ UNCHANGED <<registry, task, cancelled, subs, desired, gone, todo,
                   refreshes, closures, up>>

AddUnchecked(r, t) ==
    /\ up /\ req[r].pc = "add" /\ task[t].pc = "free"
    /\ LET p == req[r].pair
       IN  /\ registry' = [registry EXCEPT ![p] = t]
           /\ task' = [task EXCEPT ![t] =
                  [pair |-> p, failed |-> FALSE,
                   pc |-> IF p \in UnitPairs THEN "unit" ELSE "connecting"]]
           /\ Deliver(r, p, t)
    /\ req' = [req EXCEPT ![r] = Idle]
    /\ UNCHANGED <<cancelled, desired, gone, todo, refreshes, closures, up, calm>>

\* The write lock finds the pair taken: the request uses the stream there.
AddExisting(r) ==
    /\ up /\ req[r].pc = "add" /\ registry[req[r].pair] # None
    /\ Deliver(r, req[r].pair, registry[req[r].pair])
    /\ req' = [req EXCEPT ![r] = Idle]
    /\ UNCHANGED <<registry, task, cancelled, desired, gone, todo, refreshes,
                   closures, up, calm>>

\* The write lock finds the pair free: the stream is inserted and its task
\* spawned.
AddStream(r, t) ==
    /\ up /\ req[r].pc = "add" /\ task[t].pc = "free"
    /\ registry[req[r].pair] = None
    /\ LET p == req[r].pair
       IN  /\ registry' = [registry EXCEPT ![p] = t]
           /\ task' = [task EXCEPT ![t] =
                  [pair |-> p, failed |-> FALSE,
                   pc |-> IF p \in UnitPairs THEN "unit" ELSE "connecting"]]
           /\ Deliver(r, p, t)
    /\ req' = [req EXCEPT ![r] = Idle]
    /\ UNCHANGED <<cancelled, desired, gone, todo, refreshes, closures, up, calm>>

Unsubscribe(c, p) ==
    /\ up /\ req[c].pc = "idle" /\ subs[c][p] # None
    /\ subs' = [subs EXCEPT ![c][p] = None]
    /\ UNCHANGED <<registry, task, cancelled, req, desired, gone, todo,
                   refreshes, closures, up, calm>>

\* The channel of a finished task is closed, and the StreamMap drops it.
StreamEnds(c, p) ==
    /\ up /\ req[c].pc = "idle"
    /\ subs[c][p] # None /\ task[subs[c][p]].pc \in Finished
    /\ subs' = [subs EXCEPT ![c][p] = None]
    /\ UNCHANGED <<registry, task, cancelled, req, desired, gone, todo,
                   refreshes, closures, up, calm>>

----------------------------------------------------------------------------
(* Price stream tasks *)

TaskStep(t, from, to) ==
    /\ up /\ task[t].pc \in from
    /\ task' = [task EXCEPT ![t].pc = to]
    /\ UNCHANGED <<registry, cancelled, req, subs, desired, gone, todo,
                   refreshes, closures, up, calm>>

\* A connection is made, at first or by a retry. Cancellation is not looked at
\* in either loop.
Connected(t) == TaskStep(t, {"connecting", "retrying"}, "streaming")

\* The first attempt fails, or manage_connection returns an error.
ConnectionError(t) ==
    Faults /\ TaskStep(t, {"connecting", "streaming"}, "retrying")

\* The select of the task sees the cancelled token.
Cancelled(t) == t \in cancelled /\ TaskStep(t, {"streaming"}, "ended")

\* The retries are exhausted: the task ends with an error.
Exhausted(t) ==
    /\ up /\ Faults /\ task[t].pc = "retrying"
    /\ task' = [task EXCEPT ![t].pc = "ended", ![t].failed = TRUE]
    /\ UNCHANGED <<registry, cancelled, req, subs, desired, gone, todo,
                   refreshes, closures, up, calm>>

\* remove_price_stream forgets to cancel the token.
RemoveUncancelled(t) ==
    /\ up /\ task[t].pc = "ended"
    /\ registry' = [registry EXCEPT ![task[t].pair] = None]
    /\ task' = [task EXCEPT ![t].pc = "removed"]
    /\ UNCHANGED <<cancelled, req, subs, desired, gone, todo, refreshes,
                   closures, up, calm>>

RemoveNothing(t) ==
    /\ up /\ task[t].pc = "ended"
    /\ task' = [task EXCEPT ![t].pc = "removed"]
    /\ UNCHANGED <<registry, cancelled, req, subs, desired, gone, todo,
                   refreshes, closures, up, calm>>

\* remove_price_stream takes whatever entry the pair has now.
Remove(t) ==
    /\ up /\ task[t].pc = "ended"
    /\ cancelled' = cancelled \cup ({registry[task[t].pair]} \ {None})
    /\ registry' = [registry EXCEPT ![task[t].pair] = None]
    /\ task' = [task EXCEPT ![t].pc = "removed"]
    /\ UNCHANGED <<req, subs, desired, gone, todo, refreshes, closures, up, calm>>

\* The result of the task is sent on the closure channel.
SendClosure(t) ==
    /\ up /\ task[t].pc = "removed"
    /\ task' = [task EXCEPT ![t].pc = "closed"]
    /\ closures' = Append(closures, task[t].failed)
    /\ UNCHANGED <<registry, cancelled, req, subs, desired, gone, todo,
                   refreshes, up, calm>>

\* The main loop leaves on the first error it receives.
RecvClosure ==
    /\ up /\ closures # <<>>
    /\ closures' = Tail(closures)
    /\ up' = ~Head(closures)
    /\ UNCHANGED <<registry, task, cancelled, req, subs, desired, gone, todo,
                   refreshes, calm>>

----------------------------------------------------------------------------
(* Refresh of the token mapping *)

\* No stream is being added or taken down.
Quiet ==
    /\ gone = None /\ todo = {}
    /\ \A r \in Requests : req[r].pc = "idle"
    /\ \A t \in Tasks :
        task[t].pc = "closed" \/ (task[t].pc # "ended" /\ t \notin cancelled)
    /\ closures = <<>>
    /\ \A c \in Clients, p \in Pairs :
        subs[c][p] # None => task[subs[c][p]].pc \notin Finished

\* The new mapping gives the default pairs; the pairs to cancel are found under
\* the read lock. When there is none, the initialisations are spawned at once.
RefreshScan(D) ==
    /\ up /\ gone = None /\ refreshes < MaxRefreshes
    /\ Overlap \/ Quiet
    /\ calm' = (calm /\ Quiet)
    /\ refreshes' = refreshes + 1
    /\ desired' = D
    /\ LET toCancel == {p \in Pairs \ D : registry[p] # None}
       IN  IF toCancel = {}
             THEN todo' = todo \cup D /\ UNCHANGED gone
             ELSE gone' = toCancel /\ UNCHANGED todo
    /\ UNCHANGED <<registry, task, cancelled, req, subs, closures, up>>

RefreshCancelKeeping ==
    /\ up /\ gone # None
    /\ registry' = [p \in Pairs |-> IF p \in gone THEN None ELSE registry[p]]
    /\ gone' = None
    /\ todo' = todo \cup desired
    /\ UNCHANGED <<task, cancelled, req, subs, desired, refreshes, closures, up, calm>>

RefreshCancelOnly ==
    /\ up /\ gone # None
    /\ registry' = [p \in Pairs |-> IF p \in gone THEN None ELSE registry[p]]
    /\ cancelled' = cancelled \cup ({registry[p] : p \in gone} \ {None})
    /\ gone' = None
    /\ UNCHANGED <<task, req, subs, desired, todo, refreshes, closures, up, calm>>

\* The pairs found are removed and cancelled under the write lock, and the
\* default streams are initialised, each by a task of its own.
RefreshCancel ==
    /\ up /\ gone # None
    /\ registry' = [p \in Pairs |-> IF p \in gone THEN None ELSE registry[p]]
    /\ cancelled' = cancelled \cup ({registry[p] : p \in gone} \ {None})
    /\ gone' = None
    /\ todo' = todo \cup desired
    /\ UNCHANGED <<task, req, subs, desired, refreshes, closures, up, calm>>

----------------------------------------------------------------------------

RequestStep(r) ==
    \/ r \in Clients /\ \E p \in Pairs : StartClient(r, p) \/ Unsubscribe(r, p)
                                         \/ StreamEnds(r, p)
    \/ r \in Inits /\ \E p \in Pairs : StartDefault(r, p)
    \/ Lookup(r)
    \/ ValidateFails(r)
    \/ AddExisting(r)
    \/ \E t \in Tasks : AddStream(r, t)

TaskNext(t) ==
    \/ Connected(t) \/ ConnectionError(t) \/ Cancelled(t) \/ Exhausted(t)
    \/ Remove(t) \/ SendClosure(t)

Next ==
    \/ \E r \in Requests : RequestStep(r)
    \/ \E t \in Tasks : TaskNext(t)
    \/ RecvClosure
    \/ \E D \in DesiredSets : RefreshScan(D)
    \/ RefreshCancel

\* Spawned tasks are scheduled by the runtime, the exchange answers a
\* connection attempt in the end, and the main loop reads its channel.
Fairness ==
    /\ WF_vars(RecvClosure)
    /\ WF_vars(RefreshCancel)
    /\ \A t \in Tasks : /\ WF_vars(Connected(t) \/ Exhausted(t))
                        /\ WF_vars(Cancelled(t))
                        /\ WF_vars(Remove(t))
                        /\ WF_vars(SendClosure(t))

Spec == Init /\ [][Next]_vars
FairSpec == Spec /\ Fairness

----------------------------------------------------------------------------

\* A stream leaves the registry only with its token cancelled: a task that was
\* started is registered under its pair, or is cancelled. The age emitter of a
\* stream, which waits for the token alone, cannot be left running behind it.
RegisteredOrCancelled ==
    \A t \in Tasks :
        /\ task[t].pc # "free" =>
            registry[task[t].pair] = t \/ t \in cancelled
        /\ task[t].pc \in {"removed", "closed"} => t \in cancelled

\* The registry never hands out the channel of a task of another pair, nor of a
\* cancelled task.
RegistryMatches ==
    \A p \in Pairs :
        registry[p] # None =>
            /\ task[registry[p]].pair = p
            /\ registry[p] \notin cancelled
            /\ task[registry[p]].pc \in Running \cup {"ended"}

NoDuplicateTasks ==
    \A t1, t2 \in Tasks :
        task[t1].pc \in Running /\ task[t2].pc \in Running
        /\ task[t1].pair = task[t2].pair => t1 = t2

\* Of the tasks of a pair that were started, one at most is not cancelled.
OneUncancelled ==
    \A t1, t2 \in {t \in Tasks \ cancelled : task[t].pc # "free"} :
        task[t1].pair = task[t2].pair => t1 = t2

\* However refreshes, failures and requests overlap, the registry hands out the
\* channel of the pair's own task, which is not cancelled, though it may have ended
\* and not yet removed itself; and a pair has a second task only if that one is
\* cancelled. A refresh can leave such a task running beside the new one for a while.
\* Until a refresh takes streams down, no two tasks of a pair run: the re-check under
\* the write lock (maybe_add_price_stream) "prevents a race condition where two
\* concurrent calls with the same pair_info result in duplicate price stream tasks
\* being spawned".
OneStreamPerPair ==
    /\ RegistryMatches
    /\ OneUncancelled
    /\ refreshes <= 1 => NoDuplicateTasks

DesiredStreamed == \A p \in desired : registry[p] # None

SubscribersFed ==
    \A c \in Clients, p \in Pairs : subs[c][p] # None => registry[p] = subs[c][p]

\* Once everything has settled, a client that is still subscribed to a pair
\* listens to the channel that the registry hands out for it. If moreover every
\* refresh began when things had settled and no validation failed, every default
\* pair has its stream: init_default_price_streams "cancels any existing streams
\* that are no longer in the desired set, then initializes new streams".
DefaultsStreamed == Quiet /\ up => SubscribersFed /\ (calm => DesiredStreamed)

====
