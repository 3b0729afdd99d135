---- MODULE PriceStreamsProofs ----
(***************************************************************************)
(* The registry of price streams, for every set of pairs, tasks and        *)
(* clients, with refreshes, failures and requests interleaved in any way:   *)
(* what the registry hands out is the stream of the pair and was never      *)
(* cancelled, and a stream out of the registry was cancelled.               *)
(***************************************************************************)
EXTENDS PriceStreams, TLAPS

\* A request under way has a pair, and so has a task that was started; only
\* tasks that were started are cancelled.
Pending ==
    /\ \A r \in Requests : req[r].pc # "idle" => req[r].pair \in Pairs
    /\ \A t \in Tasks : task[t].pc # "free" => task[t].pair \in Pairs
    /\ \A t \in cancelled : task[t].pc # "free"

\* The types of the variables the registry argument reads.
Types ==
    /\ registry \in [Pairs -> Tasks \cup {None}]
    /\ task \in [Tasks -> [pair : Pairs \cup {None},
                           pc : {"free"} \cup Running \cup Finished,
                           failed : BOOLEAN]]
    /\ cancelled \subseteq Tasks
    /\ req \in [Requests -> [pc : {"idle", "lookup", "add"},
                             pair : Pairs \cup {None}]]
    /\ todo \subseteq Pairs
    /\ desired \subseteq Pairs
    /\ gone \in (SUBSET Pairs) \cup {None}

IInv == Types /\ Pending /\ RegistryMatches /\ RegisteredOrCancelled

\* Until a refresh takes streams down, a task that runs or has just ended is the
\* one its pair is registered under; before the first one nothing has started.
Startup ==
    /\ refreshes \in Nat
    /\ refreshes = 0 =>
        /\ todo = {}
        /\ \A r \in Requests : req[r].pc = "idle"
        /\ \A p \in Pairs : registry[p] = None
    /\ refreshes <= 1 =>
        /\ gone = None
        /\ \A t \in Tasks :
            task[t].pc \in Running \cup {"ended"} => registry[task[t].pair] = t

\* A client listens to a task of the pair it subscribed to.
Subscribed ==
    /\ subs \in [Clients -> [Pairs -> Tasks \cup {None}]]
    /\ \A c \in Clients, p \in Pairs :
        subs[c][p] # None =>
            task[subs[c][p]].pair = p /\ task[subs[c][p]].pc # "free"

\* What the closure channel holds.
Channel == closures \in Seq(BOOLEAN) /\ up \in BOOLEAN

\* A failure that the main loop has not been told of yet, or that stopped it.
Failing ==
    \/ ~up
    \/ \E i \in 1..Len(closures) : closures[i]
    \/ \E t \in Tasks : task[t].failed /\ task[t].pc \in {"ended", "removed"}

\* Unless a refresh came too early, a validation failed or a task did: a default
\* pair has its stream, or an initialisation that will add it; and what is taken
\* down is of no default pair.
Covered ==
    calm /\ ~Failing =>
        /\ \A p \in desired :
            \/ registry[p] # None \/ p \in todo \/ gone # None
            \/ \E r \in Requests : req[r].pc # "idle" /\ req[r].pair = p
        /\ gone # None => gone \cap desired = {}
        /\ \A t \in cancelled : task[t].pc # "closed" => task[t].pair \notin desired
        /\ \A t \in Tasks : task[t].pc = "ended" => t \in cancelled

\* The variables the invariant reads.
seen == <<registry, task, cancelled, req, todo, desired, gone>>

LEMMA InitIInv == Init => IInv
  <1> SUFFICES ASSUME Init PROVE IInv
    OBVIOUS
  <1>1. Types
    BY DEF Init, Types, Idle, Running, Finished
  <1>2. Pending
    BY DEF Init, Pending, Idle
  <1>3. RegistryMatches /\ RegisteredOrCancelled
    BY Zenon DEF Init, RegistryMatches, RegisteredOrCancelled
  <1> QED BY <1>1, <1>2, <1>3 DEF IInv

LEMMA StutterIInv == IInv /\ UNCHANGED seen => IInv'
  BY DEF seen, IInv, Types, Pending, RegistryMatches, RegisteredOrCancelled

\* Steps that change only the request: starting, looking up, giving up, and
\* finding a stream under the write lock.
LEMMA RequestIInv ==
    ASSUME IInv, NEW r \in Requests, NEW q,
           q \in [pc : {"idle", "lookup", "add"}, pair : Pairs \cup {None}],
           q.pc # "idle" => q.pair \in Pairs,
           req' = [req EXCEPT ![r] = q],
           todo' \subseteq Pairs,
           UNCHANGED <<registry, task, cancelled, desired, gone>>
    PROVE  IInv'
  <1>1. Types'
    BY Zenon DEF IInv, Types
  <1>2. Pending'
    BY Zenon DEF IInv, Types, Pending
  <1>3. RegistryMatches' /\ RegisteredOrCancelled'
    BY Zenon DEF IInv, RegistryMatches, RegisteredOrCancelled
  <1> QED BY <1>1, <1>2, <1>3 DEF IInv

LEMMA AddStreamIInv ==
    ASSUME IInv, NEW r \in Requests, NEW t \in Tasks, AddStream(r, t)
    PROVE  IInv'
  <1> DEFINE p == req[r].pair
             new == [pair |-> p, failed |-> FALSE,
                     pc |-> IF p \in UnitPairs THEN "unit" ELSE "connecting"]
  <1>1. /\ p \in Pairs /\ registry[p] = None /\ task[t].pc = "free"
        /\ registry' = [registry EXCEPT ![p] = t]
        /\ task' = [task EXCEPT ![t] = new]
        /\ req' = [req EXCEPT ![r] = Idle]
        /\ UNCHANGED <<cancelled, desired, gone, todo>>
    BY Zenon DEF AddStream, IInv, Pending
  <1>2. /\ new \in [pair : Pairs \cup {None},
                    pc : {"free"} \cup Running \cup Finished, failed : BOOLEAN]
        /\ new.pair = p /\ new.pc \in Running
        /\ new.pc \notin {"free", "removed", "closed"}
    BY <1>1, Zenon DEF Running, Finished
  <1>3. t # None /\ t \notin cancelled
    BY <1>1, PriceStreamsAssumption, Zenon DEF IInv, Pending
  <1> HIDE DEF new
  <1>4. Types'
    BY <1>1, <1>2, Zenon DEF IInv, Types, Idle
  <1>5. Pending'
    BY <1>1, <1>2, <1>3 DEF IInv, Types, Pending, Idle
  <1>6. RegistryMatches'
    BY <1>1, <1>2, <1>3 DEF IInv, Types, RegistryMatches, Running
  <1>7. RegisteredOrCancelled'
    BY <1>1, <1>2, <1>3, PriceStreamsAssumption
    DEF IInv, Types, Pending, RegisteredOrCancelled
  <1> QED BY <1>4, <1>5, <1>6, <1>7 DEF IInv

\* A task that moves on without leaving the registry stays among the running
\* tasks, or has just ended.
LEMMA TaskIInv ==
    ASSUME IInv, NEW t \in Tasks, NEW k,
           k \in [pair : Pairs \cup {None},
                  pc : {"free"} \cup Running \cup Finished, failed : BOOLEAN],
           k.pair = task[t].pair, task[t].pc # "free",
           \/ k.pc \in Running \cup {"ended"}
           \/ task[t].pc = "removed" /\ k.pc = "closed",
           task' = [task EXCEPT ![t] = k],
           UNCHANGED <<registry, cancelled, req, todo, desired, gone>>
    PROVE  IInv'
  <1>1. Types'
    BY Zenon DEF IInv, Types
  <1>2. k.pc # "free"
    BY DEF Running
  <1>3. Pending'
    BY <1>2, Zenon DEF IInv, Types, Pending
  <1>4. RegistryMatches'
    BY DEF IInv, Types, RegistryMatches, Running
  <1>5. RegisteredOrCancelled'
    BY DEF IInv, Types, RegisteredOrCancelled, Running
  <1> QED BY <1>1, <1>3, <1>4, <1>5 DEF IInv

LEMMA RemoveIInv ==
    ASSUME IInv, NEW t \in Tasks, Remove(t)
    PROVE  IInv'
  <1> DEFINE p == task[t].pair
             k == [task[t] EXCEPT !.pc = "removed"]
  <1>1. /\ p \in Pairs /\ task[t].pc = "ended"
        /\ cancelled' = cancelled \cup ({registry[p]} \ {None})
        /\ registry' = [registry EXCEPT ![p] = None]
        /\ task' = [task EXCEPT ![t] = k]
        /\ UNCHANGED <<req, desired, gone, todo>>
    BY Zenon DEF Remove, IInv, Pending
  <1>2. /\ k \in [pair : Pairs \cup {None},
                  pc : {"free"} \cup Running \cup Finished, failed : BOOLEAN]
        /\ k.pair = p /\ k.pc = "removed"
    BY DEF IInv, Types, Finished
  <1>3. t \in cancelled'
    BY <1>1, PriceStreamsAssumption, Zenon DEF IInv, RegisteredOrCancelled
  <1>4. \A u \in Tasks : registry[p] = u => task[u].pc # "free"
    BY <1>1, PriceStreamsAssumption DEF IInv, RegistryMatches, Running
  <1> HIDE DEF k
  <1>5. Types'
    BY <1>1, <1>2 DEF IInv, Types
  <1>6. Pending'
    BY <1>1, <1>2, <1>4 DEF IInv, Types, Pending
  <1>7. RegistryMatches'
    BY <1>1, <1>2 DEF IInv, Types, RegistryMatches
  <1>8. RegisteredOrCancelled'
    BY <1>1, <1>2, <1>3 DEF IInv, Types, RegisteredOrCancelled
  <1> QED BY <1>5, <1>6, <1>7, <1>8 DEF IInv

LEMMA RefreshCancelIInv == IInv /\ RefreshCancel => IInv'
  <1> SUFFICES ASSUME IInv, RefreshCancel PROVE IInv'
    OBVIOUS
  <1>1. /\ gone \in SUBSET Pairs /\ gone' = None
        /\ registry' = [p \in Pairs |-> IF p \in gone THEN None ELSE registry[p]]
        /\ cancelled' = cancelled \cup ({registry[p] : p \in gone} \ {None})
        /\ todo' = todo \cup desired
        /\ UNCHANGED <<task, req, desired>>
    BY Zenon DEF RefreshCancel, IInv, Types
  <1>2. Types'
    BY <1>1 DEF IInv, Types
  <1>3. \A t \in cancelled' : task[t].pc # "free"
    BY <1>1 DEF IInv, Types, Pending, RegistryMatches, Running
  <1>4. Pending'
    BY <1>1, <1>3, Zenon DEF IInv, Pending
  <1>5. RegistryMatches'
    <2> SUFFICES ASSUME NEW p \in Pairs, registry'[p] # None
                 PROVE  /\ task[registry[p]].pair = p
                        /\ registry[p] \notin cancelled'
                        /\ task[registry[p]].pc \in Running \cup {"ended"}
      BY <1>1, Zenon DEF RegistryMatches
    <2>1. p \notin gone /\ registry[p] # None
      BY <1>1
    <2>2. \A q \in gone : registry[q] # None => task[registry[q]].pair = q
      BY <1>1, Zenon DEF IInv, RegistryMatches
    <2> QED BY <1>1, <2>1, <2>2 DEF IInv, RegistryMatches
  <1>6. RegisteredOrCancelled'
    <2> SUFFICES ASSUME NEW t \in Tasks, task[t].pc # "free"
                 PROVE  /\ registry'[task[t].pair] = t \/ t \in cancelled'
                        /\ task[t].pc \in {"removed", "closed"} => t \in cancelled'
      BY <1>1, Zenon DEF RegisteredOrCancelled
    <2>1. task[t].pair \in Pairs /\ t # None
      BY PriceStreamsAssumption DEF IInv, Pending
    <2> QED BY <1>1, <2>1, Zenon DEF IInv, RegisteredOrCancelled
  <1> QED BY <1>2, <1>4, <1>5, <1>6 DEF IInv

LEMMA NextIInv == IInv /\ [Next]_vars => IInv'
  <1> SUFFICES ASSUME IInv, [Next]_vars PROVE IInv'
    OBVIOUS
  <1> USE DEF IInv, Types
  <1>1. ASSUME NEW r \in Requests, RequestStep(r) PROVE IInv'
    <2>1. ASSUME NEW p \in Pairs,
                 StartClient(r, p) \/ StartDefault(r, p) PROVE IInv'
      <3> DEFINE q == [pc |-> "lookup", pair |-> p]
      <3>1. /\ q \in [pc : {"idle", "lookup", "add"}, pair : Pairs \cup {None}]
            /\ q.pair \in Pairs
        OBVIOUS
      <3>2. /\ req' = [req EXCEPT ![r] = q] /\ todo' \subseteq Pairs
            /\ UNCHANGED <<registry, task, cancelled, desired, gone>>
        BY <2>1, Zenon DEF StartClient, StartDefault
      <3> HIDE DEF q, IInv, Types
      <3> QED BY <3>1, <3>2, RequestIInv, Zenon
    <2>2. ASSUME NEW p \in Pairs, Unsubscribe(r, p) \/ StreamEnds(r, p)
          PROVE IInv'
      BY <2>2, StutterIInv, Zenon DEF Unsubscribe, StreamEnds, seen
    <2>3. ASSUME Lookup(r) \/ ValidateFails(r) \/ AddExisting(r) PROVE IInv'
      <3>1. /\ req[r].pc # "idle"
            /\ \/ req' = [req EXCEPT ![r] = Idle]
               \/ req' = [req EXCEPT ![r] = [req[r] EXCEPT !.pc = "add"]]
            /\ UNCHANGED <<registry, task, cancelled, todo, desired, gone>>
        BY <2>3, Zenon DEF Lookup, ValidateFails, AddExisting
      <3>2. /\ Idle \in [pc : {"idle", "lookup", "add"}, pair : Pairs \cup {None}]
            /\ Idle.pc = "idle"
        BY DEF Idle
      <3>3. /\ [req[r] EXCEPT !.pc = "add"]
                 \in [pc : {"idle", "lookup", "add"}, pair : Pairs \cup {None}]
            /\ [req[r] EXCEPT !.pc = "add"].pair \in Pairs
        BY <3>1 DEF Pending
      <3>4. todo' \subseteq Pairs
        BY <3>1
      <3> HIDE DEF IInv, Types
      <3> QED BY <3>1, <3>2, <3>3, <3>4, RequestIInv, Zenon
    <2>4. ASSUME NEW t \in Tasks, AddStream(r, t) PROVE IInv'
      BY <2>4, AddStreamIInv, Zenon
    <2> QED BY <1>1, <2>1, <2>2, <2>3, <2>4, Zenon DEF RequestStep
  <1>2. ASSUME NEW t \in Tasks, TaskNext(t) PROVE IInv'
    <2> DEFINE Moved(to) == [task[t] EXCEPT !.pc = to]
               Failed == [task[t] EXCEPT !.pc = "ended", !.failed = TRUE]
               Task == [pair : Pairs \cup {None},
                        pc : {"free"} \cup Running \cup Finished, failed : BOOLEAN]
    <2>0. /\ \A to \in Running \cup Finished :
                Moved(to) \in Task /\ Moved(to).pair = task[t].pair /\ Moved(to).pc = to
          /\ Failed \in Task /\ Failed.pair = task[t].pair /\ Failed.pc = "ended"
      <3>1. task[t] \in Task
        OBVIOUS
      <3>2. "ended" \in Finished
        BY DEF Finished
      <3> HIDE DEF IInv, Types
      <3> QED BY <3>1, <3>2, Zenon
    <2>1. ASSUME \/ Connected(t) \/ ConnectionError(t) \/ Cancelled(t)
                 \/ Exhausted(t) PROVE IInv'
      <3>1. /\ task[t].pc \in Running
            /\ \/ \E to \in {"streaming", "retrying", "ended"} :
                    task' = [task EXCEPT ![t] = Moved(to)]
               \/ task' = [task EXCEPT ![t] = Failed]
            /\ UNCHANGED <<registry, cancelled, req, todo, desired, gone>>
        BY <2>1, Zenon DEF Connected, ConnectionError, Cancelled, Exhausted, TaskStep,
                    Running
      <3>2. PICK k \in Task :
              /\ k.pair = task[t].pair /\ k.pc \in Running \cup {"ended"}
              /\ task' = [task EXCEPT ![t] = k]
        BY <3>1, <2>0, Zenon DEF Running, Finished
      <3>3. task[t].pc # "free"
        BY <3>1, Zenon DEF Running
      <3> HIDE DEF IInv, Types
      <3> QED BY <3>1, <3>2, <3>3, TaskIInv, Zenon
    <2>2. ASSUME Remove(t) PROVE IInv'
      BY <2>2, RemoveIInv, Zenon
    <2>3. ASSUME SendClosure(t) PROVE IInv'
      <3>1. /\ task[t].pc = "removed" /\ "closed" \in Finished
            /\ task' = [task EXCEPT ![t] = Moved("closed")]
            /\ UNCHANGED <<registry, cancelled, req, todo, desired, gone>>
        BY <2>3 DEF SendClosure, Finished
      <3> HIDE DEF IInv, Types, Moved
      <3> QED BY <3>1, <2>0, TaskIInv, Zenon
    <2> QED BY <1>2, <2>1, <2>2, <2>3, Zenon DEF TaskNext
  <1>3. CASE RecvClosure
    BY <1>3, StutterIInv DEF RecvClosure, seen
  <1>4. ASSUME NEW D \in DesiredSets, RefreshScan(D) PROVE IInv'
    <2>1. D \subseteq Pairs
      BY PriceStreamsAssumption
    <2>2. Types'
      BY <1>4, <2>1 DEF RefreshScan
    <2> HIDE DEF Types
    <2> QED BY <1>4, <2>2, Zenon DEF RefreshScan, Pending, RegistryMatches,
                              RegisteredOrCancelled
  <1>5. CASE RefreshCancel
    BY <1>5, RefreshCancelIInv, Zenon
  <1>6. CASE UNCHANGED vars
    BY <1>6, StutterIInv, Zenon DEF vars, seen
  <1> QED BY <1>1, <1>2, <1>3, <1>4, <1>5, <1>6, Zenon DEF Next

\* The registry is sound in every reachable state: an entry is the stream of
\* its pair and was never cancelled (maybe_add_price_stream,
\* remove_price_stream), and a stream that left the registry was cancelled, so
\* that its age emitter ends (emit_feed_age_loop).
THEOREM RegistrySound == Spec => [](RegistryMatches /\ RegisteredOrCancelled)
  <1>1. IInv => RegistryMatches /\ RegisteredOrCancelled
    BY DEF IInv
  <1> QED BY InitIInv, NextIInv, <1>1, PTL DEF Spec

-----------------------------------------------------------------------------
LEMMA InitRest == Init => Startup /\ Subscribed /\ Channel /\ Covered
  <1> SUFFICES ASSUME Init PROVE Startup /\ Subscribed /\ Channel /\ Covered
    OBVIOUS
  <1>1. Startup
    BY Zenon DEF Init, Startup, Idle, Running
  <1>2. Subscribed
    BY DEF Init, Subscribed
  <1>3. Channel /\ Covered
    BY DEF Init, Channel, Covered
  <1> QED BY <1>1, <1>2, <1>3

LEMMA StartupNext ==
    ASSUME IInv, Startup, [Next]_vars
    PROVE  Startup'
  <1>t. /\ registry \in [Pairs -> Tasks \cup {None}]
        /\ task \in [Tasks -> [pair : Pairs \cup {None},
                               pc : {"free"} \cup Running \cup Finished,
                               failed : BOOLEAN]]
        /\ \A t \in Tasks : task[t].pc # "free" => task[t].pair \in Pairs
        /\ \A r \in Requests : req[r].pc # "idle" => req[r].pair \in Pairs
    BY Zenon DEF IInv, Types, Pending
  <1>1. ASSUME NEW r \in Requests, RequestStep(r) PROVE Startup'
    <2>1. ASSUME NEW t \in Tasks, AddStream(r, t) PROVE Startup'
      <3> DEFINE p == req[r].pair
      <3>1. /\ refreshes # 0 /\ p \in Pairs /\ registry[p] = None
            /\ registry' = [registry EXCEPT ![p] = t]
            /\ task' = [task EXCEPT ![t] =
                          [pair |-> p, failed |-> FALSE,
                           pc |-> IF p \in UnitPairs THEN "unit" ELSE "connecting"]]
            /\ UNCHANGED <<gone, refreshes>>
        BY <2>1, <1>t, Zenon DEF AddStream, Startup
      <3>2. \A u \in Tasks : u # None
        BY PriceStreamsAssumption
      <3> HIDE DEF p
      <3> QED BY <1>t, <3>1, <3>2 DEF Startup, Running
    <2>2. ASSUME ~\E t \in Tasks : AddStream(r, t) PROVE Startup'
      <3>1. /\ UNCHANGED <<registry, task, gone, refreshes>>
            /\ refreshes = 0 => UNCHANGED <<todo, req>>
        BY <1>1, <2>2
        DEF RequestStep, StartClient, StartDefault, Unsubscribe, StreamEnds, Lookup,
            ValidateFails, AddExisting, Startup
      <3> QED BY <3>1, Zenon DEF Startup
    <2> QED BY <2>1, <2>2
  <1>2. ASSUME NEW t \in Tasks, TaskNext(t) PROVE Startup'
    <2>1. CASE Remove(t)
      <3>1. /\ task[t].pc = "ended" /\ task[t].pair \in Pairs
            /\ registry' = [registry EXCEPT ![task[t].pair] = None]
            /\ task' = [task EXCEPT ![t].pc = "removed"]
            /\ UNCHANGED <<req, gone, todo, refreshes>>
        BY <2>1, <1>t, Zenon DEF Remove
      <3>2. \A u \in Tasks : u # None
        BY PriceStreamsAssumption
      <3> QED BY <1>t, <3>1, <3>2 DEF Startup, Running
    <2>2. CASE ~Remove(t)
      <3>1. /\ UNCHANGED <<registry, req, gone, todo, refreshes>>
            /\ task[t].pc \in Running \cup {"removed"}
            /\ DOMAIN task' = Tasks
            /\ \A u \in Tasks : task'[u].pair = task[u].pair
            /\ \A u \in Tasks : task'[u].pc # task[u].pc =>
                  u = t /\ (task[t].pc = "removed" => task'[t].pc = "closed")
        BY <1>2, <2>2, <1>t
        DEF TaskNext, Connected, ConnectionError, Cancelled, Exhausted, SendClosure, TaskStep,
            Running
      <3> QED BY <3>1 DEF Startup, Running
    <2> QED BY <2>1, <2>2
  <1>3. CASE RecvClosure
    BY <1>3 DEF RecvClosure, Startup
  <1>4. ASSUME NEW D \in DesiredSets, RefreshScan(D) PROVE Startup'
    <2>1. /\ refreshes \in Nat /\ refreshes' = refreshes + 1 /\ gone = None
          /\ UNCHANGED <<registry, task, req>>
          /\ (\A p \in Pairs : registry[p] = None) => gone' = None
      BY <1>4, Zenon DEF RefreshScan, Startup
    <2> QED BY <2>1 DEF Startup
  <1>5. CASE RefreshCancel
    BY <1>5 DEF RefreshCancel, Startup
  <1>6. CASE UNCHANGED vars
    BY <1>6, Zenon DEF vars, Startup
  <1> QED BY <1>1, <1>2, <1>3, <1>4, <1>5, <1>6 DEF Next

\* A subscription outlives the steps that keep the pair of a started task and do
\* not free it.
LEMMA SubscribedNext ==
    ASSUME IInv, Subscribed, [Next]_vars
    PROVE  Subscribed'
  <1>t. /\ registry \in [Pairs -> Tasks \cup {None}]
        /\ task \in [Tasks -> [pair : Pairs \cup {None},
                               pc : {"free"} \cup Running \cup Finished,
                               failed : BOOLEAN]]
        /\ \A r \in Requests : req[r].pc # "idle" => req[r].pair \in Pairs
        /\ \A p \in Pairs : registry[p] # None =>
              task[registry[p]].pair = p /\ task[registry[p]].pc # "free"
    BY Zenon DEF IInv, Types, Pending, RegistryMatches, Running
  <1>k. ASSUME \A t \in Tasks : task[t].pc # "free" =>
                  task'[t].pc # "free" /\ task'[t].pair = task[t].pair,
               UNCHANGED subs
        PROVE  Subscribed'
    BY <1>k DEF Subscribed
  <1>d. ASSUME NEW r \in Requests, NEW p \in Pairs, NEW t \in Tasks, Deliver(r, p, t),
               \A u \in Tasks : task[u].pc # "free" =>
                  task'[u].pc # "free" /\ task'[u].pair = task[u].pair,
               task'[t].pair = p, task'[t].pc # "free"
        PROVE  Subscribed'
    <2>1. CASE r \in Clients
      BY <2>1, <1>d DEF Deliver, Subscribed
    <2>2. CASE r \notin Clients
      BY <2>2, <1>d DEF Deliver, Subscribed
    <2> QED BY <2>1, <2>2
  <1>1. ASSUME NEW r \in Requests, RequestStep(r) PROVE Subscribed'
    <2>1. ASSUME NEW t \in Tasks, AddStream(r, t) PROVE Subscribed'
      <3> DEFINE p == req[r].pair
      <3>1. /\ p \in Pairs /\ task[t].pc = "free" /\ Deliver(r, p, t)
            /\ task' = [task EXCEPT ![t] =
                          [pair |-> p, failed |-> FALSE,
                           pc |-> IF p \in UnitPairs THEN "unit" ELSE "connecting"]]
        BY <2>1, <1>t, Zenon DEF AddStream
      <3> HIDE DEF p
      <3>2. task'[t].pair = p /\ task'[t].pc # "free"
        BY <1>t, <3>1, Zenon
      <3>3. \A u \in Tasks : task[u].pc # "free" =>
               task'[u].pc # "free" /\ task'[u].pair = task[u].pair
        BY <1>t, <3>1, Zenon
      <3> QED BY <1>d, <3>1, <3>2, <3>3, Zenon
    <2>2. ASSUME Lookup(r) \/ AddExisting(r) PROVE Subscribed'
      <3> DEFINE p == req[r].pair
      <3>1. /\ p \in Pairs /\ UNCHANGED task
            /\ UNCHANGED subs \/ (registry[p] # None /\ Deliver(r, p, registry[p]))
        BY <2>2, <1>t, Zenon DEF Lookup, AddExisting
      <3> HIDE DEF p
      <3>2. CASE UNCHANGED subs
        BY <1>k, <3>1, <3>2
      <3>3. CASE registry[p] # None /\ Deliver(r, p, registry[p])
        <4>1. registry[p] \in Tasks /\ task[registry[p]].pair = p
              /\ task[registry[p]].pc # "free"
          BY <1>t, <3>1, <3>3
        <4> QED BY <1>d, <3>1, <3>3, <4>1, Zenon
      <3> QED BY <3>1, <3>2, <3>3
    <2>3. ASSUME r \in Clients, NEW p \in Pairs, Unsubscribe(r, p) \/ StreamEnds(r, p)
          PROVE  Subscribed'
      <3>1. subs' = [subs EXCEPT ![r] = [subs[r] EXCEPT ![p] = None]] /\ task' = task
        BY <2>3 DEF Unsubscribe, StreamEnds
      <3>2. subs' \in [Clients -> [Pairs -> Tasks \cup {None}]]
        BY <2>3, <3>1 DEF Subscribed
      <3>3. \A c \in Clients, q \in Pairs : subs'[c][q] = subs[c][q] \/ subs'[c][q] = None
        BY <2>3, <3>1 DEF Subscribed
      <3> QED BY <3>1, <3>2, <3>3 DEF Subscribed
    <2>4. ASSUME ValidateFails(r) \/ (\E p \in Pairs : StartClient(r, p) \/ StartDefault(r, p))
          PROVE  Subscribed'
      BY <1>k, <2>4, Zenon DEF ValidateFails, StartClient, StartDefault
    <2> QED BY <1>1, <2>1, <2>2, <2>3, <2>4 DEF RequestStep
  <1>2. ASSUME NEW t \in Tasks, TaskNext(t) PROVE Subscribed'
    <2>1. /\ UNCHANGED subs
          /\ \A u \in Tasks : task'[u].pair = task[u].pair
          /\ \A u \in Tasks : task[u].pc # "free" => task'[u].pc # "free"
      BY <1>2, <1>t
      DEF TaskNext, Connected, ConnectionError, Cancelled, Exhausted, Remove, SendClosure,
          TaskStep
    <2> QED BY <1>k, <2>1
  <1>3. CASE \/ RecvClosure \/ RefreshCancel \/ UNCHANGED vars
             \/ \E D \in DesiredSets : RefreshScan(D)
    BY <1>k, <1>3 DEF RecvClosure, RefreshCancel, RefreshScan, vars
  <1> QED BY <1>1, <1>2, <1>3 DEF Next

\* A failure on its way to the main loop arrives there, and no step clears it.
LEMMA ChannelNext ==
    ASSUME IInv, Channel, [Next]_vars
    PROVE  Channel' /\ (Failing => Failing')
  <1>t. /\ task \in [Tasks -> [pair : Pairs \cup {None},
                               pc : {"free"} \cup Running \cup Finished,
                               failed : BOOLEAN]]
        /\ closures \in Seq(BOOLEAN) /\ up \in BOOLEAN
    BY DEF IInv, Types, Channel
  <1>k. ASSUME UNCHANGED <<closures, up>>,
               \A t \in Tasks : task[t].pc \in {"ended", "removed"} =>
                  task'[t].failed = task[t].failed /\ task'[t].pc \in {"ended", "removed"}
        PROVE  Channel' /\ (Failing => Failing')
    BY <1>k DEF Channel, Failing
  <1>1. ASSUME NEW r \in Requests, RequestStep(r) PROVE Channel' /\ (Failing => Failing')
    <2>1. ASSUME NEW t \in Tasks, AddStream(r, t) PROVE Channel' /\ (Failing => Failing')
      <3>1. /\ UNCHANGED <<closures, up>> /\ task[t].pc = "free"
            /\ \A u \in Tasks : u # t => task'[u] = task[u]
        BY <2>1, <1>t, Zenon DEF AddStream
      <3> QED BY <1>k, <3>1
    <2>2. ASSUME ~\E t \in Tasks : AddStream(r, t) PROVE Channel' /\ (Failing => Failing')
      <3>1. UNCHANGED <<task, closures, up>>
        BY <1>1, <2>2, Zenon
        DEF RequestStep, StartClient, StartDefault, Unsubscribe, StreamEnds, Lookup,
            ValidateFails, AddExisting
      <3> QED BY <1>k, <3>1
    <2> QED BY <2>1, <2>2
  <1>2. ASSUME NEW t \in Tasks, TaskNext(t) PROVE Channel' /\ (Failing => Failing')
    <2>1. CASE SendClosure(t)
      <3>1. /\ closures' = Append(closures, task[t].failed) /\ up' = up
            /\ task[t].failed \in BOOLEAN
            /\ \A u \in Tasks : u # t => task'[u] = task[u]
        BY <2>1, <1>t DEF SendClosure
      <3>2. /\ closures' \in Seq(BOOLEAN) /\ Len(closures') = Len(closures) + 1
            /\ closures'[Len(closures) + 1] = task[t].failed
            /\ \A i \in 1..Len(closures) : closures'[i] = closures[i]
        BY <1>t, <3>1
      <3>3. Len(closures) \in Nat
        BY <1>t
      <3>4. Failing => Failing'
        <4>1. CASE ~up
          BY <4>1, <3>1 DEF Failing
        <4>2. ASSUME NEW i \in 1..Len(closures), closures[i] PROVE Failing'
          BY <4>2, <3>2, <3>3 DEF Failing
        <4>3. ASSUME NEW u \in Tasks, task[u].failed, u # t, task[u].pc \in {"ended", "removed"} PROVE Failing'
          BY <4>3, <3>1 DEF Failing
        <4>4. ASSUME task[t].failed PROVE Failing'
          <5>1. Len(closures) + 1 \in 1..Len(closures')
            BY <3>2, <3>3
          <5> QED BY <4>4, <5>1, <3>2 DEF Failing
        <4> QED BY <4>1, <4>2, <4>3, <4>4 DEF Failing
      <3>5. Channel'
        BY <3>1, <3>2 DEF Channel
      <3> QED BY <3>4, <3>5
    <2>2. CASE ~SendClosure(t)
      <3>1. /\ UNCHANGED <<closures, up>>
            /\ \A u \in Tasks : task[u].pc \in {"ended", "removed"} =>
                  task'[u].failed = task[u].failed /\ task'[u].pc \in {"ended", "removed"}
        BY <1>2, <2>2, <1>t
        DEF TaskNext, Connected, ConnectionError, Cancelled, Exhausted, Remove, TaskStep
      <3> QED BY <1>k, <3>1
    <2> QED BY <2>1, <2>2
  <1>3. CASE RecvClosure
    <2>1. /\ closures # << >> /\ closures' = Tail(closures)
          /\ up' = ~Head(closures) /\ UNCHANGED task
      BY <1>3, Zenon DEF RecvClosure
    <2>h. Head(closures) = closures[1]
      BY <1>t
    <2>u. closures[1] => ~up'
      BY <2>1, <2>h, Zenon
    <2>n. closures # << >> /\ closures' = Tail(closures)
      BY <2>1, Zenon
    <2>2. /\ closures' \in Seq(BOOLEAN) /\ Len(closures) \in Nat /\ Len(closures) >= 1
          /\ Len(closures') = Len(closures) - 1
          /\ \A i \in 1..Len(closures') : closures'[i] = closures[i + 1]
      BY <1>t, <2>n
    <2>3. ASSUME NEW i \in 1..Len(closures), closures[i] PROVE Failing'
      <3>1. CASE i = 1
        BY <2>3, <2>u, <3>1 DEF Failing
      <3>2. CASE i # 1
        <4>1. i - 1 \in 1..Len(closures') /\ closures'[i - 1] = closures[i]
          BY <2>2, <3>2
        <4> QED BY <2>3, <4>1, Zenon DEF Failing
      <3> QED BY <3>1, <3>2
    <2>4. up
      BY <1>3 DEF RecvClosure
    <2>5. UNCHANGED task /\ up' \in BOOLEAN
      BY <2>1, Zenon
    <2> QED BY <2>2, <2>3, <2>4, <2>5, Zenon DEF Channel, Failing
  <1>4. CASE \/ RefreshCancel \/ UNCHANGED vars \/ \E D \in DesiredSets : RefreshScan(D)
    BY <1>k, <1>4, Zenon DEF RefreshCancel, RefreshScan, vars
  <1> QED BY <1>1, <1>2, <1>3, <1>4 DEF Next

\* A pair that waits for an initialisation gets its stream, or still waits.
LEMMA CoveredNext ==
    ASSUME IInv, Channel, Covered, [Next]_vars
    PROVE  Covered'
  <1>t. /\ registry \in [Pairs -> Tasks \cup {None}]
        /\ task \in [Tasks -> [pair : Pairs \cup {None},
                               pc : {"free"} \cup Running \cup Finished,
                               failed : BOOLEAN]]
        /\ req \in [Requests -> [pc : {"idle", "lookup", "add"},
                                 pair : Pairs \cup {None}]]
        /\ cancelled \subseteq Tasks /\ desired \subseteq Pairs
    BY Zenon DEF IInv, Types
  <1>p. /\ \A t \in Tasks : task[t].pc # "free" => task[t].pair \in Pairs
        /\ \A t \in cancelled : task[t].pc # "free"
        /\ \A p \in Pairs : registry[p] # None => task[registry[p]].pair = p
    BY Zenon DEF IInv, Pending, RegistryMatches
  <1>f. SUFFICES ASSUME calm', ~Failing' PROVE Covered'
    BY Zenon DEF Covered
  <1>c. /\ ~Failing
        /\ calm =>
            /\ \A p \in desired :
                \/ registry[p] # None \/ p \in todo \/ gone # None
                \/ \E r \in Requests : req[r].pc # "idle" /\ req[r].pair = p
            /\ gone # None => gone \cap desired = {}
            /\ \A t \in cancelled : task[t].pc # "closed" => task[t].pair \notin desired
            /\ \A t \in Tasks : task[t].pc = "ended" => t \in cancelled
    BY <1>f, ChannelNext, Zenon DEF Covered
  <1>1. ASSUME NEW r \in Requests, RequestStep(r) PROVE Covered'
    <2>1. ASSUME NEW t \in Tasks, AddStream(r, t) PROVE Covered'
      <3> DEFINE q == req[r].pair
      <3>1. /\ calm /\ t # None /\ task[t].pc = "free"
            /\ registry' = [registry EXCEPT ![q] = t]
            /\ req' = [req EXCEPT ![r] = Idle]
            /\ UNCHANGED <<cancelled, desired, gone, todo>>
        BY <1>f, <2>1, PriceStreamsAssumption, Zenon DEF AddStream
      <3>2. /\ \A u \in Tasks : u # t => task'[u] = task[u]
            /\ task'[t].pc # "ended"
        BY <1>t, <2>1, Zenon DEF AddStream
      <3>3. t \notin cancelled
        BY <1>p, <3>1, Zenon
      <3> HIDE DEF q
      <3> QED BY <1>t, <1>c, <3>1, <3>2, <3>3 DEF Covered, q
    <2>2. ASSUME NEW p \in Pairs, StartClient(r, p) \/ StartDefault(r, p) PROVE Covered'
      <3>1. /\ calm /\ req[r].pc = "idle"
            /\ req' = [req EXCEPT ![r] = [pc |-> "lookup", pair |-> p]]
            /\ todo \ {p} \subseteq todo'
            /\ UNCHANGED <<registry, task, cancelled, desired, gone>>
        BY <1>f, <2>2, Zenon DEF StartClient, StartDefault
      <3> QED BY <1>t, <1>c, <3>1, Zenon DEF Covered
    <2>3. ASSUME Lookup(r) \/ AddExisting(r) PROVE Covered'
      <3>1. /\ calm
            /\ \/ registry[req[r].pair] # None /\ req' = [req EXCEPT ![r] = Idle]
               \/ req' = [req EXCEPT ![r].pc = "add"]
            /\ UNCHANGED <<registry, task, cancelled, desired, gone, todo>>
        BY <1>f, <2>3, Zenon DEF Lookup, AddExisting
      <3> QED BY <1>t, <1>c, <3>1 DEF Covered
    <2>4. ASSUME ~ValidateFails(r), \E p \in Pairs : Unsubscribe(r, p) \/ StreamEnds(r, p)
          PROVE Covered'
      BY <1>c, <1>f, <2>4, Zenon DEF Unsubscribe, StreamEnds, Covered
    <2>5. ~ValidateFails(r)
      BY <1>f DEF ValidateFails
    <2> QED BY <1>1, <2>1, <2>2, <2>3, <2>4, <2>5 DEF RequestStep
  <1>2. ASSUME NEW t \in Tasks, TaskNext(t) PROVE Covered'
    <2>1. CASE Remove(t)
      <3>1. /\ calm /\ task[t].pc = "ended" /\ task[t].pair \in Pairs
            /\ cancelled' = cancelled \cup ({registry[task[t].pair]} \ {None})
            /\ registry' = [registry EXCEPT ![task[t].pair] = None]
            /\ task' = [task EXCEPT ![t].pc = "removed"]
            /\ UNCHANGED <<req, desired, gone, todo>>
        BY <1>f, <1>p, <2>1, Zenon DEF Remove
      <3>2. task[t].pair \notin desired
        BY <1>c, <3>1, Zenon
      <3>3. \A u \in cancelled' : task[u].pc # "closed" => task[u].pair \notin desired
        BY <1>t, <1>p, <1>c, <3>1, <3>2
      <3>4. /\ \A u \in Tasks : task'[u].pair = task[u].pair
            /\ \A u \in Tasks : u # t => task'[u].pc = task[u].pc
            /\ task'[t].pc = "removed"
        BY <1>t, <3>1
      <3>5. cancelled' \subseteq Tasks
        BY <1>t, <3>1
      <3> QED BY <1>t, <1>c, <3>1, <3>2, <3>3, <3>4, <3>5 DEF Covered
    <2>2. CASE ~Remove(t)
      <3>1. /\ calm
            /\ UNCHANGED <<registry, cancelled, req, desired, gone, todo>>
        BY <1>f, <1>2, <2>2, Zenon
        DEF TaskNext, Connected, ConnectionError, Cancelled, Exhausted, SendClosure, TaskStep
      <3>2. ~Exhausted(t)
        <4> SUFFICES ASSUME Exhausted(t) PROVE FALSE
          OBVIOUS
        <4>1. task'[t].failed /\ task'[t].pc = "ended"
          BY <1>t DEF Exhausted
        <4> QED BY <1>f, <4>1 DEF Failing
      <3>3. /\ \A u \in Tasks : task'[u].pair = task[u].pair
            /\ \A u \in Tasks : u # t => task'[u].pc = task[u].pc
            /\ task[t].pc # "closed"
            /\ task'[t].pc = "ended" => t \in cancelled
        BY <1>t, <1>2, <2>2, <3>2
        DEF TaskNext, Connected, ConnectionError, Cancelled, SendClosure, TaskStep
      <3> QED BY <1>t, <1>c, <3>1, <3>3, Zenon DEF Covered
    <2> QED BY <2>1, <2>2
  <1>3. ASSUME NEW D \in DesiredSets, RefreshScan(D) PROVE Covered'
    <2>1. /\ calm /\ Quiet /\ desired' = D /\ D \subseteq Pairs
          /\ UNCHANGED <<registry, task, cancelled, req>>
      BY <1>f, <1>3, PriceStreamsAssumption, Zenon DEF RefreshScan
    <2>2. /\ \A t \in cancelled : task[t].pc = "closed"
          /\ \A t \in Tasks : task[t].pc # "ended"
      BY <1>t, <2>1, Zenon DEF Quiet
    <2>3. \/ gone' = {p \in Pairs \ D : registry[p] # None} /\ gone' # None
          \/ D \subseteq todo' /\ gone' = None
      BY <1>3, PriceStreamsAssumption DEF RefreshScan
    <2> QED BY <2>1, <2>2, <2>3, Zenon DEF Covered
  <1>4. CASE RefreshCancel
    <2>1. /\ calm /\ gone # None /\ gone \subseteq Pairs /\ gone' = None
          /\ cancelled' = cancelled \cup ({registry[p] : p \in gone} \ {None})
          /\ todo' = todo \cup desired
          /\ UNCHANGED <<task, desired>>
      BY <1>f, <1>4, Zenon DEF RefreshCancel, IInv, Types
    <2>2. \A t \in cancelled' : task[t].pc # "closed" => task[t].pair \notin desired
      BY <1>p, <1>c, <2>1
    <2> QED BY <1>c, <2>1, <2>2, Zenon DEF Covered
  <1>5. CASE RecvClosure \/ UNCHANGED vars
    BY <1>c, <1>f, <1>5 DEF RecvClosure, vars, Covered
  <1> QED BY <1>1, <1>2, <1>3, <1>4, <1>5 DEF Next

\* At any time a pair has one uncancelled task at most, and the registry hands out
\* that one or nothing; until a refresh takes streams down no two tasks of a pair
\* run, because the re-check under the write lock (maybe_add_price_stream) finds the
\* stream a concurrent request added. A task in the registry may have ended and not
\* yet have removed its pair, and after a refresh a cancelled task may still run.
THEOREM PairsStreamedOnce == Spec => []OneStreamPerPair
  <1>1. IInv /\ Startup => OneStreamPerPair
    <2> SUFFICES ASSUME IInv, Startup PROVE OneStreamPerPair
      OBVIOUS
    <2>1. RegistryMatches
      BY DEF IInv
    <2>2. OneUncancelled
      BY Zenon DEF IInv, RegisteredOrCancelled, OneUncancelled
    <2>3. refreshes <= 1 => NoDuplicateTasks
      BY DEF Startup, NoDuplicateTasks
    <2> QED BY <2>1, <2>2, <2>3 DEF OneStreamPerPair
  <1>2. Init => Startup
    BY InitRest
  <1>3. IInv /\ Startup /\ [Next]_vars => Startup'
    BY StartupNext
  <1> QED BY InitIInv, NextIInv, <1>1, <1>2, <1>3, PTL DEF Spec

\* What holds once no stream is being added or taken down.
LEMMA Settles ==
    ASSUME IInv, Subscribed, Covered, Quiet, up
    PROVE  SubscribersFed /\ (calm => DesiredStreamed)
  <1>1. SubscribersFed
    <2> SUFFICES ASSUME NEW c \in Clients, NEW p \in Pairs, subs[c][p] # None
                 PROVE  registry[p] = subs[c][p]
      BY DEF SubscribersFed
    <2> DEFINE t == subs[c][p]
    <2>1. /\ t \in Tasks /\ task[t].pair = p /\ task[t].pc # "free"
      BY DEF Subscribed
    <2>2. task[t].pc \notin Finished /\ "closed" \in Finished
      BY Zenon DEF Quiet, Finished
    <2>3. t \notin cancelled
      BY <2>1, <2>2, Zenon DEF Quiet
    <2> QED BY <2>1, <2>3, Zenon DEF IInv, RegisteredOrCancelled
  <1>2. ASSUME calm PROVE DesiredStreamed
    <2>1. ~Failing
      <3>1. \A t \in Tasks : task[t].pc \notin {"ended", "removed"}
        BY Zenon DEF IInv, RegisteredOrCancelled, Quiet
      <3> QED BY <3>1 DEF Quiet, Failing
    <2> QED BY <1>2, <2>1, Zenon DEF Covered, Quiet, DesiredStreamed
  <1> QED BY <1>1, <1>2

\* Whatever refreshes, failures and requests have done, once they have settled a
\* subscriber hears the stream in the registry; and the default pairs are
\* streamed if each refresh began when the last had settled and no validation
\* failed (init_default_price_streams).
THEOREM SettledStreams == Spec => []DefaultsStreamed
  <1>1. IInv /\ Subscribed /\ Covered => DefaultsStreamed
    BY Settles DEF DefaultsStreamed
  <1>2. Init => Subscribed /\ Channel /\ Covered
    BY InitRest
  <1>3. IInv /\ Subscribed /\ [Next]_vars => Subscribed'
    BY SubscribedNext
  <1>4. IInv /\ Channel /\ [Next]_vars => Channel'
    BY ChannelNext
  <1>5. IInv /\ Channel /\ Covered /\ [Next]_vars => Covered'
    BY CoveredNext
  <1> QED BY InitIInv, NextIInv, <1>1, <1>2, <1>3, <1>4, <1>5, PTL DEF Spec
====
