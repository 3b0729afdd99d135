--------------------------- MODULE BundleLifecycle ---------------------------
(***************************************************************************)
(* The life of an external match bundle in the auth server, for one user:  *)
(* the assembly request takes a rate limit token, checks the sponsorship   *)
(* budget and is forwarded; a task spawned with the response writes the    *)
(* bundle context; the chain listener spawns a task per NonceUsed event,   *)
(* which finds the context, returns the token, records the sponsorship and *)
(* removes the context.  Every await is a step.                            *)
(***************************************************************************)
EXTENDS Integers

CONSTANTS
    Bundles,    \* bundles, named by their sponsorship nonce
    Tasks,      \* settlement tasks running at a time
    Limit,      \* bundle tokens per interval
    Budget,     \* sponsorship budget
    Refund,     \* value of the refund of a sponsored bundle
    MaxEvents,  \* bound on the deliveries of an event: more than 1 after a reorg
    Faults      \* whether an await of a settlement task may fail

\* The limit and the refund are numbers, as in the configuration of the server.
ASSUME BundleAssumption == Limit \in Nat /\ Refund \in Nat

VARIABLES
    req,        \* the assembly request of each bundle
    refund,     \* the sponsorship the bundle carries
    unwritten,  \* bundles handed out whose context is not written yet
    store,      \* BundleStore::by_id
    settled,    \* bundles settled on-chain
    events,     \* NonceUsed events the node has yet to deliver
    delivered,  \* how often the event of a bundle was delivered
    task,       \* settlement tasks
    consumed,   \* the bundle bucket of the current interval, in Redis
    recorded,   \* the sponsorship bucket, in Redis
    returned,   \* how often the token of a bundle was returned
    credited,   \* history: what of recorded is the refund of each bundle
    disturbed   \* history: bundles with two tasks at once, or a task that failed
                \* after it had returned the token

request == <<req, refund, unwritten>>
chain == <<settled, events, delivered>>
buckets == <<consumed, recorded, returned, credited>>
vars == <<req, refund, unwritten, store, settled, events, delivered, task,
          consumed, recorded, returned, credited, disturbed>>

NoTask == [pc |-> "idle"]

Init ==
    /\ req = [b \in Bundles |-> "new"]
    /\ refund = [b \in Bundles |-> 0]
    /\ unwritten = {} /\ store = {} /\ settled = {}
    /\ events = [b \in Bundles |-> 0]
    /\ delivered = [b \in Bundles |-> 0]
    /\ task = [t \in Tasks |-> NoTask]
    /\ consumed = 0 /\ recorded = 0
    /\ returned = [b \in Bundles |-> 0]
    /\ credited = [b \in Bundles |-> 0]
    /\ disturbed = {}

-----------------------------------------------------------------------------
(* The assembly request *)

ReqGoto(b, from, to) == req[b] = from /\ req' = [req EXCEPT ![b] = to]

ConsumeOneMore(b) ==
    /\ consumed <= Limit
    /\ consumed' = consumed + 1
    /\ ReqGoto(b, "new", "token")
    /\ UNCHANGED <<refund, unwritten, store, chain, task, recorded, returned, credited, disturbed>>

\* consume_bundle_rate_limit_token; over the limit the answer is "no match".
ConsumeToken(b) ==
    /\ \/ /\ consumed < Limit
          /\ consumed' = consumed + 1
          /\ ReqGoto(b, "new", "token")
       \/ /\ consumed >= Limit
          /\ ReqGoto(b, "new", "refused")
          /\ UNCHANGED consumed
    /\ UNCHANGED <<refund, unwritten, store, chain, task, recorded, returned, credited, disturbed>>

\* generate_sponsorship_info: sponsored while budget remains, unless the order
\* is too small or the client declines.
Sponsor(b) ==
    /\ ReqGoto(b, "token", "forward")
    /\ \E v \in {0, Refund} :
          /\ v > 0 => recorded < Budget
          /\ refund' = [refund EXCEPT ![b] = v]
    /\ UNCHANGED <<unwritten, store, chain, task, buckets, disturbed>>

\* Routing, sponsoring or the relayer fails, or the relayer finds no match.
RequestFails(b) ==
    /\ \/ ReqGoto(b, "token", "failed")
       \/ ReqGoto(b, "forward", "failed")
    /\ UNCHANGED <<refund, unwritten, store, chain, task, buckets, disturbed>>

\* The relayer matches: the bundle goes to the client and record_assembly_metrics
\* spawns the task that writes the context.
Answer(b) ==
    /\ ReqGoto(b, "forward", "answered")
    /\ unwritten' = unwritten \cup {b}
    /\ UNCHANGED <<refund, store, chain, task, buckets, disturbed>>

WriteContext(b) ==
    /\ b \in unwritten
    /\ unwritten' = unwritten \ {b}
    /\ store' = store \cup {b}
    /\ UNCHANGED <<req, refund, chain, task, buckets, disturbed>>

-----------------------------------------------------------------------------
(* The chain *)

\* The client submits the bundle.
Settle(b) ==
    /\ req[b] = "answered"
    /\ b \notin settled
    /\ settled' = settled \cup {b}
    /\ events' = [events EXCEPT ![b] = 1]
    /\ UNCHANGED <<request, store, delivered, task, buckets, disturbed>>

\* A reorganisation includes the transaction again, and its event with it.
Reorg(b) ==
    /\ b \in settled
    /\ events[b] + delivered[b] < MaxEvents
    /\ events' = [events EXCEPT ![b] = @ + 1]
    /\ UNCHANGED <<request, store, settled, delivered, task, buckets, disturbed>>

-----------------------------------------------------------------------------
(* The settlement task *)

TaskGoto(t, pc) == task' = [task EXCEPT ![t].pc = pc]

Ends(t) == task' = [task EXCEPT ![t] = NoTask]

\* Handled(t, b): task t runs for the event of b.
Handled(t, b) == task[t] # NoTask /\ task[t].bundle = b

\* handle_nonce_used spawns a task, whatever tasks of the nonce are running.
Deliver(t, b) ==
    /\ task[t] = NoTask
    /\ disturbed' = disturbed \cup {c \in {b} : \E u \in Tasks : Handled(u, c)}
    /\ events[b] > 0
    /\ events' = [events EXCEPT ![b] = @ - 1]
    /\ delivered' = [delivered EXCEPT ![b] = @ + 1]
    /\ task' = [task EXCEPT ![t] = [pc |-> "receipt", bundle |-> b, read |-> 0]]
    /\ UNCHANGED <<request, store, settled, buckets>>

\* The receipt, the block and the matches are there; a nonce without a
\* context belongs to nobody.
TaskReadContext(t) ==
    /\ task[t].pc = "receipt"
    /\ IF task[t].bundle \in store THEN TaskGoto(t, "get") ELSE Ends(t)
    /\ UNCHANGED <<request, store, chain, buckets, disturbed>>

\* decrement_consumed reads the bucket ...
TaskGetConsumed(t) ==
    /\ task[t].pc = "get"
    /\ task' = [task EXCEPT ![t].pc = "set", ![t].read = consumed]
    /\ UNCHANGED <<request, store, chain, buckets, disturbed>>

\* ... and writes it.
TaskReturnToken(t) ==
    LET b == task[t].bundle
    IN  /\ task[t].pc = "set"
        /\ consumed' = IF task[t].read > 0 THEN task[t].read - 1 ELSE 0
        /\ returned' = [returned EXCEPT ![b] = @ + 1]
        /\ TaskGoto(t, "record")
        /\ UNCHANGED <<request, store, chain, recorded, credited, disturbed>>

\* record_gas_sponsorship
Credit(b, v) ==
    /\ recorded' = recorded + v
    /\ credited' = [credited EXCEPT ![b] = @ + v]

TaskRecordsAlways(t) ==
    /\ task[t].pc = "record"
    /\ Credit(task[t].bundle, Refund)
    /\ TaskGoto(t, "remove")
    /\ UNCHANGED <<request, store, chain, consumed, returned, disturbed>>

\* The spread cost and the settlement metrics, then the refund the sponsor
\* paid: the promised one, or nothing when the sponsor was short of funds.
TaskRecordSponsorship(t) ==
    /\ task[t].pc = "record"
    /\ \E v \in {0, refund[task[t].bundle]} : Credit(task[t].bundle, v)
    /\ TaskGoto(t, "remove")
    /\ UNCHANGED <<request, store, chain, consumed, returned, disturbed>>

TaskKeepsContext(t) ==
    /\ task[t].pc = "remove"
    /\ Ends(t)
    /\ UNCHANGED <<request, store, chain, buckets, disturbed>>

\* The metrics of the sponsorship are out; the context is removed.
TaskRemoveBundle(t) ==
    /\ task[t].pc = "remove"
    /\ store' = store \ {task[t].bundle}
    /\ Ends(t)
    /\ UNCHANGED <<request, chain, buckets, disturbed>>

\* An await fails: the task ends where it is and nothing retries it.
TaskFails(t) ==
    /\ Faults
    /\ task[t] # NoTask
    /\ disturbed' = IF task[t].pc \in {"record", "remove"}
                      THEN disturbed \cup {task[t].bundle} ELSE disturbed
    /\ Ends(t)
    /\ UNCHANGED <<request, store, chain, buckets>>

-----------------------------------------------------------------------------
(* The environment *)

\* The next refill interval of the bundle limiter begins.
Refill ==
    /\ consumed' = 0
    /\ consumed > 0
    /\ UNCHANGED <<request, store, chain, task, recorded, returned, credited, disturbed>>

\* The process ends, on its own or because the event stream did: contexts and
\* tasks are gone, and events of the time in between are not delivered.
Restart ==
    /\ req' = [b \in Bundles |-> IF req[b] \in {"token", "forward"} THEN "failed" ELSE req[b]]
    /\ unwritten' = {} /\ store' = {}
    /\ events' = [b \in Bundles |-> 0]
    /\ task' = [t \in Tasks |-> NoTask]
    /\ UNCHANGED <<refund, settled, delivered, buckets, disturbed>>

Handler(b) == ConsumeToken(b) \/ Sponsor(b) \/ RequestFails(b) \/ Answer(b)

TaskStep(t) ==
    \/ TaskReadContext(t) \/ TaskGetConsumed(t) \/ TaskReturnToken(t)
    \/ TaskRecordSponsorship(t) \/ TaskRemoveBundle(t)

Next ==
    \/ \E b \in Bundles : Handler(b) \/ WriteContext(b) \/ Settle(b) \/ Reorg(b)
    \/ \E t \in Tasks : TaskStep(t) \/ TaskFails(t) \/ \E b \in Bundles : Deliver(t, b)
    \/ Refill
    \/ Restart

Spec == Init /\ [][Next]_vars

\* The steps of a process that stays up.
Running == Next /\ ~Restart

\* Spawned tasks are run by the tokio runtime and the node delivers the events
\* it has; nothing makes a client settle.
Fairness ==
    /\ \A b \in Bundles : WF_vars(WriteContext(b))
    /\ \A t \in Tasks : WF_vars(TaskStep(t))
    /\ \A b \in Bundles : WF_vars(\E t \in Tasks : Deliver(t, b))

-----------------------------------------------------------------------------
(* Properties *)

Task == {NoTask} \cup [pc : {"receipt", "get", "set", "record", "remove"},
                       bundle : Bundles, read : Nat]

\* The types of the state.
TypeOK ==
    /\ req \in [Bundles -> {"new", "token", "forward", "refused", "failed", "answered"}]
    /\ refund \in [Bundles -> {0, Refund}]
    /\ unwritten \subseteq Bundles /\ store \subseteq Bundles /\ settled \subseteq Bundles
    /\ events \in [Bundles -> Nat] /\ delivered \in [Bundles -> Nat]
    /\ task \in [Tasks -> Task]
    /\ consumed \in Nat /\ recorded \in Nat
    /\ returned \in [Bundles -> Nat] /\ credited \in [Bundles -> Nat]
    /\ disturbed \subseteq Bundles

Phase(b) ==
    CASE b \in disturbed -> "disturbed"
      [] b \notin disturbed /\ returned[b] > 1 -> "back twice"
      [] b \notin disturbed /\ returned[b] = 1 -> "back"
      [] b \notin disturbed /\ returned[b] = 0 /\ b \in settled -> "settled"
      [] /\ b \notin disturbed /\ returned[b] = 0 /\ b \notin settled
         /\ req[b] \in {"token", "forward", "failed", "answered"} -> "taken"
      [] OTHER -> "none"

\* Why a token comes back once: only bundles that settled have events and tasks;
\* and a bundle that was not disturbed has one task at a time, its context outlives
\* the return of the token only under the task that is about to remove it, and the
\* task that will return the token finds it still out.
ReturnInv ==
    /\ \A b \in Bundles :
          /\ b \in settled \cup unwritten \cup store => req[b] = "answered"
          /\ b \in unwritten => b \notin store
          /\ events[b] > 0 \/ returned[b] > 0 \/ b \in disturbed => b \in settled
    /\ \A t \in Tasks, b \in Bundles : Handled(t, b) => b \in settled
    /\ \A b \in Bundles \ disturbed :
          /\ returned[b] <= 1
          /\ b \in unwritten => returned[b] = 0
          /\ b \in store /\ returned[b] > 0 =>
                \E t \in Tasks : Handled(t, b) /\ task[t].pc \in {"record", "remove"}
          /\ \A t \in Tasks :
                Handled(t, b) =>
                   /\ task[t].pc \in {"get", "set"} => returned[b] = 0 /\ b \in store
                   /\ \A u \in Tasks \ {t} : ~Handled(u, b)

Abstract == INSTANCE BundleTokens WITH phase <- [b \in Bundles |-> Phase(b)]

\* The token of a bundle is taken before the bundle is handed out and comes back at
\* most once, after it settled, although its event may be delivered again, tasks may
\* fail and the process restart.  Only two things can bring it back twice: the event
\* is delivered again while a task still handles it, or after a task failed between
\* the return of the token and the removal of the context.
OneTokenPerBundle == Abstract!Spec

ConsumedWithinLimit == consumed <= Limit

RecordedIsPromised ==
    \A b \in Bundles :
        /\ credited[b] > 0 => b \in settled /\ refund[b] > 0
        /\ b \notin disturbed => credited[b] <= refund[b]

\* Tokens and budgets are counted for what took them: no more tokens are counted
\* in an interval than the limit, although decrement_consumed reads the bucket and
\* writes it in two steps; and process_external_match records sponsorship only for
\* bundles that carry it and settled, and for each no more than its refund, unless
\* its event was handled by two tasks at once or again after a task that failed.
TokensCounted == ConsumedWithinLimit /\ RecordedIsPromised

=============================================================================
