---- MODULE IndexerQueue ----
(***************************************************************************)
(* The darkpool indexer (indexer/darkpool-indexer): a consumer receives    *)
(* messages from a FIFO queue and spawns a task for each message group,    *)
(* which handles the messages it was given one after the other and deletes *)
(* a message once it is handled.  A message that is not deleted is         *)
(* delivered again when its visibility timeout ends.                       *)
(*                                                                         *)
(* Indexing a spent nullifier is not implemented in the code beyond the    *)
(* fetch of its receipt: the handler panics, and the task ends with it.    *)
(***************************************************************************)
EXTENDS Integers, Sequences, Functions

CONSTANTS
  Groups,
  Sent,       \* the messages of each group, in order
  Tasks,      \* names for the tasks that run at one time
  MaxRecv,    \* MAX_RECV_MESSAGES
  DbFails,    \* TRUE: a database or RPC call may fail
  DelFails,   \* TRUE: a delete may fail
  Slow        \* TRUE: a visibility timeout may end while a task still runs

NoGroup == "none"

Message == [id : Nat, kind : {"seed", "spend", "garbage", "empty"}, account : STRING]

ASSUME IndexerAssumption ==
  /\ NoGroup \notin Groups
  /\ Sent \in [Groups -> Seq(Message)]
  /\ MaxRecv \in Nat \ {0}

VARIABLES
  queue,    \* the messages of each group that are not deleted
  flight,   \* the groups with messages in flight
  task,     \* the tasks: the group, the messages left, and where it is
  seeds,    \* the accounts with a master view seed and an expected state object
  late      \* history: the groups with a task that outlived a visibility timeout

indexerVars == <<queue, flight, task, seeds, late>>

NoTask == [group |-> NoGroup, batch |-> << >>, pc |-> "free"]

IndexerInit ==
  /\ queue = Sent
  /\ flight = {}
  /\ task = [t \in Tasks |-> NoTask]
  /\ seeds = {}
  /\ late = {}

Active(g) == {t \in Tasks : task[t].group = g}

Prefix(s, n) == SubSeq(s, 1, IF n < Len(s) THEN n ELSE Len(s))

-----------------------------------------------------------------------------
(* Mutated forms of the definitions below. *)

(* The task moves on whatever happened, and deletes. *)
HandledAlways(t, ok) == [task EXCEPT ![t].pc = "delete"]

ReceiveAny(g) ==
  /\ queue[g] /= << >>
  /\ \E t \in Tasks :
       /\ task[t] = NoTask
       /\ task' = [task EXCEPT ![t] = [group |-> g, batch |-> Prefix(queue[g], MaxRecv), pc |-> "handle"]]
  /\ flight' = flight \union {g}
  /\ UNCHANGED <<queue, seeds, late>>

RemainderNone(t) == NoTask

-----------------------------------------------------------------------------
(* The queue *)

(* receive_message: the first messages of a group none of whose messages are *)
(* in flight; a task is spawned for them.                                    *)
ReceiveMessages(g) ==
  /\ queue[g] /= << >>
  /\ g \notin flight
  /\ \E t \in Tasks :
       /\ task[t] = NoTask
       /\ task' = [task EXCEPT ![t] = [group |-> g, batch |-> Prefix(queue[g], MaxRecv), pc |-> "handle"]]
  /\ flight' = flight \union {g}
  /\ UNCHANGED <<queue, seeds, late>>

(* The messages of a group in flight are all deleted, or their visibility    *)
(* timeout ends.                                                             *)
Expire(g) ==
  /\ g \in flight
  /\ Active(g) = {} \/ Slow
  /\ flight' = flight \ {g}
  /\ late' = IF Active(g) = {} THEN late ELSE late \union {g}
  /\ UNCHANGED <<queue, task, seeds>>

-----------------------------------------------------------------------------
(* The task of a group *)

(* The rest of the batch, once its first message is done with. *)
Remainder(t) ==
  IF Len(task[t].batch) = 1 THEN NoTask
  ELSE [task[t] EXCEPT !.batch = Tail(@), !.pc = "handle"]

(* The message is deleted next, or left in the queue with an error logged. *)
Handled(t, ok) ==
  IF ok THEN [task EXCEPT ![t].pc = "delete"] ELSE [task EXCEPT ![t] = Remainder(t)]

(* handle_master_view_seed_message: both rows in one transaction, which an   *)
(* account that is already registered makes fail.                            *)
RegisterSeed(t) ==
  /\ task[t].pc = "handle" /\ Head(task[t].batch).kind = "seed"
  /\ LET a == Head(task[t].batch).account IN
       \E ok \in {a \notin seeds} \union (IF DbFails THEN {FALSE} ELSE {}) :
         /\ seeds' = IF ok THEN seeds \union {a} ELSE seeds
         /\ task' = Handled(t, ok)
  /\ UNCHANGED <<queue, flight, late>>

(* handle_nullifier_spend_message: the receipt is missing, or the task       *)
(* panics.                                                                   *)
Spend(t) ==
  /\ task[t].pc = "handle" /\ Head(task[t].batch).kind = "spend"
  /\ \/ DbFails /\ task' = [task EXCEPT ![t] = Remainder(t)]
     \/ task' = [task EXCEPT ![t] = NoTask]
  /\ UNCHANGED <<queue, flight, seeds, late>>

(* A body that does not parse is an error; no body is nothing to do. *)
Malformed(t) ==
  /\ task[t].pc = "handle"
  /\ \/ Head(task[t].batch).kind = "garbage" /\ task' = Handled(t, FALSE)
     \/ Head(task[t].batch).kind = "empty" /\ task' = Handled(t, TRUE)
  /\ UNCHANGED <<queue, flight, seeds, late>>

(* The queue without a message, which may have left it before. *)
Without(q, m) ==
  IF m \notin Range(q) THEN q
  ELSE LET i == CHOOSE k \in DOMAIN q : q[k] = m
       IN  SubSeq(q, 1, i - 1) \o SubSeq(q, i + 1, Len(q))

(* delete_message, after which the task goes on whether it succeeded or not. *)
Delete(t) ==
  /\ task[t].pc = "delete"
  /\ \/ queue' = [queue EXCEPT ![task[t].group] = Without(@, Head(task[t].batch))]
     \/ DelFails /\ UNCHANGED queue
  /\ task' = [task EXCEPT ![t] = Remainder(t)]
  /\ UNCHANGED <<flight, seeds, late>>

Step(t) == RegisterSeed(t) \/ Spend(t) \/ Malformed(t) \/ Delete(t)

IndexerNext ==
  \/ \E g \in Groups : ReceiveMessages(g) \/ Expire(g)
  \/ \E t \in Tasks : Step(t)

Succeeds(t) == RegisterSeed(t) /\ seeds' /= seeds

(* The consumer polls for ever, a task runs on, a timeout ends, and a        *)
(* registration that is tried again and again succeeds in the end.           *)
IndexerSpec ==
  /\ IndexerInit /\ [][IndexerNext]_indexerVars
  /\ \A g \in Groups : SF_indexerVars(ReceiveMessages(g)) /\ WF_indexerVars(Expire(g))
  /\ \A t \in Tasks : WF_indexerVars(Step(t)) /\ SF_indexerVars(Succeeds(t))

-----------------------------------------------------------------------------
(* The types of the variables. *)
IndexerTypeOK ==
  /\ queue \in [Groups -> Seq(Message)]
  /\ \A g \in Groups : Range(queue[g]) \subseteq Range(Sent[g])
  /\ flight \subseteq Groups /\ late \subseteq Groups
  /\ task \in [Tasks -> [group : Groups \union {NoGroup}, batch : Seq(Message),
                         pc : {"free", "handle", "delete"}]]
  /\ \A t \in Tasks :
       IF task[t].pc = "free" THEN task[t] = NoTask
       ELSE /\ task[t].group \in Groups /\ task[t].batch /= << >>
            /\ Range(task[t].batch) \subseteq Range(Sent[task[t].group])

(* "We want to be sure we processing messages sequentially within a message  *)
(* group, but concurrently across different message groups": no two tasks    *)
(* handle messages of one group, unless one outlived a visibility timeout.   *)
SequentialInGroup == \A g \in Groups \ late : \A t, u \in Active(g) : t = u

DeletedMeansIndexed ==
  \A g \in Groups :
    \A m \in Range(Sent[g]) \ Range(queue[g]) : m.kind = "seed" => m.account \in seeds

(* A registration is removed from the queue only once it is in the database, *)
(* whatever fails, is repeated or is delivered twice in between; and the     *)
(* messages of a group are handled by one task at a time, as long as no task *)
(* outlives the visibility timeout.                                          *)
IndexedInOrder == DeletedMeansIndexed /\ SequentialInGroup

====
