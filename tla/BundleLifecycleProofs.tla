------------------------ MODULE BundleLifecycleProofs ------------------------
(***************************************************************************)
(* For any number of bundles and settlement tasks, however they overlap,   *)
(* fail and restart: the state keeps its types and the bundle bucket its   *)
(* limit, the life of a bundle implements BundleTokens, and sponsorship is *)
(* recorded as promised.  The limit needs that what a task read from the   *)
(* bucket is within it too (ReadsWithinLimit), the implementation that a   *)
(* context that was not disturbed outlives the return of its token only    *)
(* under the task that is to remove it (ReturnInv).                        *)
(***************************************************************************)
EXTENDS BundleLifecycle, TLAPS

\* What decrement_consumed has read was within the limit.
ReadsWithinLimit == \A t \in Tasks : task[t].pc = "set" => task[t].read <= Limit

-----------------------------------------------------------------------------
(* Types *)

\* A settlement task is idle or has a place, a bundle and what it read.
LEMMA TaskForm ==
    ASSUME TypeOK, NEW t \in Tasks
    PROVE  \/ task[t] = NoTask /\ task[t].pc = "idle"
           \/ /\ task[t] # NoTask
              /\ task[t] \in [pc : {"receipt", "get", "set", "record", "remove"},
                             bundle : Bundles, read : Nat]
  BY DEF TypeOK, Task, NoTask

\* A step of a settlement task keeps the types.
LEMMA TaskTypes ==
    ASSUME TypeOK, NEW t \in Tasks, TaskStep(t)
    PROVE  TypeOK'
<1> USE DEF TypeOK
<1>1. CASE TaskReadContext(t)
  BY <1>1 DEF TaskReadContext, TaskGoto, Ends, Task, NoTask, request, chain, buckets
<1>2. CASE TaskGetConsumed(t)
  <2>1. [task[t] EXCEPT !.pc = "set", !.read = consumed] \in Task
    BY <1>2, TaskForm, Zenon DEF TaskGetConsumed, Task
  <2>2. task' = [task EXCEPT ![t] = [task[t] EXCEPT !.pc = "set", !.read = consumed]]
    BY <1>2, Zenon DEF TaskGetConsumed
  <2> QED
    BY <1>2, <2>1, <2>2 DEF TaskGetConsumed, request, chain, buckets
<1>3. CASE TaskReturnToken(t)
  BY <1>3 DEF TaskReturnToken, TaskGoto, Task, NoTask, request, chain
<1>4. CASE TaskRecordSponsorship(t)
  BY <1>4, BundleAssumption
  DEF TaskRecordSponsorship, Credit, TaskGoto, Task, NoTask, request, chain
<1>5. CASE TaskRemoveBundle(t)
  BY <1>5, Zenon DEF TaskRemoveBundle, Ends, Task, NoTask, request, chain, buckets
<1> QED
  BY <1>1, <1>2, <1>3, <1>4, <1>5, Zenon DEF TaskStep

\* A step of the assembly request, or of the task that writes the context, keeps the types.
LEMMA RequestTypes ==
    ASSUME TypeOK, NEW b \in Bundles, Handler(b) \/ WriteContext(b)
    PROVE  TypeOK'
<1> USE DEF TypeOK, ReqGoto, chain, buckets
<1>1. CASE ConsumeToken(b)
  BY <1>1 DEF ConsumeToken
<1>2. CASE Sponsor(b)
  BY <1>2, Zenon DEF Sponsor
<1>3. CASE RequestFails(b)
  BY <1>3, Zenon DEF RequestFails
<1>4. CASE Answer(b)
  BY <1>4, Zenon DEF Answer
<1>5. CASE WriteContext(b)
  BY <1>5, Zenon DEF WriteContext
<1> QED
  BY <1>1, <1>2, <1>3, <1>4, <1>5, Zenon DEF Handler

\* Every step keeps the types.
LEMMA NextTypes ==
    ASSUME TypeOK, [Next]_vars
    PROVE  TypeOK'
<1>1. ASSUME NEW b \in Bundles, Handler(b) \/ WriteContext(b) PROVE TypeOK'
  BY <1>1, RequestTypes
<1>2. ASSUME NEW b \in Bundles, Settle(b) \/ Reorg(b) PROVE TypeOK'
  BY <1>2 DEF TypeOK, Settle, Reorg, request, buckets
<1>3. ASSUME NEW t \in Tasks, TaskStep(t) PROVE TypeOK'
  BY <1>3, TaskTypes
<1>4. ASSUME NEW t \in Tasks, TaskFails(t) PROVE TypeOK'
  BY <1>4, Zenon DEF TypeOK, TaskFails, Ends, Task, request, chain, buckets
<1>5. ASSUME NEW t \in Tasks, NEW b \in Bundles, Deliver(t, b) PROVE TypeOK'
  <2>1. [pc |-> "receipt", bundle |-> b, read |-> 0] \in Task
    BY DEF Task
  <2> QED
    BY <1>5, <2>1 DEF TypeOK, Deliver, request, buckets
<1>6. CASE Refill
  BY <1>6 DEF TypeOK, Refill, request, chain
<1>7. CASE Restart
  BY <1>7, Zenon DEF TypeOK, Restart, Task, buckets
<1>8. CASE UNCHANGED vars
  BY <1>8, Zenon DEF TypeOK, vars
<1> QED
  BY <1>1, <1>2, <1>3, <1>4, <1>5, <1>6, <1>7, <1>8 DEF Next

\* The state keeps its types, whatever overlaps, fails or restarts.
THEOREM BundleTypes == Spec => []TypeOK
<1>1. Init => TypeOK
  BY BundleAssumption DEF Init, TypeOK, Task
<1>2. TypeOK /\ [Next]_vars => TypeOK'
  BY NextTypes
<1> QED
  BY <1>1, <1>2, PTL DEF Spec

-----------------------------------------------------------------------------
(* The limit *)

\* No step takes the bucket, or what a task read from it, over the limit.
LEMMA NextLimit ==
    ASSUME TypeOK, ConsumedWithinLimit, ReadsWithinLimit, [Next]_vars
    PROVE  ConsumedWithinLimit' /\ ReadsWithinLimit'
<1> USE BundleAssumption DEF TypeOK, ConsumedWithinLimit, ReadsWithinLimit
<1>1. ASSUME NEW b \in Bundles, Handler(b) \/ WriteContext(b) \/ Settle(b) \/ Reorg(b)
      PROVE  consumed' <= Limit /\ task' = task
  BY <1>1 DEF Handler, ConsumeToken, Sponsor, RequestFails, Answer, WriteContext, Settle,
              Reorg, buckets
<1>2. ASSUME NEW t \in Tasks, TaskStep(t)
      PROVE  ConsumedWithinLimit' /\ ReadsWithinLimit'
  <2>1. CASE TaskReadContext(t)
    BY <2>1, TaskForm DEF TaskReadContext, TaskGoto, Ends, NoTask, buckets
  <2>2. CASE TaskGetConsumed(t)
    BY <2>2, TaskForm, Zenon DEF TaskGetConsumed, NoTask, buckets
  <2>3. CASE TaskReturnToken(t)
    BY <2>3, TaskForm DEF TaskReturnToken, TaskGoto, NoTask
  <2>4. CASE TaskRecordSponsorship(t)
    BY <2>4, TaskForm DEF TaskRecordSponsorship, TaskGoto, NoTask
  <2>5. CASE TaskRemoveBundle(t)
    BY <2>5, TaskForm, Zenon DEF TaskRemoveBundle, Ends, NoTask, buckets
  <2> QED
    BY <1>2, <2>1, <2>2, <2>3, <2>4, <2>5, Zenon DEF TaskStep
<1>3. ASSUME NEW t \in Tasks, TaskFails(t)
      PROVE  ConsumedWithinLimit' /\ ReadsWithinLimit'
  BY <1>3, Zenon DEF TaskFails, Ends, NoTask, buckets
<1>4. ASSUME NEW t \in Tasks, NEW b \in Bundles, Deliver(t, b)
      PROVE  ConsumedWithinLimit' /\ ReadsWithinLimit'
  BY <1>4, Zenon DEF Deliver, buckets
<1>5. CASE Refill
  BY <1>5 DEF Refill
<1>6. CASE Restart
  BY <1>6, Zenon DEF Restart, NoTask, buckets
<1>7. CASE UNCHANGED vars
  BY <1>7, Zenon DEF vars
<1> QED
  BY <1>1, <1>2, <1>3, <1>4, <1>5, <1>6, <1>7, Zenon DEF Next

\* No more tokens are counted in an interval than the limit, whatever is returned,
\* lost or delivered twice, and however many tasks overlap in decrement_consumed.
THEOREM BundleLimitKept == Spec => []ConsumedWithinLimit
<1>1. Init => ConsumedWithinLimit /\ ReadsWithinLimit
  BY BundleAssumption DEF Init, ConsumedWithinLimit, ReadsWithinLimit, NoTask
<1>2. TypeOK /\ ConsumedWithinLimit /\ ReadsWithinLimit /\ [Next]_vars
         => ConsumedWithinLimit' /\ ReadsWithinLimit'
  BY NextLimit
<1> QED
  BY <1>1, <1>2, BundleTypes, PTL DEF Spec

-----------------------------------------------------------------------------
(* One token per bundle *)

\* The assembly request, the context and the chain preserve ReturnInv.
LEMMA RequestReturns ==
    ASSUME TypeOK, ReturnInv, NEW b \in Bundles,
           Handler(b) \/ WriteContext(b) \/ Settle(b) \/ Reorg(b)
    PROVE  ReturnInv'
<1> USE DEF TypeOK, ReturnInv, Handled
<1>1. CASE ConsumeToken(b) \/ Sponsor(b) \/ RequestFails(b)
  BY <1>1 DEF ConsumeToken, Sponsor, RequestFails, ReqGoto, chain, buckets
<1>2. CASE Answer(b)
  BY <1>2 DEF Answer, ReqGoto, chain, buckets
<1>3. CASE WriteContext(b)
  BY <1>3 DEF WriteContext, chain, buckets
<1>4. CASE Settle(b)
  BY <1>4 DEF Settle, request, buckets
<1>5. CASE Reorg(b)
  BY <1>5 DEF Reorg, request, buckets
<1> QED
  BY <1>1, <1>2, <1>3, <1>4, <1>5, Zenon DEF Handler

\* A step of a settlement task preserves ReturnInv.
LEMMA TaskReturns ==
    ASSUME TypeOK, ReturnInv, NEW t \in Tasks, TaskStep(t)
    PROVE  ReturnInv'
<1> DEFINE b == task[t].bundle
<1>1. /\ b \in Bundles /\ Handled(t, b) /\ b \in settled
      /\ b \notin disturbed => \A u \in Tasks \ {t} : ~Handled(u, b)
  BY TaskForm DEF TaskStep, TaskReadContext, TaskGetConsumed, TaskReturnToken,
                  TaskRecordSponsorship, TaskRemoveBundle, ReturnInv, Handled, NoTask
<1>2. \A u \in Tasks \ {t} : task'[u] = task[u]
  BY Zenon DEF TypeOK, TaskStep, TaskReadContext, TaskGetConsumed, TaskReturnToken,
         TaskRecordSponsorship, TaskRemoveBundle, TaskGoto, Ends
<1>3. UNCHANGED <<req, unwritten, settled, events, disturbed>>
  BY Zenon DEF TaskStep, TaskReadContext, TaskGetConsumed, TaskReturnToken,
         TaskRecordSponsorship, TaskRemoveBundle, request, chain
<1> HIDE DEF b
<1>4. CASE TaskReadContext(t)
  <2>1. CASE b \notin store
    <3>1. task'[t] = NoTask /\ UNCHANGED <<store, returned>>
      BY <1>4, <2>1 DEF TypeOK, TaskReadContext, Ends, buckets, b
    <3> QED
      BY <1>1, <1>2, <1>3, <2>1, <3>1 DEF TypeOK, ReturnInv, Handled
  <2>2. CASE b \in store
    <3>1. /\ task'[t].pc = "get" /\ task'[t].bundle = b
          /\ task'[t] # NoTask /\ UNCHANGED <<store, returned>>
      BY <1>4, <2>2, TaskForm DEF TypeOK, TaskReadContext, TaskGoto, buckets, b, NoTask
    <3>2. b \notin disturbed => returned[b] = 0
      BY <1>1, <1>4, <2>2 DEF TypeOK, ReturnInv, Handled, TaskReadContext
    <3> QED
      BY <1>1, <1>2, <1>3, <2>2, <3>1, <3>2 DEF TypeOK, ReturnInv, Handled
  <2> QED
    BY <2>1, <2>2
<1>5. CASE TaskGetConsumed(t)
  <2>1. /\ task'[t].pc = "set" /\ task'[t].bundle = b /\ task[t].pc = "get"
        /\ task'[t] # NoTask /\ UNCHANGED <<store, returned>>
    BY <1>5, TaskForm, Zenon DEF TypeOK, TaskGetConsumed, buckets, b, NoTask
  <2> QED
    BY <1>1, <1>2, <1>3, <2>1 DEF TypeOK, ReturnInv, Handled
<1>6. CASE TaskReturnToken(t)
  <2>1. /\ task'[t].pc = "record" /\ task'[t].bundle = b /\ task[t].pc = "set"
        /\ task'[t] # NoTask /\ UNCHANGED store
        /\ returned' = [returned EXCEPT ![b] = @ + 1]
    BY <1>6, TaskForm, Zenon DEF TypeOK, TaskReturnToken, TaskGoto, b, NoTask
  <2>2. b \notin disturbed => returned[b] = 0 /\ b \in store /\ returned'[b] = 1
    BY <1>1, <2>1 DEF TypeOK, ReturnInv
  <2> QED
    BY <1>1, <1>2, <1>3, <2>1, <2>2 DEF TypeOK, ReturnInv, Handled
<1>7. CASE TaskRecordSponsorship(t)
  <2>1. /\ task'[t].pc = "remove" /\ task'[t].bundle = b
        /\ task'[t] # NoTask /\ UNCHANGED <<store, returned>>
    BY <1>7, TaskForm DEF TypeOK, TaskRecordSponsorship, TaskGoto, b, NoTask
  <2> QED
    BY <1>1, <1>2, <1>3, <2>1 DEF TypeOK, ReturnInv, Handled
<1>8. CASE TaskRemoveBundle(t)
  <2>1. task'[t] = NoTask /\ store' = store \ {b} /\ UNCHANGED returned
    BY <1>8 DEF TypeOK, TaskRemoveBundle, Ends, buckets, b
  <2> QED
    BY <1>1, <1>2, <1>3, <2>1 DEF TypeOK, ReturnInv, Handled
<1> QED
  BY <1>4, <1>5, <1>6, <1>7, <1>8 DEF TaskStep

\* Every step preserves ReturnInv.
LEMMA NextReturns ==
    ASSUME TypeOK, ReturnInv, [Next]_vars
    PROVE  ReturnInv'
<1>1. ASSUME NEW b \in Bundles, Handler(b) \/ WriteContext(b) \/ Settle(b) \/ Reorg(b)
      PROVE  ReturnInv'
  BY <1>1, RequestReturns
<1>2. ASSUME NEW t \in Tasks, TaskStep(t) PROVE ReturnInv'
  BY <1>2, TaskReturns
<1>3. ASSUME NEW t \in Tasks, NEW b \in Bundles, Deliver(t, b) PROVE ReturnInv'
  <2>1. /\ task[t] = NoTask /\ disturbed \subseteq disturbed'
        /\ disturbed' \subseteq disturbed \cup {b}
        /\ b \in disturbed' \/ \A u \in Tasks : ~Handled(u, b)
        /\ task'[t].pc = "receipt" /\ task'[t].bundle = b /\ task'[t] # NoTask
        /\ \A u \in Tasks \ {t} : task'[u] = task[u]
        /\ UNCHANGED <<req, unwritten, store, settled, returned>>
        /\ b \in settled /\ \A c \in Bundles : events'[c] <= events[c]
    BY <1>3 DEF TypeOK, ReturnInv, Deliver, Handled, NoTask, request, buckets
  <2> QED
    BY <2>1, <1>3 DEF TypeOK, ReturnInv, Handled, Deliver, NoTask
<1>7. ASSUME NEW t \in Tasks, TaskFails(t) PROVE ReturnInv'
  <2>1. PICK b \in Bundles : Handled(t, b)
    BY <1>7, TaskForm, Zenon DEF TaskFails, Handled
  <2>2. /\ task'[t] = NoTask /\ \A u \in Tasks \ {t} : task'[u] = task[u]
        /\ UNCHANGED <<req, unwritten, store, settled, events, returned>>
        /\ disturbed' = IF task[t].pc \in {"record", "remove"}
                           THEN disturbed \cup {b} ELSE disturbed
    BY <1>7, <2>1 DEF TypeOK, TaskFails, Ends, Handled, request, chain, buckets
  <2> QED
    BY <2>1, <2>2 DEF TypeOK, ReturnInv, Handled
<1>4. CASE Refill
  BY <1>4 DEF ReturnInv, Handled, Refill, request, chain
<1>5. CASE Restart
  BY <1>5 DEF TypeOK, ReturnInv, Handled, Restart, buckets
<1>6. CASE UNCHANGED vars
  BY <1>6 DEF ReturnInv, Handled, vars
<1> QED
  BY <1>1, <1>2, <1>3, <1>4, <1>5, <1>6, <1>7 DEF Next

\* A step moves the phase of at most one bundle, as BundleTokens allows: what a
\* step may do to the states of a token that Phase tells apart.
LEMMA PhaseMoves ==
    ASSUME NEW b \in Bundles, NEW from \in {"none", "taken", "settled", "back", "disturbed"},
           NEW to \in {"none", "taken", "settled", "back", "disturbed"},
           Phase(b) = from, Phase(b)' = to,
           \A c \in Bundles \ {b} : Phase(c)' = Phase(c)
    PROVE  Abstract!Moves(b, from, to)
  BY Zenon DEF Abstract!Moves

\* A step that touches neither the request, the chain nor the return of any bundle
\* leaves the phases alone.
LEMMA PhasesKept ==
    ASSUME TypeOK, NEW b \in Bundles, returned'[b] = returned[b],
           b \in settled' <=> b \in settled, b \in disturbed' <=> b \in disturbed,
           \/ req'[b] = req[b]
           \/ /\ req[b] \in {"token", "forward", "failed", "answered"}
              /\ req'[b] \in {"token", "forward", "failed", "answered"}
           \/ /\ req[b] \in {"new", "refused"}
              /\ req'[b] \in {"new", "refused"}
    PROVE  Phase(b)' = Phase(b)
<1>1. CASE b \in disturbed
  BY <1>1 DEF Phase
<1>2. CASE b \notin disturbed /\ returned[b] > 1
  <2>1. returned[b] # 0 /\ returned[b] # 1
    BY <1>2 DEF TypeOK
  <2>2. Phase(b) = "back twice"
    BY <1>2, <2>1, Zenon DEF Phase
  <2>3. Phase(b)' = "back twice"
    BY <1>2, <2>1, Zenon DEF Phase
  <2> QED
    BY <2>2, <2>3
<1>3. CASE b \notin disturbed /\ returned[b] = 1
  BY <1>3 DEF Phase
<1>4. CASE b \notin disturbed /\ returned[b] = 0
  BY <1>4 DEF Phase
<1> QED
  BY <1>1, <1>2, <1>3, <1>4 DEF TypeOK

\* With ReturnInv, every step is a step of BundleTokens or leaves the phases alone.
LEMMA NextMoves ==
    ASSUME TypeOK, ReturnInv, [Next]_vars
    PROVE  [Abstract!Next]_([b \in Bundles |-> Phase(b)])
<1> DEFINE Kept == \A b \in Bundles : Phase(b)' = Phase(b)
<1>0. Kept => UNCHANGED [b \in Bundles |-> Phase(b)]
  OBVIOUS
<1>1. ASSUME NEW b \in Bundles, ConsumeToken(b)
      PROVE  Kept \/ Abstract!Moves(b, "none", "taken")
  <2>1. \A c \in Bundles \ {b} : Phase(c)' = Phase(c)
    BY <1>1, PhasesKept, Zenon DEF TypeOK, ConsumeToken, ReqGoto, chain
  <2>2. CASE req'[b] = "refused"
    BY <1>1, <2>1, <2>2, PhasesKept, Zenon DEF TypeOK, ConsumeToken, ReqGoto, chain
  <2>3. CASE req'[b] = "token"
    <3>1. Phase(b) = "none" /\ Phase(b)' = "taken"
      BY <1>1, <2>3 DEF TypeOK, ReturnInv, ConsumeToken, ReqGoto, chain, Phase
    <3> QED
      BY <2>1, <3>1, PhaseMoves
  <2> QED
    BY <1>1, <2>2, <2>3, Zenon DEF TypeOK, ConsumeToken, ReqGoto
<1>2. ASSUME NEW b \in Bundles, Sponsor(b) \/ RequestFails(b) \/ Answer(b) PROVE Kept
  BY <1>2, PhasesKept, Zenon DEF TypeOK, Sponsor, RequestFails, Answer, ReqGoto, chain, buckets
<1>3. ASSUME NEW b \in Bundles, WriteContext(b) \/ Reorg(b) PROVE Kept
  BY <1>3, PhasesKept, Zenon DEF WriteContext, Reorg, request, chain, buckets
<1>4. ASSUME NEW b \in Bundles, Settle(b)
      PROVE  Abstract!Moves(b, "taken", "settled")
  <2>1. \A c \in Bundles \ {b} : Phase(c)' = Phase(c)
    BY <1>4, PhasesKept DEF Settle, request, buckets
  <2>2. Phase(b) = "taken" /\ Phase(b)' = "settled"
    BY <1>4 DEF TypeOK, ReturnInv, Settle, request, buckets, Phase
  <2> QED
    BY <2>1, <2>2, PhaseMoves
<1>5. ASSUME NEW t \in Tasks, TaskReturnToken(t)
      PROVE  Kept \/ \E b \in Bundles : Abstract!Moves(b, "settled", "back")
  <2>1. PICK b \in Bundles : Handled(t, b)
    BY <1>5, TaskForm, Zenon DEF TaskReturnToken, Handled, NoTask
  <2>2. b \notin disturbed => returned[b] = 0
    BY <1>5, <2>1, Zenon DEF ReturnInv, TaskReturnToken
  <2>3. returned' = [returned EXCEPT ![b] = @ + 1] /\ UNCHANGED <<req, settled, disturbed>>
    BY <1>5, <2>1 DEF TaskReturnToken, Handled, request, chain
  <2>4. \A c \in Bundles \ {b} : Phase(c)' = Phase(c)
    BY <2>1, <2>3, PhasesKept, Zenon DEF TypeOK
  <2>5. CASE b \in disturbed
    <3>1. Phase(b)' = Phase(b)
      BY <2>3, <2>5 DEF Phase
    <3> QED
      BY <2>4, <3>1
  <2>6. CASE b \notin disturbed
    <3>1. b \in settled
      BY <2>1 DEF ReturnInv
    <3>2. Phase(b) = "settled" /\ Phase(b)' = "back"
      BY <2>1, <2>2, <2>3, <2>6, <3>1 DEF TypeOK, Phase
    <3> QED
      BY <2>1, <2>4, <3>2, PhaseMoves
  <2> QED
    BY <2>5, <2>6
<1>6. ASSUME NEW t \in Tasks, TaskStep(t), ~TaskReturnToken(t) PROVE Kept
  BY <1>6, PhasesKept, Zenon DEF TaskStep, TaskReadContext, TaskGetConsumed, TaskRecordSponsorship,
                          TaskRemoveBundle, request, chain, buckets
<1>d. ASSUME NEW b \in Bundles, b \in settled, returned[b] \in {0, 1}, b \notin disturbed,
             disturbed' = disturbed \cup {b}, UNCHANGED <<req, settled, returned>>
      PROVE  Abstract!Moves(b, "settled", "disturbed") \/ Abstract!Moves(b, "back", "disturbed")
  <2>1. \A c \in Bundles \ {b} : Phase(c)' = Phase(c)
    BY <1>d, PhasesKept, Zenon
  <2>2. Phase(b) \in {"settled", "back"} /\ Phase(b)' = "disturbed"
    BY <1>d DEF Phase
  <2> QED
    BY <2>1, <2>2, PhaseMoves
<1>7. ASSUME NEW t \in Tasks, NEW b \in Bundles, Deliver(t, b)
      PROVE  Kept \/ Abstract!Moves(b, "settled", "disturbed") \/ Abstract!Moves(b, "back", "disturbed")
  <2>1. UNCHANGED <<req, settled, returned>> /\ b \in settled
    BY <1>7 DEF TypeOK, ReturnInv, Deliver, request, buckets
  <2>2. CASE disturbed' = disturbed
    BY <2>1, <2>2, PhasesKept, Zenon
  <2>3. CASE disturbed' # disturbed
    <3>1. b \notin disturbed /\ disturbed' = disturbed \cup {b}
      BY <1>7, <2>3 DEF Deliver
    <3>2. returned[b] \in {0, 1}
      BY <3>1 DEF TypeOK, ReturnInv
    <3> QED
      BY <1>d, <2>1, <3>1, <3>2
  <2> QED
    BY <2>2, <2>3
<1>10. ASSUME NEW t \in Tasks, TaskFails(t)
       PROVE  Kept \/ \E b \in Bundles : \/ Abstract!Moves(b, "settled", "disturbed")
                                         \/ Abstract!Moves(b, "back", "disturbed")
  <2>1. PICK b \in Bundles : Handled(t, b)
    BY <1>10, TaskForm, Zenon DEF TaskFails, Handled
  <2>2. UNCHANGED <<req, settled, returned>> /\ b \in settled
    BY <1>10, <2>1 DEF ReturnInv, TaskFails, request, chain, buckets
  <2>3. CASE disturbed' = disturbed
    BY <2>2, <2>3, PhasesKept, Zenon
  <2>4. CASE disturbed' # disturbed
    <3>1. b \notin disturbed /\ disturbed' = disturbed \cup {b}
      BY <1>10, <2>1, <2>4 DEF TaskFails, Handled
    <3>2. returned[b] \in {0, 1}
      BY <3>1 DEF TypeOK, ReturnInv
    <3> QED
      BY <1>d, <2>2, <3>1, <3>2
  <2> QED
    BY <2>3, <2>4
<1>8. CASE Refill \/ UNCHANGED vars
  BY <1>8, PhasesKept, Zenon DEF Refill, request, chain, vars
<1>9. CASE Restart
  BY <1>9, PhasesKept, Zenon DEF TypeOK, Restart, buckets
<1> HIDE DEF Kept
<1> QED
  BY <1>0, <1>1, <1>2, <1>3, <1>4, <1>5, <1>6, <1>7, <1>8, <1>9, <1>10, Zenon
  DEF Next, Handler, Abstract!Next

\* The token of a bundle is taken before the bundle is handed out and comes back at
\* most once, after it settled: the life of a bundle implements BundleTokens, whatever
\* tasks fail, overlap or are cut off by a restart.  BundleTokens promises nothing more
\* of a bundle whose event was delivered while a task handled it, or whose task failed
\* after the return: process_external_match returns such a token again.
THEOREM TokenComesBackOnce == Spec => OneTokenPerBundle
<1>1. Init => ReturnInv
  BY DEF Init, ReturnInv, Handled
<1>2. Init => Abstract!Init
  BY DEF Init, Abstract!Init, Phase
<1>3. TypeOK /\ ReturnInv /\ [Next]_vars => ReturnInv'
  BY NextReturns
<1>4. TypeOK /\ ReturnInv /\ [Next]_vars
         => [Abstract!Next]_([b \in Bundles |-> Phase(b)])
  BY NextMoves
<1> QED
  BY <1>1, <1>2, <1>3, <1>4, BundleTypes, PTL DEF Spec, OneTokenPerBundle, Abstract!Spec

-----------------------------------------------------------------------------
(* What is recorded *)

\* Until a task has returned the token and gone on to record, nothing is recorded for
\* a bundle that was not disturbed; whatever is recorded was promised; and a task
\* records after it has returned the token.
RecordInv ==
    /\ RecordedIsPromised
    /\ \A b \in Bundles \ disturbed :
          \/ returned[b] = 0
          \/ \E t \in Tasks : Handled(t, b) /\ task[t].pc = "record"
          => credited[b] = 0
    /\ \A t \in Tasks, b \in Bundles :
          Handled(t, b) /\ task[t].pc = "record" => returned[b] > 0

\* Every step preserves RecordInv.
LEMMA NextRecords ==
    ASSUME TypeOK, ReturnInv, RecordInv, [Next]_vars
    PROVE  RecordInv'
<1>t. /\ settled \subseteq Bundles /\ returned \in [Bundles -> Nat]
      /\ refund \in [Bundles -> {0, Refund}] /\ task \in [Tasks -> Task]
      /\ credited \in [Bundles -> Nat]
      /\ req \in [Bundles -> {"new", "token", "forward", "refused", "failed", "answered"}]
  BY DEF TypeOK
<1>s. \A b \in settled : req[b] = "answered"
  BY <1>t, Zenon DEF ReturnInv
<1>k. ASSUME credited' = credited, settled \subseteq settled', disturbed \subseteq disturbed',
             \A c \in settled : refund'[c] = refund[c],
             \A c \in Bundles \ disturbed' : credited[c] = 0 \/ c \in settled,
             \A c \in Bundles : returned'[c] \in Nat /\ returned'[c] >= returned[c],
             \A u \in Tasks, c \in Bundles :
                Handled(u, c)' /\ task'[u].pc = "record" =>
                   \/ Handled(u, c) /\ task[u].pc = "record"
                   \/ returned'[c] > 0 /\ (c \in disturbed' \/ returned[c] = 0)
      PROVE  RecordInv'
  <2>1. \A c \in Bundles : refund'[c] \in Nat
    BY NextTypes, BundleAssumption DEF TypeOK
  <2>2. RecordedIsPromised'
    BY <1>t, <1>k, <2>1 DEF RecordInv, RecordedIsPromised
  <2>3. ASSUME NEW c \in Bundles \ disturbed',
               \/ returned'[c] = 0
               \/ \E u \in Tasks : Handled(u, c)' /\ task'[u].pc = "record"
        PROVE  credited'[c] = 0
    BY <1>t, <1>k, <2>3 DEF RecordInv
  <2>4. ASSUME NEW u \in Tasks, NEW c \in Bundles, Handled(u, c)', task'[u].pc = "record"
        PROVE  returned'[c] > 0
    BY <1>t, <1>k, <2>4 DEF RecordInv
  <2> QED
    BY <2>2, <2>3, <2>4 DEF RecordInv
<1>c. \A c \in Bundles : credited[c] = 0 \/ c \in settled
  BY <1>t DEF RecordInv, RecordedIsPromised
<1>1. ASSUME NEW b \in Bundles, Handler(b) \/ WriteContext(b) \/ Settle(b) \/ Reorg(b)
      PROVE  RecordInv'
  <2>1. /\ UNCHANGED <<credited, returned, task, disturbed>> /\ settled \subseteq settled'
        /\ \A c \in settled : refund'[c] = refund[c]
    BY <1>1, <1>t, <1>s, Zenon
    DEF Handler, ConsumeToken, Sponsor, RequestFails, Answer, WriteContext, Settle, Reorg,
        ReqGoto, request, chain, buckets
  <2> QED
    BY <1>c, <1>k, <1>t, <2>1 DEF Handled
<1>2. ASSUME NEW t \in Tasks, TaskRecordSponsorship(t) PROVE RecordInv'
  <2>1. PICK b \in Bundles : Handled(t, b)
    BY <1>2, TaskForm, Zenon DEF TaskRecordSponsorship, Handled, NoTask
  <2>2. PICK v \in {0, refund[b]} : credited' = [credited EXCEPT ![b] = @ + v]
    BY <1>2, <2>1 DEF TaskRecordSponsorship, Credit, Handled
  <2>3. /\ UNCHANGED <<refund, settled, returned, disturbed>>
        /\ task[t].pc = "record" /\ task'[t].pc = "remove"
        /\ \A u \in Tasks \ {t} : task'[u] = task[u]
    BY <1>2, <1>t DEF TaskRecordSponsorship, TaskGoto, request, chain
  <2>4. b \in settled /\ returned[b] > 0 /\ (b \notin disturbed => credited[b] = 0)
    BY <2>1, <2>3 DEF ReturnInv, RecordInv
  <2>5. RecordedIsPromised'
    BY <1>t, <2>2, <2>3, <2>4, BundleAssumption DEF RecordInv, RecordedIsPromised
  <2>6. ASSUME NEW c \in Bundles \ disturbed,
               \/ returned[c] = 0
               \/ \E u \in Tasks : Handled(u, c)' /\ task'[u].pc = "record"
        PROVE  credited'[c] = 0
    <3>1. c # b
      BY <2>1, <2>3, <2>4, <2>6 DEF ReturnInv, Handled
    <3>2. credited'[c] = credited[c]
      BY <1>t, <2>2, <3>1
    <3> QED
      BY <2>3, <2>6, <3>2 DEF RecordInv, Handled
  <2>7. \A u \in Tasks, c \in Bundles :
            Handled(u, c)' /\ task'[u].pc = "record" => returned'[c] > 0
    BY <2>3 DEF RecordInv, Handled
  <2> QED
    BY <2>3, <2>5, <2>6, <2>7 DEF RecordInv
<1>3. ASSUME NEW t \in Tasks, TaskReturnToken(t) PROVE RecordInv'
  <2>1. PICK b \in Bundles : Handled(t, b)
    BY <1>3, TaskForm, Zenon DEF TaskReturnToken, Handled, NoTask
  <2>2. /\ UNCHANGED <<refund, settled, credited, disturbed>>
        /\ returned' = [returned EXCEPT ![b] = @ + 1]
        /\ task' = [task EXCEPT ![t].pc = "record"] /\ task[t].pc = "set"
    BY <1>3, <2>1 DEF TaskReturnToken, TaskGoto, Handled, request, chain
  <2>3. b \notin disturbed => returned[b] = 0
    BY <2>1, <2>2 DEF ReturnInv
  <2>4. /\ \A c \in Bundles : returned'[c] \in Nat /\ returned'[c] >= returned[c]
        /\ returned'[b] > 0
    BY <1>t, <2>2
  <2>5. /\ \A u \in Tasks \ {t} : task'[u] = task[u]
        /\ \A c \in Bundles : Handled(t, c)' => c = b
    BY <1>t, <2>1, <2>2, TaskForm, Zenon DEF Handled, NoTask
  <2>6. \A u \in Tasks, c \in Bundles :
            Handled(u, c)' /\ task'[u].pc = "record" =>
               \/ Handled(u, c) /\ task[u].pc = "record"
               \/ returned'[c] > 0 /\ (c \in disturbed' \/ returned[c] = 0)
    BY <2>2, <2>3, <2>4, <2>5, Zenon DEF Handled
  <2> QED
    BY <1>c, <1>k, <2>2, <2>4, <2>6
<1>4. ASSUME NEW t \in Tasks, TaskReadContext(t) \/ TaskGetConsumed(t) \/ TaskRemoveBundle(t)
      PROVE  RecordInv'
  <2>1. /\ UNCHANGED <<refund, settled, credited, returned, disturbed>>
        /\ \A u \in Tasks \ {t} : task'[u] = task[u]
        /\ task'[t].pc # "record"
    BY <1>4, <1>t, TaskForm
    DEF TaskReadContext, TaskGetConsumed, TaskRemoveBundle, TaskGoto, Ends, NoTask, request,
        chain, buckets
  <2> QED
    BY <1>c, <1>k, <1>t, <2>1 DEF Handled
<1>5. ASSUME NEW t \in Tasks, \/ \E b \in Bundles : Deliver(t, b)
                              \/ TaskFails(t)
      PROVE  RecordInv'
  <2>1. /\ UNCHANGED <<refund, settled, credited, returned>> /\ disturbed \subseteq disturbed'
        /\ \A u \in Tasks \ {t} : task'[u] = task[u]
        /\ task'[t].pc # "record"
    BY <1>5, <1>t DEF Deliver, TaskFails, Ends, NoTask, request, chain, buckets
  <2> QED
    BY <1>c, <1>k, <1>t, <2>1 DEF Handled
<1>6. CASE Refill \/ Restart \/ UNCHANGED vars
  <2>1. /\ UNCHANGED <<refund, settled, credited, returned, disturbed>>
        /\ UNCHANGED task \/ \A u \in Tasks : task'[u] = NoTask
    BY <1>6, Zenon DEF Refill, Restart, vars, request, chain, buckets
  <2> QED
    BY <1>c, <1>k, <1>t, <2>1 DEF Handled
<1> QED
  BY <1>1, <1>2, <1>3, <1>4, <1>5, <1>6 DEF Next, TaskStep

\* The tokens counted stay within the limit, and sponsorship is recorded only for
\* bundles that carry it and settled, for each its refund at most unless its tasks
\* overlapped or failed after the return; for any number of bundles and tasks.
THEOREM CountsAreTrue == Spec => []TokensCounted
<1>1. Init => ReturnInv
  BY DEF Init, ReturnInv, Handled
<1>2. Init => RecordInv
  BY BundleAssumption DEF Init, RecordInv, RecordedIsPromised, Handled
<1>3. TypeOK /\ ReturnInv /\ [Next]_vars => ReturnInv'
  BY NextReturns
<1>4. TypeOK /\ ReturnInv /\ RecordInv /\ [Next]_vars => RecordInv'
  BY NextRecords
<1>5. RecordInv => RecordedIsPromised
  BY DEF RecordInv
<1> QED
  BY <1>1, <1>2, <1>3, <1>4, <1>5, BundleTypes, BundleLimitKept, PTL DEF Spec, TokensCounted
=============================================================================
