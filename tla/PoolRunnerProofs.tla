------------------------- MODULE PoolRunnerProofs -------------------------
(*************************************************************************)
(* An order that the pool runner moves into a managed pool is in the first *)
(* pool that fits it while its task waits for a fill, and comes back: for *)
(* any orders, pools, tasks, faults and any order of the steps.          *)
(*                                                                       *)
(* PoolAssignment is not inductive alone.  An order in a managed pool has a *)
(* task that is still to move it back (Attended), which no other task can *)
(* take from it unless two tasks routed it (OneTaskEach), and an order is *)
(* created once, before anyone hears of it (KnownOrders).                *)
(*************************************************************************)
EXTENDS PoolRunner, WellFoundedInduction, TLAPS

----------------------------------------------------------------------------
(* The pool runner *)

RunnerRecords ==
    [pc : {"free", "registered", "waiting", "reassign", "finish"},
     order : Orders \cup {None}, to : PoolNames \cup {None},
     value : Values \cup {0}, rx : {"open", "filled", "closed"}]

UpdateRecords == [order : Orders, type : {"Created", "InternalFill"}]

\* A task that is not free has an order and the first pool that fits it.
IsRouting(x) ==
    /\ x \in RunnerRecords
    /\ IF x.pc = "free" THEN x = NoRunner ELSE x.order \in Orders /\ x.to \in PoolNames
    /\ x.to # None =>
         \E i \in DOMAIN Pools : Pools[i].name = x.to /\ FitsFirst(i, x.order, x.value)

\* What the runner works on, is to work on or hears of was created.
KnownOrders ==
    /\ \A r \in Runners : runner[r].order # None => runner[r].order \in created
    /\ \A o \in Orders : spawned[o] > 0 \/ pool[o] # None => o \in created
    /\ \A i \in DOMAIN inbox : inbox[i].order \in created

\* One task has an order in hand, unless two routed it at the same time.
OneTaskEach ==
    \A r, s \in Runners :
        runner[r].order = runner[s].order /\ runner[r].order \in Orders \ doubled => r = s

\* An order in a managed pool has a task that will move it back, unless a call
\* failed.
Attended ==
    \A o \in Orders \ failed : pool[o] \in PoolNames =>
        \E r \in Runners : runner[r].order = o /\ runner[r].pc \in {"waiting", "reassign"}

PoolInv ==
    /\ PoolTypeOK /\ KnownOrders /\ OneTaskEach /\ Attended /\ WaitersLive /\ WaitsInPool
    /\ \A r \in Runners : IsRouting(runner[r])

\* Every set of numbers that is not empty has a least one.
LEMMA SetHasLeast ==
    ASSUME NEW S \in SUBSET Nat, S # {}
    PROVE  \E i \in S : \A j \in S : i <= j
  <1>1. \E i \in S : \A j \in S : ~ (<<j, i>> \in OpToRel(<, Nat))
    BY NatLessThanWellFounded, WFMin
  <1>2. \A i, j \in S : j < i => <<j, i>> \in OpToRel(<, Nat)
    BY DEF OpToRel
  <1>3. PICK i \in S : \A j \in S : ~(j < i)
    BY <1>1, <1>2, Zenon
  <1>4. \A j \in S : i <= j
    BY <1>3
  <1> QED
    BY <1>4

\* select_managed_pool returns the first pool that fits.
LEMMA SelectsFirst ==
    ASSUME NEW o \in Orders, NEW v \in Values, SelectManagedPool(Ticker[o], v) # None
    PROVE  /\ SelectManagedPool(Ticker[o], v) \in PoolNames
           /\ \E i \in DOMAIN Pools :
                 Pools[i].name = SelectManagedPool(Ticker[o], v) /\ FitsFirst(i, o, v)
  <1> DEFINE ok == {i \in DOMAIN Pools : Eligible(Pools[i], Ticker[o], v)}
             i == CHOOSE i \in ok : \A j \in ok : i <= j
  <1>1. ok # {} /\ SelectManagedPool(Ticker[o], v) = Pools[i].name
    BY Zenon DEF SelectManagedPool
  <1>2. Len(Pools) \in Nat /\ DOMAIN Pools = 1..Len(Pools) /\ v \in Nat
    BY PoolAssumption
  <1>3. ok \in SUBSET Nat
    BY <1>2
  <1>4. \A j \in DOMAIN Pools : Fits(j, o, v) => j \in ok
    <2>1. \A j \in DOMAIN Pools : Pools[j].min \in Nat /\ Pools[j].max \in Nat \cup {None}
      BY PoolAssumption
    <2> QED
      BY <1>2, <2>1 DEF Fits, Eligible
  <1>5. \A j \in ok : Fits(j, o, v)
    <2>1. \A j \in DOMAIN Pools : Pools[j].min \in Nat /\ Pools[j].max \in Nat \cup {None}
      BY PoolAssumption
    <2> QED
      BY <1>2, <2>1 DEF Fits, Eligible
  <1>6. ok \subseteq DOMAIN Pools
    OBVIOUS
  <1> HIDE DEF ok
  <1>7. i \in ok /\ \A j \in ok : i <= j
    <2>1. \E k \in ok : \A j \in ok : k <= j
      BY <1>1, <1>3, SetHasLeast
    <2> QED
      BY <2>1
  <1> HIDE DEF i
  <1>8. \A j \in 1..(i - 1) : j \in DOMAIN Pools /\ j < i /\ j \notin ok
    BY <1>2, <1>6, <1>7
  <1>9. FitsFirst(i, o, v)
    BY <1>4, <1>5, <1>7, <1>8 DEF FitsFirst
  <1>10. i \in DOMAIN Pools
    BY <1>6, <1>7
  <1> QED
    BY <1>1, <1>9, <1>10 DEF PoolNames

\* Two states of a task at the same place.
Like(x, y) == x.pc = y.pc /\ x.order = y.order /\ x.to = y.to

\* A task whose channel closes or is filled, and one that moves on.
LEMMA TaskMoves ==
    ASSUME NEW x, IsRouting(x), x.pc # "free"
    PROVE  /\ \A rx \in {"open", "filled", "closed"} :
                 IsRouting([x EXCEPT !.rx = rx]) /\ Like([x EXCEPT !.rx = rx], x)
           /\ \A pc \in {"registered", "waiting", "reassign", "finish"} :
                 /\ IsRouting([x EXCEPT !.pc = pc]) /\ [x EXCEPT !.pc = pc].pc = pc
                 /\ [x EXCEPT !.pc = pc].order = x.order /\ [x EXCEPT !.pc = pc].to = x.to
                 /\ [x EXCEPT !.pc = pc].rx = x.rx
  <1>1. x \in RunnerRecords
    BY DEF IsRouting
  <1>2. ASSUME NEW rx \in {"open", "filled", "closed"}
        PROVE  IsRouting([x EXCEPT !.rx = rx]) /\ Like([x EXCEPT !.rx = rx], x)
    <2> DEFINE y == [x EXCEPT !.rx = rx]
    <2>1. /\ y \in RunnerRecords /\ y.pc = x.pc /\ y.order = x.order
          /\ y.to = x.to /\ y.value = x.value
      BY <1>1 DEF RunnerRecords
    <2> HIDE DEF y
    <2>2. IsRouting(y) /\ Like(y, x)
      BY <2>1 DEF IsRouting, Like
    <2> QED
      BY <2>2 DEF y
  <1>3. ASSUME NEW pc \in {"registered", "waiting", "reassign", "finish"}
        PROVE  /\ IsRouting([x EXCEPT !.pc = pc]) /\ [x EXCEPT !.pc = pc].pc = pc
               /\ [x EXCEPT !.pc = pc].order = x.order /\ [x EXCEPT !.pc = pc].to = x.to
               /\ [x EXCEPT !.pc = pc].rx = x.rx
    <2> DEFINE y == [x EXCEPT !.pc = pc]
    <2>1. /\ y \in RunnerRecords /\ y.pc = pc /\ y.order = x.order
          /\ y.to = x.to /\ y.value = x.value /\ y.rx = x.rx
      BY <1>1 DEF RunnerRecords
    <2> HIDE DEF y
    <2>2. IsRouting(y)
      BY <2>1 DEF IsRouting
    <2> QED
      BY <2>1, <2>2 DEF y
  <1> QED
    BY <1>2, <1>3

\* Closing the channel of the waiter of an order leaves every task in its place.
LEMMA CloseKeepsTasks ==
    ASSUME PoolInv, NEW o \in Orders
    PROVE  /\ CloseRx(runner, waiters[o]) \in [Runners -> RunnerRecords]
           /\ \A r \in Runners :
                 /\ IsRouting(CloseRx(runner, waiters[o])[r])
                 /\ Like(CloseRx(runner, waiters[o])[r], runner[r])
                 /\ r # waiters[o] => CloseRx(runner, waiters[o])[r] = runner[r]
  <1> DEFINE rs == CloseRx(runner, waiters[o])
  <1>1. /\ \A r \in Runners : IsRouting(runner[r])
        /\ waiters \in [Orders -> Runners \cup {None}] /\ WaitersLive
        /\ None \notin Orders /\ None \notin Runners
    BY PoolAssumption, Zenon DEF PoolInv, PoolTypeOK
  <1>2. ASSUME NEW r \in Runners
        PROVE  \/ rs[r] = runner[r]
               \/ r = waiters[o] /\ rs[r] = [runner[r] EXCEPT !.rx = "closed"]
    BY DEF CloseRx
  <1>3. waiters[o] \in Runners => runner[waiters[o]].pc # "free"
    BY <1>1 DEF WaitersLive, IsRouting, NoRunner
  <1>4. ASSUME NEW r \in Runners
        PROVE  IsRouting(rs[r]) /\ Like(rs[r], runner[r]) /\ (r # waiters[o] => rs[r] = runner[r])
    <2>1. CASE rs[r] = runner[r]
      BY <1>1, <2>1 DEF Like
    <2>2. CASE r = waiters[o] /\ rs[r] = [runner[r] EXCEPT !.rx = "closed"]
      <3>1. IsRouting(runner[r]) /\ runner[r].pc # "free"
        BY <1>1, <1>3, <2>2
      <3>2. IsRouting([runner[r] EXCEPT !.rx = "closed"])
              /\ Like([runner[r] EXCEPT !.rx = "closed"], runner[r])
        BY <3>1, TaskMoves, Zenon
      <3> QED
        BY <2>2, <3>2, Zenon
    <2> QED
      BY <1>2, <2>1, <2>2, Zenon
  <1>5. rs = [r \in Runners |-> rs[r]]
    BY DEF CloseRx
  <1> HIDE DEF rs
  <1>6. rs \in [Runners -> RunnerRecords]
    BY <1>4, <1>5 DEF IsRouting
  <1> QED
    BY <1>4, <1>6, Zenon DEF rs

\* A task that ends takes the order's waiter with it.
LEMMA TaskEnds ==
    ASSUME PoolInv, NEW r \in Runners, runner[r].pc # "free", RemoveWaiter(r, runner[r].order)
    PROVE  /\ runner' \in [Runners -> RunnerRecords] /\ runner'[r] = NoRunner
           /\ waiters' \in [Orders -> Runners \cup {None}]
           /\ \A s \in Runners : IsRouting(runner'[s]) /\ (s # r => Like(runner'[s], runner[s]))
           /\ WaitersLive'
  <1> DEFINE o == runner[r].order
             rs == CloseRx(runner, waiters[o])
  <1>1. /\ \A s \in Runners : IsRouting(runner[s])
        /\ waiters \in [Orders -> Runners \cup {None}] /\ WaitersLive
        /\ None \notin Orders /\ None \notin Runners
    BY PoolAssumption, Zenon DEF PoolInv, PoolTypeOK
  <1>2. o \in Orders
    BY <1>1, Zenon DEF IsRouting
  <1>3. waiters' = [waiters EXCEPT ![o] = None] /\ runner' = [rs EXCEPT ![r] = NoRunner]
    BY Zenon DEF RemoveWaiter
  <1>4. /\ rs \in [Runners -> RunnerRecords]
        /\ \A s \in Runners : /\ IsRouting(rs[s]) /\ Like(rs[s], runner[s])
                              /\ s # waiters[o] => rs[s] = runner[s]
    BY <1>2, CloseKeepsTasks, Zenon
  <1> HIDE DEF rs
  <1>5. IsRouting(NoRunner)
    BY Zenon DEF IsRouting, NoRunner, RunnerRecords
  <1>6. /\ runner' \in [Runners -> RunnerRecords] /\ runner'[r] = NoRunner
        /\ \A s \in Runners : s # r => runner'[s] = rs[s]
    BY <1>3, <1>4, <1>5, Zenon DEF IsRouting
  <1>7. \A s \in Runners : IsRouting(runner'[s]) /\ (s # r => Like(runner'[s], runner[s]))
    BY <1>4, <1>5, <1>6, Zenon
  <1>8. /\ waiters' \in [Orders -> Runners \cup {None}] /\ waiters'[o] = None
        /\ \A p \in Orders : p # o => waiters'[p] = waiters[p]
    BY <1>1, <1>2, <1>3, Zenon
  <1>9. ASSUME NEW p \in Orders, waiters'[p] # None
        PROVE  runner'[waiters'[p]].order = p /\ runner'[waiters'[p]].rx = "open"
    <2>1. p # o /\ waiters'[p] = waiters[p] /\ waiters[p] \in Runners
      BY <1>1, <1>8, <1>9, Zenon
    <2>2. runner[waiters[p]].order = p /\ runner[waiters[p]].rx = "open"
      BY <1>1, <1>9, <2>1, Zenon DEF WaitersLive
    <2>3. waiters[p] # r /\ waiters[p] # waiters[o]
      BY <1>1, <1>2, <2>1, <2>2 DEF WaitersLive
    <2>4. runner'[waiters[p]] = runner[waiters[p]]
      BY <1>4, <1>6, <2>1, <2>3, Zenon
    <2> QED
      BY <2>1, <2>2, <2>4, Zenon
  <1>10. WaitersLive'
    BY <1>9 DEF WaitersLive
  <1> QED
    BY <1>6, <1>7, <1>8, <1>10, Zenon

\* A step of a task that changes where it is and nothing else of any task.
LEMMA TaskSteps ==
    ASSUME PoolInv, NEW r \in Runners, runner[r].pc # "free",
           NEW c \in {"registered", "waiting", "reassign", "finish"},
           runner' = [runner EXCEPT ![r].pc = c], UNCHANGED <<waiters, doubled>>
    PROVE  /\ runner' \in [Runners -> RunnerRecords] /\ runner[r].order \in Orders
           /\ runner[r].to \in PoolNames
           /\ \A s \in Runners : /\ IsRouting(runner'[s])
                                 /\ runner'[s].order = runner[s].order
                                 /\ runner'[s].to = runner[s].to
                                 /\ s # r => runner'[s].pc = runner[s].pc
           /\ runner'[r].pc = c
           /\ OneTaskEach' /\ WaitersLive'
  <1>1. /\ \A s \in Runners : IsRouting(runner[s])
        /\ runner \in [Runners -> RunnerRecords]
        /\ OneTaskEach /\ WaitersLive
    BY Zenon DEF PoolInv, PoolTypeOK, RunnerRecords, UpdateRecords
  <1>2. runner' = [runner EXCEPT ![r] = [runner[r] EXCEPT !.pc = c]]
    BY <1>1 DEF RunnerRecords
  <1>3. /\ IsRouting([runner[r] EXCEPT !.pc = c]) /\ [runner[r] EXCEPT !.pc = c].pc = c
        /\ [runner[r] EXCEPT !.pc = c].order = runner[r].order
        /\ [runner[r] EXCEPT !.pc = c].to = runner[r].to
        /\ [runner[r] EXCEPT !.pc = c].rx = runner[r].rx
    <2>1. IsRouting(runner[r])
      BY <1>1
    <2> QED
      BY <2>1, TaskMoves
  <1> DEFINE y == [runner[r] EXCEPT !.pc = c]
  <1>4. /\ y \in RunnerRecords /\ IsRouting(y) /\ y.pc = c /\ y.order = runner[r].order
        /\ y.to = runner[r].to /\ y.rx = runner[r].rx
        /\ runner' = [runner EXCEPT ![r] = y]
    BY <1>2, <1>3, Zenon DEF IsRouting
  <1> HIDE DEF y
  <1>5. /\ runner' \in [Runners -> RunnerRecords] /\ runner'[r] = y
        /\ \A s \in Runners : s # r => runner'[s] = runner[s]
    BY <1>1, <1>4
  <1>6. \A s \in Runners : /\ IsRouting(runner'[s])
                           /\ runner'[s].order = runner[s].order
                           /\ runner'[s].to = runner[s].to
                           /\ runner'[s].rx = runner[s].rx
                           /\ s # r => runner'[s].pc = runner[s].pc
    BY <1>1, <1>4, <1>5, Zenon
  <1>7. runner[r].order \in Orders /\ runner[r].to \in PoolNames
    BY <1>1 DEF IsRouting
  <1>8. OneTaskEach'
    BY <1>1, <1>6 DEF OneTaskEach
  <1>9. WaitersLive'
    <2>1. \A o \in Orders : waiters[o] # None => waiters[o] \in Runners
      BY Zenon DEF PoolInv, PoolTypeOK
    <2> QED
      BY <1>1, <1>6, <2>1 DEF WaitersLive
  <1> QED
    BY <1>4, <1>5, <1>6, <1>7, <1>8, <1>9, Zenon

\* A step that moves no task and no order.
LEMMA QuietStep ==
    ASSUME PoolInv, PoolTypeOK', WaitersLive', KnownOrders',
           \A r \in Runners : IsRouting(runner'[r]) /\ Like(runner'[r], runner[r]),
           UNCHANGED <<pool, created, doubled, failed>>
    PROVE  PoolInv'
  <1>1. OneTaskEach'
    BY DEF PoolInv, OneTaskEach, Like
  <1>2. Attended'
    BY DEF PoolInv, Attended, Like
  <1>3. WaitsInPool'
    BY Zenon DEF PoolInv, WaitsInPool, Like
  <1> QED
    BY <1>1, <1>2, <1>3 DEF PoolInv

\* What the invariant says, with the tasks' records opaque.
LEMMA PoolFacts ==
    ASSUME PoolInv
    PROVE  /\ pool \in [Orders -> PoolNames \cup {Global, None}] /\ created \subseteq Orders
           /\ ws \in {"down", "subscribed", "up"}
           /\ inbox \in Seq(UpdateRecords)
           /\ drops \in 0..MaxDrops /\ spawned \in [Orders -> Nat]
           /\ runner \in [Runners -> RunnerRecords]
           /\ waiters \in [Orders -> Runners \cup {None}]
           /\ routed \subseteq Orders /\ doubled \subseteq Orders /\ failed \subseteq Orders
           /\ \A r \in Runners : IsRouting(runner[r])
           /\ KnownOrders /\ OneTaskEach /\ Attended /\ WaitersLive /\ WaitsInPool
           /\ None \notin Orders /\ None \notin Runners /\ Global \notin PoolNames
           /\ None \notin PoolNames /\ Global # None /\ MaxDrops \in Nat
  <1>1. /\ None \notin Orders /\ None \notin Runners /\ Global \notin PoolNames
        /\ None \notin PoolNames /\ Global # None /\ MaxDrops \in Nat
    BY PoolAssumption DEF PoolNames
  <1>2. PoolTypeOK
    BY DEF PoolInv
  <1> QED
    BY <1>1, <1>2, Zenon DEF PoolInv, PoolTypeOK, RunnerRecords, UpdateRecords

\* The relayer and the listener keep the invariant.
LEMMA ListenerStep ==
    ASSUME PoolInv,
           \/ \E o \in Orders : CreateOrder(o) \/ \E full \in BOOLEAN : FillOrder(o, full)
           \/ Listen \/ Drop
    PROVE  PoolInv'
  <1>e. <<>> \in Seq(UpdateRecords)
    OBVIOUS
  <1>a. /\ pool \in [Orders -> PoolNames \cup {Global, None}] /\ created \subseteq Orders
        /\ ws \in {"down", "subscribed", "up"} /\ inbox \in Seq(UpdateRecords)
        /\ drops \in 0..MaxDrops /\ spawned \in [Orders -> Nat]
        /\ runner \in [Runners -> RunnerRecords]
        /\ waiters \in [Orders -> Runners \cup {None}]
        /\ routed \subseteq Orders /\ doubled \subseteq Orders /\ failed \subseteq Orders
    BY PoolFacts, Zenon
  <1>b. \A t \in Runners : IsRouting(runner[t])
    BY PoolFacts
  <1>c. KnownOrders /\ OneTaskEach /\ Attended /\ WaitersLive /\ WaitsInPool
    BY PoolFacts
  <1>d. /\ None \notin Orders /\ None \notin Runners /\ Global \notin PoolNames
        /\ None \notin PoolNames /\ Global # None /\ MaxDrops \in Nat
    BY PoolFacts
  <1>k. ASSUME UNCHANGED <<runner, waiters>>
        PROVE  /\ WaitersLive'
               /\ \A r \in Runners : IsRouting(runner'[r]) /\ Like(runner'[r], runner[r])
    <2>1. runner' = runner /\ waiters' = waiters
      BY <1>k
    <2>2. WaitersLive'
      BY <1>c, <2>1, Zenon DEF WaitersLive
    <2>3. \A r \in Runners : IsRouting(runner'[r]) /\ Like(runner'[r], runner[r])
      BY <1>b, <1>d, <1>a, <2>1 DEF Like
    <2> QED
      BY <2>2, <2>3
  <1>p. ASSUME NEW o \in Orders, NEW type \in {"Created", "InternalFill"}, Publish(o, type)
        PROVE  /\ inbox' \in Seq(UpdateRecords)
               /\ \A i \in DOMAIN inbox' : inbox'[i].order \in created \cup {o}
    <2>1. [order |-> o, type |-> type] \in UpdateRecords
      BY DEF UpdateRecords
    <2>2. \A i \in DOMAIN inbox : inbox[i].order \in created
      BY <1>c DEF KnownOrders
    <2>3. CASE inbox' = inbox
      BY <1>a, <2>2, <2>3
    <2>4. CASE inbox' = Append(inbox, [order |-> o, type |-> type])
      <3>1. inbox' \in Seq(UpdateRecords)
        BY <1>a, <2>1, <2>4
      <3>2. \A i \in DOMAIN inbox' : inbox'[i] = [order |-> o, type |-> type]
                                      \/ (i \in DOMAIN inbox /\ inbox'[i] = inbox[i])
        BY <2>4
      <3> QED
        BY <2>2, <3>1, <3>2
    <2> QED
      BY <1>p, <2>3, <2>4, Zenon DEF Publish
  <1>1. ASSUME NEW o \in Orders, CreateOrder(o) PROVE PoolInv'
    <2>1. /\ o \notin created /\ created' = created \cup {o}
          /\ pool' = [pool EXCEPT ![o] = Global] /\ Publish(o, "Created")
          /\ UNCHANGED <<ws, drops, spawned, runner, waiters, routed, doubled, failed>>
      BY <1>1 DEF CreateOrder, history
    <2>2. PoolTypeOK'
      <3>1. /\ pool' \in [Orders -> PoolNames \cup {Global, None}] /\ created' \subseteq Orders
            /\ inbox' \in Seq(UpdateRecords)
        BY <1>a, <1>p, <2>1
      <3> QED
        BY <1>a, <2>1, <3>1, Zenon DEF PoolTypeOK, RunnerRecords, UpdateRecords
    <2>3. KnownOrders'
      BY <1>c, <1>p, <2>1 DEF KnownOrders
    <2>4. OneTaskEach'
      BY <1>c, <2>1, Zenon DEF OneTaskEach
    <2>5. Attended'
      BY <1>d, <1>a, <1>c, <2>1, Zenon DEF Attended
    <2>6. WaitsInPool'
      <3>1. \A r \in Runners : runner[r].pc = "waiting" => runner[r].order \in created
        BY <1>d, <1>a, <1>b, <1>c, Zenon DEF KnownOrders, IsRouting
      <3>2. \A p \in created : pool'[p] = pool[p]
        BY <2>1
      <3> QED
        BY <1>c, <2>1, <3>1, <3>2 DEF WaitsInPool
    <2> QED
      BY <1>k, <2>1, <2>2, <2>3, <2>4, <2>5, <2>6, Zenon DEF PoolInv
  <1>2. ASSUME NEW o \in Orders, NEW full \in BOOLEAN, FillOrder(o, full) PROVE PoolInv'
    <2>1. /\ pool[o] \in PoolNames /\ pool' \in {pool, [pool EXCEPT ![o] = None]}
          /\ Publish(o, "InternalFill")
          /\ UNCHANGED <<created, ws, drops, spawned, runner, waiters, routed, doubled, failed>>
      BY <1>2 DEF FillOrder, history
    <2>2. PoolTypeOK'
      <3>1. /\ pool' \in [Orders -> PoolNames \cup {Global, None}] /\ created' \subseteq Orders
            /\ inbox' \in Seq(UpdateRecords)
        BY <1>a, <1>p, <2>1, Zenon
      <3> QED
        BY <1>a, <2>1, <3>1, Zenon DEF PoolTypeOK, RunnerRecords, UpdateRecords
    <2>3. KnownOrders'
      <3>1. o \in created /\ \A p \in Orders : pool'[p] = pool[p] \/ pool'[p] = None
        BY <1>d, <1>a, <1>c, <2>1, Zenon DEF KnownOrders
      <3> QED
        BY <1>c, <1>p, <2>1, <3>1, Zenon DEF KnownOrders
    <2>4. OneTaskEach'
      BY <1>c, <2>1, Zenon DEF OneTaskEach
    <2>5. \A p \in Orders : pool'[p] = pool[p] \/ pool'[p] = None
      BY <1>a, <2>1, Zenon
    <2>6. Attended'
      BY <1>a, <1>c, <2>1, <2>5 DEF Attended
    <2>7. WaitsInPool'
      <3>1. \A r \in Runners : runner[r].pc = "waiting" => runner[r].order \in Orders
        BY <1>b, Zenon DEF IsRouting
      <3> QED
        BY <1>c, <2>1, <2>5, <3>1, Zenon DEF WaitsInPool
    <2> QED
      BY <1>k, <2>1, <2>2, <2>3, <2>4, <2>6, <2>7, Zenon DEF PoolInv
  <1>3. ASSUME Subscribe \/ ScanSkipped \/ Scan \/ Drop PROVE PoolInv'
    <2>1. /\ UNCHANGED <<pool, created, runner, waiters, routed, doubled, failed>>
          /\ ws' \in {"down", "subscribed", "up"}
      BY <1>3, Zenon DEF Subscribe, ScanSkipped, Scan, Drop, history
    <2>2. /\ inbox' \in {inbox, <<>>} /\ drops' \in 0..MaxDrops
      BY <1>d, <1>a, <1>3 DEF Subscribe, ScanSkipped, Scan, Drop
    <2>3. /\ spawned' \in [Orders -> Nat]
          /\ \A o \in Orders : spawned'[o] = spawned[o] \/ pool[o] = Global
      <3>1. CASE UNCHANGED spawned
        BY <1>a, <3>1
      <3>2. CASE Scan
        <4>1. spawned' = [o \in Orders |-> IF pool[o] = Global THEN spawned[o] + 1 ELSE spawned[o]]
          BY <3>2 DEF Scan
        <4> QED
          BY <1>a, <4>1
      <3> QED
        BY <1>3, <3>1, <3>2, Zenon DEF Subscribe, ScanSkipped, Drop
    <2>4. PoolTypeOK'
      <3>1. inbox' \in Seq(UpdateRecords)
        BY <1>a, <1>e, <2>2, Zenon
      <3> QED
        BY <1>a, <2>1, <2>2, <2>3, <3>1, Zenon DEF PoolTypeOK, RunnerRecords, UpdateRecords
    <2>5. KnownOrders'
      BY <1>d, <1>a, <1>c, <2>1, <2>2, <2>3 DEF KnownOrders
    <2> QED
      BY <1>k, <2>1, <2>4, <2>5, QuietStep
  <1>4. ASSUME HandleUpdate PROVE PoolInv'
    <2> DEFINE m == Head(inbox)
    <2>1. /\ inbox # <<>> /\ inbox' = Tail(inbox)
          /\ UNCHANGED <<pool, created, ws, drops, routed, doubled, failed>>
      BY <1>4 DEF HandleUpdate, history
    <2>2. /\ m.order \in created /\ m.order \in Orders
          /\ inbox' \in Seq(UpdateRecords)
          /\ \A i \in DOMAIN inbox' : inbox'[i].order \in created
      <3>1. 1 \in DOMAIN inbox /\ m = inbox[1]
        BY <2>1
      <3>2. inbox' \in Seq(UpdateRecords)
        BY <1>a, <2>1
      <3>3. \A i \in DOMAIN inbox' : i + 1 \in DOMAIN inbox /\ inbox'[i] = inbox[i + 1]
        BY <2>1
      <3> QED
        BY <1>a, <1>c, <3>1, <3>2, <3>3, Zenon DEF KnownOrders
    <2>3. CASE m.type = "InternalFill"
      <3>1. spawned' = spawned /\ Notify(m.order)
        BY <1>4, <2>3 DEF HandleUpdate
      <3> HIDE DEF m
      <3>2. /\ waiters' = [waiters EXCEPT ![m.order] = None]
            /\ \A r \in Runners : IF r = waiters[m.order]
                                    THEN runner'[r] = [runner[r] EXCEPT !.rx = "filled"]
                                    ELSE runner'[r] = runner[r]
            /\ runner' = [r \in Runners |-> runner'[r]]
        BY <3>1 DEF Notify
      <3>3. \A r \in Runners : IsRouting(runner'[r]) /\ Like(runner'[r], runner[r])
        <4> SUFFICES ASSUME NEW r \in Runners
                     PROVE  IsRouting(runner'[r]) /\ Like(runner'[r], runner[r])
          OBVIOUS
        <4>1. CASE r = waiters[m.order]
          <5>1. runner[r].order = m.order /\ runner'[r] = [runner[r] EXCEPT !.rx = "filled"]
            BY <1>d, <1>a, <1>c, <2>2, <3>2, <4>1, Zenon DEF WaitersLive
          <5>2. IsRouting(runner[r]) /\ runner[r].pc # "free"
            <6>1. IsRouting(runner[r]) /\ runner[r].order # None
              BY <1>b, <1>d, <1>a, <2>2, <5>1
            <6>2. NoRunner.order = None
              BY DEF NoRunner
            <6> QED
              BY <1>b, <6>1, <6>2, Zenon DEF IsRouting
          <5>3. IsRouting([runner[r] EXCEPT !.rx = "filled"])
                  /\ Like([runner[r] EXCEPT !.rx = "filled"], runner[r])
            BY <5>2, TaskMoves, Zenon
          <5> QED
            BY <5>1, <5>3
        <4>2. CASE r # waiters[m.order]
          BY <1>b, <1>d, <1>a, <3>2, <4>2, Zenon DEF Like
        <4> QED
          BY <4>1, <4>2
      <3>4. runner' \in [Runners -> RunnerRecords]
        BY <1>b, <3>2, <3>3, Zenon DEF IsRouting
      <3>5. waiters' \in [Orders -> Runners \cup {None}]
        BY <1>a, <2>2, <3>2
      <3>6. PoolTypeOK'
        BY <1>a, <2>1, <2>2, <3>1, <3>4, <3>5, Zenon DEF PoolTypeOK, RunnerRecords, UpdateRecords
      <3>7. WaitersLive'
        <4> SUFFICES ASSUME NEW p \in Orders, waiters'[p] # None
                     PROVE  runner'[waiters'[p]].order = p /\ runner'[waiters'[p]].rx = "open"
          BY <1>c, Zenon DEF WaitersLive
        <4>1. p # m.order /\ waiters'[p] = waiters[p] /\ waiters[p] \in Runners
          BY <1>a, <2>2, <3>2
        <4>2. runner[waiters[p]].order = p /\ runner[waiters[p]].rx = "open"
          BY <1>c, <4>1, Zenon DEF WaitersLive
        <4>3. waiters[p] # waiters[m.order]
          BY <1>c, <2>2, <4>1, <4>2, Zenon DEF WaitersLive
        <4>4. runner'[waiters[p]] = runner[waiters[p]]
          BY <3>2, <4>1, <4>3
        <4> QED
          BY <4>1, <4>2, <4>4, Zenon
      <3>8. KnownOrders'
        BY <1>c, <2>1, <2>2, <3>1, <3>3, Zenon DEF KnownOrders, Like
      <3> QED
        BY <2>1, <3>3, <3>6, <3>7, <3>8, QuietStep
    <2>4. CASE m.type # "InternalFill"
      <3>1. spawned' = [spawned EXCEPT ![m.order] = @ + 1] /\ UNCHANGED <<runner, waiters>>
        BY <1>4, <2>4, Zenon DEF HandleUpdate
      <3> HIDE DEF m
      <3>2. PoolTypeOK'
        <4>1. spawned' \in [Orders -> Nat]
          BY <1>a, <2>2, <3>1
        <4> QED
          BY <1>a, <2>1, <2>2, <3>1, <4>1, Zenon DEF PoolTypeOK, RunnerRecords, UpdateRecords
      <3>3. KnownOrders'
        BY <1>c, <2>1, <2>2, <3>1 DEF KnownOrders
      <3> QED
        BY <1>k, <2>1, <3>1, <3>2, <3>3, QuietStep, Zenon
    <2> QED
      BY <2>3, <2>4
  <1> QED
    BY <1>1, <1>2, <1>3, <1>4 DEF Listen, ScanFails

\* A task that ends leaves the others with their orders and their pools.
LEMMA EndKeepsTasks ==
    ASSUME PoolInv, NEW r \in Runners, runner[r].pc # "free", RemoveWaiter(r, runner[r].order),
           UNCHANGED <<created, ws, inbox, drops, spawned, routed, doubled>>,
           pool' \in [Orders -> PoolNames \cup {Global, None}], failed' \subseteq Orders,
           \A o \in Orders : /\ o # runner[r].order => pool'[o] = pool[o]
                             /\ pool'[o] # None => pool[o] # None,
           Attended'
    PROVE  PoolInv'
  <1>a. /\ pool \in [Orders -> PoolNames \cup {Global, None}] /\ created \subseteq Orders
        /\ ws \in {"down", "subscribed", "up"} /\ inbox \in Seq(UpdateRecords)
        /\ drops \in 0..MaxDrops /\ spawned \in [Orders -> Nat]
        /\ runner \in [Runners -> RunnerRecords]
        /\ waiters \in [Orders -> Runners \cup {None}]
        /\ routed \subseteq Orders /\ doubled \subseteq Orders /\ failed \subseteq Orders
    BY PoolFacts, Zenon
  <1>b. \A t \in Runners : IsRouting(runner[t])
    BY PoolFacts, Zenon
  <1>c. KnownOrders /\ OneTaskEach /\ Attended /\ WaitersLive /\ WaitsInPool
    BY PoolFacts, Zenon
  <1>d. /\ None \notin Orders /\ None \notin Runners /\ Global \notin PoolNames
        /\ None \notin PoolNames /\ Global # None /\ MaxDrops \in Nat
    BY PoolFacts, Zenon
  <1>1. /\ runner' \in [Runners -> RunnerRecords] /\ runner'[r] = NoRunner
        /\ waiters' \in [Orders -> Runners \cup {None}]
        /\ \A s \in Runners : IsRouting(runner'[s]) /\ (s # r => Like(runner'[s], runner[s]))
        /\ WaitersLive'
    BY TaskEnds, Zenon
  <1>2. NoRunner.order = None /\ NoRunner.pc = "free"
    BY Zenon DEF NoRunner
  <1>3. PoolTypeOK'
    BY <1>a, <1>1, Zenon DEF PoolTypeOK, RunnerRecords, UpdateRecords
  <1>4. \A s \in Runners :
           runner'[s].order # None => s # r /\ Like(runner'[s], runner[s])
    BY <1>1, <1>2, Zenon
  <1>5. KnownOrders'
    BY <1>c, <1>4, Zenon DEF KnownOrders, Like
  <1>6. OneTaskEach'
    <2>1. \A s \in Runners : runner'[s].order # None => runner'[s].order = runner[s].order
      BY <1>4, Zenon DEF Like
    <2> QED
      BY <1>b, <1>d, <1>a, <1>c, <2>1 DEF OneTaskEach
  <1>7. WaitsInPool'
    <2> SUFFICES ASSUME NEW s \in Runners, runner'[s].pc = "waiting",
                        runner'[s].order \notin doubled
                 PROVE  pool'[runner'[s].order] \in {runner'[s].to, None}
      BY <1>c, Zenon DEF WaitsInPool
    <2>1. s # r /\ Like(runner'[s], runner[s])
      BY <1>1, <1>2, Zenon
    <2>2. /\ runner[s].pc = "waiting" /\ runner[s].order \notin doubled
          /\ runner'[s].order = runner[s].order /\ runner'[s].to = runner[s].to
      BY <2>1, Zenon DEF Like
    <2>3. runner[s].order \in Orders /\ IsRouting(runner[s])
      BY <1>b, <2>2, Zenon DEF IsRouting
    <2>4. runner[s].order # runner[r].order
      BY <1>c, <2>1, <2>2, <2>3, Zenon DEF OneTaskEach
    <2> QED
      BY <1>c, <2>2, <2>3, <2>4 DEF WaitsInPool
  <1> QED
    BY <1>1, <1>3, <1>5, <1>6, <1>7, Zenon DEF PoolInv

\* The steps of a task that has begun keep the invariant.
LEMMA RunnerStep ==
    ASSUME PoolInv, NEW r \in Runners, RunnerWork(r)
    PROVE  PoolInv'
  <1> DEFINE o == runner[r].order
  <1>f. ASSUME AssignFails(r)
        PROVE  /\ runner[r].pc = "registered" /\ RemoveWaiter(r, o)
               /\ \/ UNCHANGED pool
                  \/ pool[o] # None /\ pool' = [pool EXCEPT ![o] = runner[r].to]
               /\ failed' = IF pool[o] = None THEN failed ELSE failed \cup {o}
               /\ UNCHANGED <<created, ws, inbox, drops, spawned, routed, doubled>>
    BY <1>f, Zenon DEF AssignFails
  <1>a. /\ pool \in [Orders -> PoolNames \cup {Global, None}] /\ created \subseteq Orders
        /\ ws \in {"down", "subscribed", "up"} /\ inbox \in Seq(UpdateRecords)
        /\ drops \in 0..MaxDrops /\ spawned \in [Orders -> Nat]
        /\ runner \in [Runners -> RunnerRecords]
        /\ waiters \in [Orders -> Runners \cup {None}]
        /\ routed \subseteq Orders /\ doubled \subseteq Orders /\ failed \subseteq Orders
    BY PoolFacts, Zenon
  <1>b. \A t \in Runners : IsRouting(runner[t])
    BY PoolFacts
  <1>c. KnownOrders /\ OneTaskEach /\ Attended /\ WaitersLive /\ WaitsInPool
    BY PoolFacts
  <1>d. /\ None \notin Orders /\ None \notin Runners /\ Global \notin PoolNames
        /\ None \notin PoolNames /\ Global # None /\ MaxDrops \in Nat
    BY PoolFacts
  <1>o. ASSUME runner[r].pc # "free" PROVE o \in Orders /\ runner[r].to \in PoolNames
    BY <1>b, <1>o DEF IsRouting
  <1>k. ASSUME NEW c \in {"registered", "waiting", "reassign", "finish"}, runner[r].pc # "free",
               runner' = [runner EXCEPT ![r].pc = c],
               UNCHANGED <<created, ws, inbox, drops, spawned, waiters, routed, doubled>>,
               pool' \in [Orders -> PoolNames \cup {Global, None}], failed' \subseteq Orders,
               \A p \in Orders : /\ p # o => pool'[p] = pool[p]
                                 /\ pool'[p] # None => pool[p] # None,
               c = "waiting" => pool'[o] \in {runner[r].to, None},
               Attended'
        PROVE  PoolInv'
    <2>1. /\ runner' \in [Runners -> RunnerRecords] /\ runner'[r].pc = c
          /\ \A s \in Runners : /\ IsRouting(runner'[s])
                                /\ runner'[s].order = runner[s].order
                                /\ runner'[s].to = runner[s].to
                                /\ s # r => runner'[s].pc = runner[s].pc
          /\ OneTaskEach' /\ WaitersLive'
      BY <1>k, TaskSteps, Zenon
    <2>2. PoolTypeOK'
      BY <1>a, <1>k, <2>1, Zenon DEF PoolTypeOK, RunnerRecords, UpdateRecords
    <2>3. KnownOrders'
      BY <1>c, <1>k, <2>1 DEF KnownOrders
    <2>4. WaitsInPool'
      <3> SUFFICES ASSUME NEW s \in Runners, runner'[s].pc = "waiting",
                          runner'[s].order \notin doubled
                   PROVE  pool'[runner'[s].order] \in {runner'[s].to, None}
        BY <1>c, <1>k, Zenon DEF WaitsInPool
      <3>1. CASE s = r
        BY <1>k, <2>1, <3>1, Zenon
      <3>2. CASE s # r
        <4>1. runner[s].pc = "waiting" /\ runner[s].order \notin doubled
          BY <2>1, <3>2
        <4>2. runner[s].order \in Orders
          BY <1>b, <4>1, Zenon DEF IsRouting
        <4>3. runner[s].order # o
          BY <1>c, <3>2, <4>1, <4>2 DEF OneTaskEach
        <4>4. pool[runner[s].order] \in {runner[s].to, None}
          BY <1>c, <4>1, Zenon DEF WaitsInPool
        <4> QED
          BY <1>k, <2>1, <4>2, <4>3, <4>4, Zenon
      <3> QED
        BY <3>1, <3>2, Zenon
    <2> QED
      BY <1>k, <2>1, <2>2, <2>3, <2>4, Zenon DEF PoolInv
  <1>1. CASE Assign(r)
    <2>1. /\ runner[r].pc = "registered" /\ pool[o] # None
          /\ pool' = [pool EXCEPT ![o] = runner[r].to]
          /\ runner' = [runner EXCEPT ![r].pc = "waiting"]
          /\ UNCHANGED <<created, ws, inbox, drops, spawned, waiters, routed, doubled, failed>>
      BY <1>1 DEF Assign, history
    <2>2. /\ pool' \in [Orders -> PoolNames \cup {Global, None}] /\ pool'[o] = runner[r].to
          /\ \A p \in Orders : p # o => pool'[p] = pool[p]
      BY <1>a, <1>o, <2>1, Zenon
    <2>3. Attended'
      <3>1. /\ runner'[r].pc = "waiting" /\ runner'[r].order = o
            /\ \A s \in Runners : runner'[s].order = runner[s].order
                                    /\ (s # r => runner'[s].pc = runner[s].pc)
        <4>1. runner[r].pc # "free" /\ UNCHANGED <<waiters, doubled>>
          BY <2>1
        <4> QED
          BY <2>1, <4>1, TaskSteps
      <3> QED
        BY <1>c, <2>1, <2>2, <3>1 DEF Attended
    <2> QED
      BY <1>a, <1>o, <1>k, <2>1, <2>2, <2>3, Zenon
  <1>2. CASE AssignFails(r)
    <2>1. /\ runner[r].pc = "registered" /\ RemoveWaiter(r, o)
          /\ \/ UNCHANGED pool
             \/ pool[o] # None /\ pool' = [pool EXCEPT ![o] = runner[r].to]
          /\ failed' = IF pool[o] = None THEN failed ELSE failed \cup {o}
          /\ UNCHANGED <<created, ws, inbox, drops, spawned, routed, doubled>>
      BY <1>2, <1>f, Zenon
    <2>2. /\ pool' \in [Orders -> PoolNames \cup {Global, None}] /\ failed' \subseteq Orders
          /\ \A p \in Orders : /\ p # o => pool'[p] = pool[p]
                               /\ pool'[p] # None => pool[p] # None
      BY <1>a, <1>o, <2>1, Zenon
    <2>3. Attended'
      <3>1. \A s \in Runners : s # r => Like(runner'[s], runner[s])
        BY <2>1, TaskEnds, Zenon
      <3>2. ASSUME NEW p \in Orders \ failed', pool'[p] \in PoolNames
            PROVE  p # o /\ p \notin failed /\ pool[p] \in PoolNames
        BY <1>d, <1>a, <1>o, <2>1, <2>2, <3>2, Zenon
      <3> QED
        BY <1>c, <3>1, <3>2 DEF Attended, Like
    <2> QED
      BY <2>1, <2>2, <2>3, EndKeepsTasks, Zenon
  <1>3. CASE Awaited(r)
    <2>1. /\ runner[r].pc = "waiting" /\ runner' = [runner EXCEPT ![r].pc = "reassign"]
          /\ UNCHANGED <<pool, created, ws, inbox, drops, spawned, waiters, routed, doubled, failed>>
      BY <1>3 DEF Awaited, history
    <2>2. Attended'
      <3>1. /\ runner'[r].pc = "reassign"
            /\ \A s \in Runners : runner'[s].order = runner[s].order
                                    /\ (s # r => runner'[s].pc = runner[s].pc)
        <4>1. runner[r].pc # "free" /\ UNCHANGED <<waiters, doubled>>
          BY <2>1
        <4> QED
          BY <2>1, <4>1, TaskSteps
      <3> QED
        BY <1>c, <2>1, <3>1 DEF Attended
    <2> QED
      BY <1>a, <1>k, <2>1, <2>2, Zenon
  <1>4. CASE Reassign(r)
    <2>1. /\ runner[r].pc = "reassign" /\ runner' = [runner EXCEPT ![r].pc = "finish"]
          /\ pool' = [pool EXCEPT ![o] = IF pool[o] = None THEN None ELSE Global]
          /\ UNCHANGED <<created, ws, inbox, drops, spawned, waiters, routed, doubled, failed>>
      BY <1>4 DEF Reassign, history
    <2>2. /\ pool' \in [Orders -> PoolNames \cup {Global, None}] /\ pool'[o] \notin PoolNames
          /\ \A p \in Orders : /\ p # o => pool'[p] = pool[p]
                               /\ pool'[p] # None => pool[p] # None
      BY <1>d, <1>a, <1>o, <2>1, Zenon
    <2>3. Attended'
      <3>1. \A s \in Runners : runner'[s].order = runner[s].order
                                    /\ (s # r => runner'[s].pc = runner[s].pc)
        <4>1. runner[r].pc # "free" /\ UNCHANGED <<waiters, doubled>>
          BY <2>1
        <4> QED
          BY <2>1, <4>1, TaskSteps, Zenon
      <3> QED
        BY <1>c, <2>1, <2>2, <3>1 DEF Attended
    <2> QED
      BY <1>a, <1>k, <2>1, <2>2, <2>3, Zenon
  <1>5. CASE ReassignFails(r)
    <2>1. /\ runner[r].pc = "reassign" /\ runner' = [runner EXCEPT ![r].pc = "finish"]
          /\ failed' = failed \cup {o}
          /\ UNCHANGED <<pool, created, ws, inbox, drops, spawned, waiters, routed, doubled>>
      BY <1>5 DEF ReassignFails
    <2>2. failed' \subseteq Orders
      BY <1>a, <1>o, <2>1
    <2>3. Attended'
      <3>1. \A s \in Runners : runner'[s].order = runner[s].order
                                    /\ (s # r => runner'[s].pc = runner[s].pc)
        <4>1. runner[r].pc # "free" /\ UNCHANGED <<waiters, doubled>>
          BY <2>1
        <4> QED
          BY <2>1, <4>1, TaskSteps, Zenon
      <3> QED
        BY <1>c, <2>1, <3>1 DEF Attended
    <2> QED
      BY <1>a, <1>k, <2>1, <2>2, <2>3, Zenon
  <1>6. CASE FinishRoute(r)
    <2>1. /\ runner[r].pc = "finish" /\ RemoveWaiter(r, o)
          /\ UNCHANGED <<pool, created, ws, inbox, drops, spawned, routed, doubled, failed>>
      BY <1>6 DEF FinishRoute, history
    <2>2. Attended'
      <3>1. \A s \in Runners : s # r => Like(runner'[s], runner[s])
        BY <2>1, TaskEnds, Zenon
      <3> QED
        <4>1. \A s \in Runners : s # r => runner'[s].order = runner[s].order
                                            /\ runner'[s].pc = runner[s].pc
          BY <3>1 DEF Like
        <4> SUFFICES ASSUME NEW p \in Orders \ failed, pool[p] \in PoolNames
                     PROVE  \E s \in Runners :
                              runner'[s].order = p /\ runner'[s].pc \in {"waiting", "reassign"}
          BY <1>c, <2>1 DEF Attended
        <4>2. PICK s \in Runners :
                 runner[s].order = p /\ runner[s].pc \in {"waiting", "reassign"}
          BY <1>c DEF Attended
        <4> QED
          BY <2>1, <4>1, <4>2, Zenon
    <2> QED
      BY <1>a, <2>1, <2>2, EndKeepsTasks, Zenon
  <1> QED
    BY <1>1, <1>2, <1>3, <1>4, <1>5, <1>6 DEF RunnerWork

\* A task that begins keeps the invariant.
LEMMA RouteStep ==
    ASSUME PoolInv, NEW r \in Runners, NEW o \in Orders, NEW v \in Values, Route(r, o, v)
    PROVE  PoolInv'
  <1> DEFINE p == SelectManagedPool(Ticker[o], v)
             rs == CloseRx(runner, waiters[o])
             y == [pc |-> "registered", order |-> o, to |-> p, value |-> v, rx |-> "open"]
  <1>1. /\ runner[r] = NoRunner /\ spawned[o] > 0
        /\ spawned' = [spawned EXCEPT ![o] = @ - 1] /\ routed' = routed \cup {o}
        /\ doubled' = IF Routing(o) = {} THEN doubled ELSE doubled \cup {o}
        /\ UNCHANGED <<pool, created, ws, inbox, drops, failed>>
    BY Zenon DEF Route
  <1>2. \/ p = None /\ UNCHANGED <<runner, waiters>>
        \/ /\ p # None /\ waiters' = [waiters EXCEPT ![o] = r]
           /\ runner' = [rs EXCEPT ![r] = y]
    BY Zenon DEF Route
  <1>3. p # None => IsRouting(y) /\ y.order = o /\ y.rx = "open" /\ y.pc = "registered"
    <2> SUFFICES ASSUME p # None PROVE IsRouting(y)
      BY Zenon
    <2>1. p \in PoolNames /\ \E i \in DOMAIN Pools : Pools[i].name = p /\ FitsFirst(i, o, v)
      BY SelectsFirst
    <2> HIDE DEF p
    <2>2. y \in RunnerRecords
      BY <2>1 DEF RunnerRecords
    <2> QED
      BY <2>1, <2>2 DEF IsRouting
  <1>4. /\ rs \in [Runners -> RunnerRecords]
        /\ \A s \in Runners : /\ IsRouting(rs[s]) /\ Like(rs[s], runner[s])
                              /\ s # waiters[o] => rs[s] = runner[s]
    BY CloseKeepsTasks, Zenon
  <1>5. NoRunner.order = None /\ NoRunner.pc = "free" /\ NoRunner.to = None
    BY DEF NoRunner
  <1>6. spawned' \in [Orders -> Nat] /\ \A q \in Orders : spawned'[q] > 0 => spawned[q] > 0
    <2>1. spawned \in [Orders -> Nat]
      BY PoolFacts
    <2> QED
      BY <1>1, <2>1
  <1>7. routed' \subseteq Orders /\ doubled' \subseteq Orders /\ doubled \subseteq doubled'
    BY <1>1, PoolFacts, Zenon
  <1>8. o \in created
    BY <1>1, PoolFacts, Zenon DEF KnownOrders
  <1>9. Routing(o) # {} => o \in doubled'
    BY <1>1
  <1> HIDE DEF p, rs, y
  <1>a. /\ pool \in [Orders -> PoolNames \cup {Global, None}] /\ created \subseteq Orders
        /\ ws \in {"down", "subscribed", "up"} /\ inbox \in Seq(UpdateRecords)
        /\ drops \in 0..MaxDrops /\ spawned \in [Orders -> Nat]
        /\ runner \in [Runners -> RunnerRecords]
        /\ waiters \in [Orders -> Runners \cup {None}]
        /\ routed \subseteq Orders /\ doubled \subseteq Orders /\ failed \subseteq Orders
    BY PoolFacts, Zenon
  <1>b. \A t \in Runners : IsRouting(runner[t])
    BY PoolFacts
  <1>c. KnownOrders /\ OneTaskEach /\ Attended /\ WaitersLive /\ WaitsInPool
    BY PoolFacts
  <1>d. /\ None \notin Orders /\ None \notin Runners /\ Global \notin PoolNames
        /\ None \notin PoolNames /\ Global # None /\ MaxDrops \in Nat
    BY PoolFacts
  <1>10. CASE p = None /\ UNCHANGED <<runner, waiters>>
    <2>1. PoolTypeOK'
      BY <1>a, <1>1, <1>6, <1>7, <1>10, Zenon DEF PoolTypeOK, RunnerRecords, UpdateRecords
    <2>2. KnownOrders'
      BY <1>c, <1>1, <1>6, <1>10, Zenon DEF KnownOrders
    <2>3. OneTaskEach'
      BY <1>c, <1>7, <1>10 DEF OneTaskEach
    <2>4. Attended' /\ WaitersLive'
      BY <1>c, <1>1, <1>10, Zenon DEF Attended, WaitersLive
    <2>5. WaitsInPool'
      BY <1>c, <1>1, <1>7, <1>10, Zenon DEF WaitsInPool
    <2> QED
      BY <1>10, <2>1, <2>2, <2>3, <2>4, <2>5 DEF PoolInv
  <1>11. CASE p # None /\ waiters' = [waiters EXCEPT ![o] = r] /\ runner' = [rs EXCEPT ![r] = y]
    <2>1. IsRouting(y) /\ y \in RunnerRecords /\ y.order = o /\ y.rx = "open" /\ y.pc = "registered"
      BY <1>b, <1>3, <1>11, Zenon DEF IsRouting
    <2>2. /\ runner' \in [Runners -> RunnerRecords] /\ runner'[r] = y
          /\ \A s \in Runners : s # r => runner'[s] = rs[s]
      BY <1>4, <1>11, <2>1
    <2>3. \A s \in Runners : /\ IsRouting(runner'[s])
                             /\ s # r => /\ runner'[s].order = runner[s].order
                                         /\ runner'[s].pc = runner[s].pc
                                         /\ runner'[s].to = runner[s].to
      BY <1>4, <2>1, <2>2 DEF Like
    <2>4. /\ waiters' \in [Orders -> Runners \cup {None}] /\ waiters'[o] = r
          /\ \A q \in Orders : q # o => waiters'[q] = waiters[q]
      BY <1>a, <1>11
    <2>5. PoolTypeOK'
      BY <1>a, <1>1, <1>6, <1>7, <2>2, <2>4, Zenon DEF PoolTypeOK, RunnerRecords, UpdateRecords
    <2>6. KnownOrders'
      BY <1>c, <1>1, <1>6, <1>8, <2>1, <2>2, <2>3, Zenon DEF KnownOrders
    <2>7. OneTaskEach'
      <3> SUFFICES ASSUME NEW s \in Runners, NEW t \in Runners,
                          runner'[s].order = runner'[t].order,
                          runner'[s].order \in Orders \ doubled'
                   PROVE  s = t
        BY <1>c DEF OneTaskEach
      <3>1. \A u \in Runners : u # r /\ runner'[u].order = o => o \in doubled'
        BY <1>9, <2>3 DEF Routing
      <3>2. s # r /\ t # r => s = t
        BY <1>c, <1>7, <2>3 DEF OneTaskEach
      <3> QED
        BY <2>1, <2>2, <3>1, <3>2
    <2>8. Attended'
      <3> SUFFICES ASSUME NEW q \in Orders \ failed, pool[q] \in PoolNames
                   PROVE  \E s \in Runners :
                            runner'[s].order = q /\ runner'[s].pc \in {"waiting", "reassign"}
        BY <1>c, <1>1 DEF Attended
      <3>1. PICK s \in Runners :
               runner[s].order = q /\ runner[s].pc \in {"waiting", "reassign"}
        BY <1>c DEF Attended
      <3>2. s # r
        BY <1>1, <1>5, <3>1
      <3> QED
        BY <2>3, <3>1, <3>2
    <2>9. WaitersLive'
      <3> SUFFICES ASSUME NEW q \in Orders, waiters'[q] # None
                   PROVE  runner'[waiters'[q]].order = q /\ runner'[waiters'[q]].rx = "open"
        BY <1>c, Zenon DEF WaitersLive
      <3>1. CASE q = o
        BY <2>1, <2>2, <2>4, <3>1
      <3>2. CASE q # o
        <4>1. waiters'[q] = waiters[q] /\ waiters[q] \in Runners
          BY <2>4, <3>2
        <4>2. runner[waiters[q]].order = q /\ runner[waiters[q]].rx = "open"
          BY <1>c, <4>1, Zenon DEF WaitersLive
        <4>3. waiters[q] # r
          BY <1>d, <1>a, <1>1, <1>5, <4>2, Zenon
        <4>4. waiters[q] # waiters[o]
          BY <1>c, <3>2, <4>1, <4>2, Zenon DEF WaitersLive
        <4>5. runner'[waiters[q]] = runner[waiters[q]]
          BY <1>4, <2>2, <4>1, <4>3, <4>4
        <4> QED
          BY <4>1, <4>2, <4>5, Zenon
      <3> QED
        BY <3>1, <3>2, Zenon
    <2>10. WaitsInPool'
      <3> SUFFICES ASSUME NEW s \in Runners, runner'[s].pc = "waiting",
                          runner'[s].order \notin doubled'
                   PROVE  pool[runner'[s].order] \in {runner'[s].to, None}
        BY <1>c, <1>1, Zenon DEF WaitsInPool
      <3>1. s # r
        BY <2>1, <2>2
      <3> QED
        BY <1>c, <1>7, <2>3, <3>1, Zenon DEF WaitsInPool
    <2> QED
      BY <2>3, <2>5, <2>6, <2>7, <2>8, <2>9, <2>10 DEF PoolInv
  <1> QED
    BY <1>2, <1>10, <1>11

\* Every step of the pool runner keeps the invariant.
LEMMA PoolStep ==
    ASSUME PoolInv, [PoolNext]_poolVars
    PROVE  PoolInv'
  <1>1. CASE PoolNext
    BY <1>1, ListenerStep, RunnerStep, RouteStep DEF PoolNext
  <1>2. CASE UNCHANGED poolVars
    <2>1. UNCHANGED <<pool, created, ws, inbox, drops, spawned, runner, waiters, routed,
                      doubled, failed>>
      BY <1>2 DEF poolVars, history
    <2>2. PoolTypeOK' /\ KnownOrders'
      BY <2>1, Zenon DEF PoolInv, PoolTypeOK, KnownOrders
    <2>3. OneTaskEach' /\ Attended' /\ WaitersLive' /\ WaitsInPool'
      BY <2>1 DEF PoolInv, OneTaskEach, Attended, WaitersLive, WaitsInPool
    <2> QED
      BY <2>1, <2>2, <2>3 DEF PoolInv
  <1> QED
    BY <1>1, <1>2

\* The runner starts with no order and no task.
LEMMA PoolStart ==
    ASSUME PoolInit
    PROVE  PoolInv
  <1>1. IsRouting(NoRunner)
    BY DEF IsRouting, NoRunner, RunnerRecords
  <1>2. \A r \in Runners : runner[r] = NoRunner /\ IsRouting(runner[r])
    BY <1>1 DEF PoolInit
  <1>3. PoolTypeOK
    <2>1. runner \in [Runners -> RunnerRecords] /\ <<>> \in Seq(UpdateRecords)
      BY <1>1 DEF PoolInit, IsRouting
    <2>2. MaxDrops \in Nat
      BY PoolAssumption
    <2> QED
      BY <2>1, <2>2 DEF PoolInit, PoolTypeOK, RunnerRecords, UpdateRecords
  <1>4. NoRunner.order = None /\ NoRunner.pc = "free" /\ None \notin Orders /\ None \notin PoolNames
    BY PoolAssumption DEF NoRunner, PoolNames
  <1>5. KnownOrders /\ OneTaskEach /\ Attended /\ WaitersLive /\ WaitsInPool
    BY <1>2, <1>4 DEF PoolInit, KnownOrders, OneTaskEach, Attended, WaitersLive, WaitsInPool
  <1> QED
    BY <1>2, <1>3, <1>5 DEF PoolInv

\* For any orders, pools, tasks and faults: an order is in the first managed pool
\* that fits it while its task waits for a fill, it is not left there when no task
\* works on it, and no fill waiter outlives its task (route_order, run_order_task,
\* FillWaiterRegistry).
THEOREM OrdersComeBack == PoolSpec => []PoolAssignment
  <1>1. PoolInit => PoolInv
    BY PoolStart
  <1>2. PoolInv /\ [PoolNext]_poolVars => PoolInv'
    BY PoolStep
  <1>3. PoolInv => PoolAssignment
    <2> SUFFICES ASSUME PoolInv PROVE PoolAssignment
      OBVIOUS
    <2>1. NotStranded
      BY DEF PoolInv, Attended, NotStranded, Routing
    <2>2. FirstPoolThatFits
      BY Zenon DEF PoolInv, IsRouting, FirstPoolThatFits
    <2> QED
      BY <2>1, <2>2 DEF PoolInv, PoolAssignment
  <1> QED
    BY <1>1, <1>2, <1>3, PTL DEF PoolSpec
===========================================================================
