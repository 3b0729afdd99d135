-------------------------- MODULE MCOrderServices --------------------------
(***************************************************************************)
(* The services around orders, for TLC: the pool runner, the UniswapX      *)
(* solver, the compliance server, the indexer and the prover service.      *)
(* They share no state: a behaviour picks one part and the others stay in  *)
(* an initial state, so one run checks each part as if it were alone.      *)
(***************************************************************************)
EXTENDS IndexerQueue, Compliance, ProverService, PoolRunner

CONSTANTS Parts, r1, r2, r3, t1, t2

VARIABLES
    part,
    book, terms, cache, batch, running, tries, outcome,
    regQueue, regFlight, regTask, regSeeds, regLate

-----------------------------------------------------------------------------
\* Two pools with overlapping bands: the second takes what the first leaves.
TwoPools ==
    <<[name |-> "small", tickers |-> {"ETH"}, min |-> 1, max |-> 2],
      [name |-> "large", tickers |-> {"ETH", "BTC"}, min |-> 2, max |-> None]>>

TickerOf == [o1 |-> "ETH", o2 |-> "BTC"]

\* One order whose calls fail; two orders that one task at a time routes; and one
\* order that the scan and the stream both report.
Pooled == INSTANCE PoolRunner
    WITH Orders <- {"o1", "o2"}, Values <- {0, 2}, PoolFaults <- FALSE

\* The second task stays free where there are two orders.
OneTask == runner'[r2] = runner[r2]

Doubled == INSTANCE PoolRunner WITH PoolFaults <- FALSE, Twice <- TRUE

-----------------------------------------------------------------------------
Order(i, o, n, ia, oa, ir, or) ==
    [in |-> i, out |-> o, outputs |-> n, inAmt |-> ia, outAmt |-> oa, inRate |-> ir, outRate |-> or]

Plain == {Order("weth", "usdc", 1, 2, 6, 0, 1)}

Tokens == {"weth", "usdc", "other"}
Amounts == {1, 3, 7, 12}

\* All pairs, numbers of outputs, amounts and rates.
AllTerms ==
    {Order(i, o, n, ia, oa, ir, or) :
       i \in Tokens, o \in Tokens, n \in 0..2, ia \in Amounts, oa \in Amounts, ir \in 0..2, or \in 0..2}

\* Three orders that fit in the cache, and three that do not.
Roomy == INSTANCE OrderSolver
    WITH Orders <- {"o1", "o2", "o3"}, Terms <- Plain, Prices <- {3}, CacheSize <- 3,
         Mps <- 20, MaxWord <- 255, MaxTries <- 2, Closes <- TRUE

Crowded == INSTANCE OrderSolver
    WITH Orders <- {"o1", "o2", "o3"}, Terms <- Plain, Prices <- {3}, CacheSize <- 2,
         Mps <- 20, MaxWord <- 255, MaxTries <- 2, Closes <- FALSE

\* One order of any terms at any price.
Scaled == INSTANCE OrderSolver
    WITH Orders <- {"o1"}, Terms <- AllTerms, Prices <- 1..8, CacheSize <- 1,
         Mps <- 20, MaxWord <- 255, MaxTries <- 2, Closes <- FALSE

-----------------------------------------------------------------------------
\* Two requests for one wallet while entries expire and calls fail; and three
\* requests with one thread and one connection.
Threads == INSTANCE Compliance
    WITH Requests <- {r1, r2, r3}, Workers <- 1, PoolSize <- 1, MaxTime <- 0, Calm <- TRUE

-----------------------------------------------------------------------------
Msg(id, kind, account) == [id |-> id, kind |-> kind, account |-> account]

\* Spends mixed with registrations, an account registered in both groups, and
\* tasks that outlive the visibility timeout.
Mixed ==
    [g1 |-> <<Msg(1, "seed", "a"), Msg(2, "spend", "-"), Msg(3, "seed", "b")>>,
     g2 |-> <<Msg(4, "seed", "b"), Msg(5, "seed", "c")>>]

\* Registrations behind a message that does not parse and one without a body.
Registrations ==
    [g1 |-> <<Msg(1, "garbage", "-"), Msg(2, "seed", "a"), Msg(3, "seed", "b")>>,
     g2 |-> <<Msg(4, "empty", "-"), Msg(5, "seed", "c")>>]

Registering == INSTANCE IndexerQueue
    WITH Sent <- Registrations, DelFails <- FALSE, Slow <- FALSE, queue <- regQueue,
         flight <- regFlight, task <- regTask, seeds <- regSeeds, late <- regLate

-----------------------------------------------------------------------------
\* One request of any route and input; and two settlements on two threads, whose
\* provers fail and whose clients go away.
Settling == INSTANCE ProverService
    WITH Calls <- {r1, r2}, Routes <- {"only", "public"}, Inputs <- {"invalid", "valid"}

-----------------------------------------------------------------------------
solverVars == <<book, terms, cache, batch, running, tries, outcome>>
registerVars == <<regQueue, regFlight, regTask, regSeeds, regLate>>
vars == <<part, poolVars, solverVars, complianceVars, indexerVars, registerVars, proverVars>>

Init ==
    /\ part \in Parts
    /\ IF part = "pooled" THEN Pooled!PoolInit ELSE PoolInit
    /\ IF part = "scaled" THEN Scaled!Init ELSE Roomy!Init
    /\ IF part = "threads" THEN Threads!ComplianceInit ELSE ComplianceInit
    /\ IndexerInit
    /\ Registering!IndexerInit
    /\ IF part = "settling" THEN Settling!ProverInit ELSE ProverInit

\* A step of one part.
OfPool(p, A) ==
    part = p /\ A /\ UNCHANGED <<part, solverVars, complianceVars, indexerVars, registerVars, proverVars>>
OfSolver(p, A) ==
    part = p /\ A /\ UNCHANGED <<part, poolVars, complianceVars, indexerVars, registerVars, proverVars>>
OfCompliance(p, A) ==
    part = p /\ A /\ UNCHANGED <<part, poolVars, solverVars, indexerVars, registerVars, proverVars>>
OfIndexer(p, A) ==
    part = p /\ A /\ UNCHANGED <<part, poolVars, solverVars, complianceVars, registerVars, proverVars>>
OfRegister(p, A) ==
    part = p /\ A /\ UNCHANGED <<part, poolVars, solverVars, complianceVars, indexerVars, proverVars>>
OfProver(p, A) ==
    part = p /\ A /\ UNCHANGED <<part, poolVars, solverVars, complianceVars, indexerVars, registerVars>>

Next ==
    \/ OfPool("pooled", Pooled!PoolNext /\ OneTask)
    \/ OfPool("doubled", Doubled!PoolNext)
    \/ OfPool("faulty", PoolNext)
    \/ OfSolver("roomy", Roomy!Next)
    \/ OfSolver("crowded", Crowded!Next)
    \/ OfSolver("scaled", Scaled!Next)
    \/ OfCompliance("verdicts", ComplianceNext)
    \/ OfCompliance("threads", Threads!ComplianceNext)
    \/ OfRegister("registering", Registering!IndexerNext)
    \/ OfIndexer("redelivered", IndexerNext)
    \/ OfProver("proving", ProverNext)
    \/ OfProver("settling", Settling!ProverNext)

\* The listener reconnects for ever and the runtime runs spawned tasks; the
\* solver's requests succeed again and again; a runnable request gets a thread,
\* the assessor answers and a wait for a connection ends; the consumer polls for
\* ever, and a registration that is tried again and again succeeds in the end;
\* a free blocking thread takes a job, a prover ends and its handler is polled.
\* Only one part ever moves, so each condition speaks of an action of every part.
Fairness ==
    /\ WF_vars(\/ OfPool("pooled", Pooled!Listen)
               \/ OfSolver("roomy", Roomy!Spawn)
               \/ OfCompliance("threads", Threads!Wait(r1))
               \/ OfRegister("registering", Registering!Expire("g1"))
               \/ OfProver("settling", Settling!Start))
    /\ WF_vars(\/ OfPool("pooled", Pooled!RunnerWork(r1))
               \/ OfCompliance("threads", Threads!Wait(r2))
               \/ OfRegister("registering", Registering!Expire("g2"))
               \/ OfProver("settling", Settling!Finishes))
    /\ WF_vars(\/ OfPool("pooled", \E v \in {0, 2} : Pooled!Route(r1, "o1", v))
               \/ OfCompliance("threads", Threads!Wait(r3))
               \/ OfRegister("registering", Registering!Step(t1))
               \/ OfProver("settling", Settling!Handles))
    /\ WF_vars(\/ OfPool("pooled", \E v \in {0, 2} : Pooled!Route(r1, "o2", v))
               \/ OfRegister("registering", Registering!Step(t2)))
    /\ SF_vars(\/ OfSolver("roomy", Roomy!Fetch)
               \/ OfCompliance("threads", Threads!Proceed(r1))
               \/ OfRegister("registering", Registering!ReceiveMessages("g1")))
    /\ SF_vars(\/ OfCompliance("threads", Threads!Proceed(r2))
               \/ OfRegister("registering", Registering!ReceiveMessages("g2")))
    /\ SF_vars(\/ OfCompliance("threads", Threads!Proceed(r3))
               \/ OfRegister("registering", Registering!Succeeds(t1)))
    /\ SF_vars(OfRegister("registering", Registering!Succeeds(t2)))

Spec == Init /\ [][Next]_vars /\ Fairness

-----------------------------------------------------------------------------
\* The solver handles a listed order once while the cache has room, and again only
\* after the cache filled with others.  It asks Renegade only for pairs with USDC, on
\* amounts that favour the swapper by no more than the order's rates times the
\* improvement of Renegade's price.  Where the rates are at most one and the price is
\* an improvement, what Renegade is asked for is worth its price, but for a sell that
\* scales its input, which falls short by the square of the improvement; with higher
\* rates, or no improvement, the code promises without such cover.
SolverPromises ==
    /\ part = "roomy" => Roomy!TypeOK /\ Roomy!SolvedOnce
    /\ part = "crowded" => Crowded!TypeOK /\ Crowded!RetriedOnlyWhenCrowded
    /\ part = "scaled" => /\ Scaled!AsksForUsdcPairs /\ Scaled!ScalingFavoursSwapper
                          /\ Scaled!NoOverPromise /\ Scaled!WorthThePrice

\* What a client of each part asked for, and what it is owed.
Asked(o) ==
    \/ part = "pooled" /\ o \in created
    \/ part = "roomy" /\ book[o] = "open"
    \/ part = "threads" /\ req[r1].pc = "arrived"
    \/ part = "registering"
    \/ part = "settling" /\ call[r1].pc = "proving"

Served(o) ==
    \/ part = "pooled" /\ o \in routed /\ pool[o] \in {"global", None}
    \/ part = "roomy" /\ (tries[o] > 0 \/ book[o] = "closed")
    \/ part = "threads" /\ req[r1].pc \in {"done", "failed"}
    \/ part = "registering" /\ {"a", "b", "c"} \subseteq regSeeds
    \/ part = "settling" /\ call[r1].pc \in {"answered", "gone"}

\* Every order is taken up although the websocket drops, and one put into a
\* managed pool comes back or is closed; every listed order is tried; every
\* compliance request is answered although the thread may wait for a connection
\* whose holder waits for the thread; every registration is carried out; and
\* every proof is answered although jobs that nobody awaits hold the threads.
OrdersServed == \A o \in {"o1", "o2"} : Asked(o) ~> Served(o)
=============================================================================
