------------------------------- MODULE MCSwaps -------------------------------
(***************************************************************************)
(* The execution client of the funds manager and the handlers that use it, *)
(* for TLC: the decaying swap, the swaps that cover a token and refill the *)
(* gas sponsors, and the cost a swap is answered and recorded with; and    *)
(* the gas wallet pool with overlapping requests.  The parts share no      *)
(* state: a behaviour picks one part and the others stay in an initial     *)
(* state, so one run checks each part as if it were alone.                 *)
(***************************************************************************)
EXTENDS WalletHistory, Integers, Sequences, TLC

CONSTANTS Parts, r1, r2, None, w2, p1, g1, g2

VARIABLES
    part,
    pc, venue, asked, raise, amount, multiplier, excluded, swaps, gas, quotes, quote,
    result, paid, sold, unseen, live, tried,
    wallet, reserve, gasEther, ether, req,
    price, moves, costReq, executed, gauge,
    clock, step, attempt, quoted, since, spendable, order, answer

-----------------------------------------------------------------------------
(* WalletHistory *)

\* One wallet that a registration and a report contend for, for two peers; the same
\* for one peer while the admin sets statuses; two wallets and one peer; and two
\* registrations of one peer.
Manual == INSTANCE WalletHistory WITH Peers <- {p1}, Admin <- TRUE
Owning == INSTANCE WalletHistory WITH Peers <- {p1}
Doubled == INSTANCE WalletHistory WITH Peers <- {p1}, Registers <- {g1, g2}, Reports <- {}

OneWallet == gasWallets'[w2] = NoRow

-----------------------------------------------------------------------------
(* SwapDecay *)

\* Sales by all venues or as an order, purchases by each kind of venue, and
\* sales whose attempts may execute after they were given up on, from a wallet
\* that holds enough for several of them.
Sell == INSTANCE SwapDecay
    WITH Exchanges <- {"sushi"}, Routes <- <<"jam", "pmm">>, Venues <- {"any", "cowswap"},
         Cowswap <- "cow", IsSell <- TRUE, Amounts <- {5}, Balance <- 12, MinSwap <- 2,
         Reference <- 100, Prices <- {98, 105}, Tolerance <- 1, MaxSwaps <- 2, Late <- FALSE

Buy == INSTANCE SwapDecay
    WITH Exchanges <- {"sushi"}, Routes <- <<"jam", "pmm">>, Venues <- {"any", "lifi", "bebop"},
         Cowswap <- "cow", IsSell <- FALSE, Amounts <- {4}, Balance <- 4, MinSwap <- 2,
         Reference <- 100, Prices <- {98, 100, 101}, Tolerance <- 1, MaxSwaps <- 2, Late <- FALSE

Retry == INSTANCE SwapDecay
    WITH Exchanges <- {"sushi"}, Routes <- <<"jam", "pmm">>, Venues <- {"any", "cowswap"},
         Cowswap <- "cow", IsSell <- TRUE, Amounts <- {4}, Balance <- 12, MinSwap <- 2,
         Reference <- 100, Prices <- {100}, Tolerance <- 1, MaxSwaps <- 2, Late <- TRUE

-----------------------------------------------------------------------------
(* SponsorRefill: amounts are dollars, and a price is dollars per unit *)

TokenPrice == ("usdc" :> 1) @@ ("weth" :> 10) @@ ("arb" :> 2)

\* Two sponsors without faults, one sponsor with faults, and a swap request.
Refill == INSTANCE SponsorRefill
    WITH Requests <- {"r1"}, Kind <- ("r1" :> "refill"), Sponsors <- <<"v1", "v2">>,
         Tokens <- <<"usdc", "weth", "arb">>, USDC <- "usdc", Price <- TokenPrice,
         Held <- {0, 60}, Reserves <- {20, 50}, Targets <- {}, Ether <- {70},
         Desired <- 50, MinValue <- 10, Faults <- FALSE

Faulty == INSTANCE SponsorRefill
    WITH Requests <- {"r1"}, Kind <- ("r1" :> "refill"), Sponsors <- <<"v1">>,
         Tokens <- <<"usdc", "weth", "arb">>, USDC <- "usdc", Price <- TokenPrice,
         Held <- {0, 60}, Reserves <- {0, 50}, Targets <- {}, Ether <- {70},
         Desired <- 50, MinValue <- 10, Faults <- TRUE

Cover == INSTANCE SponsorRefill
    WITH Requests <- {"r1"}, Kind <- ("r1" :> "swap"), Sponsors <- <<"v1">>,
         Tokens <- <<"usdc", "weth", "arb">>, USDC <- "usdc", Price <- TokenPrice,
         Held <- {0, 30, 60}, Reserves <- {50}, Targets <- {20, 100}, Ether <- {70},
         Desired <- 50, MinValue <- 10, Faults <- TRUE

-----------------------------------------------------------------------------
(* SwapCost *)

Log(usdc, darkpool, value) == [usdc |-> usdc, darkpool |-> darkpool, value |-> value]

\* At a reference price of 1: a sale for less than the price gives and one for more
\* than the threshold allows, a purchase at a loss, and one of nothing.
Sale(bought) ==
    [asset |-> "wbtc", sell |-> TRUE, sold |-> 20, bought |-> bought, gas |-> 1,
     logs |-> <<Log(TRUE, TRUE, bought), Log(TRUE, FALSE, 3), Log(FALSE, TRUE, 5)>>]

Purchase(given, bought) ==
    [asset |-> "weth", sell |-> FALSE, sold |-> given, bought |-> bought,
     gas |-> 2, logs |-> <<>>]

\* Requests of up to two swaps one at a time, and overlapping requests at prices
\* that may be zero.
OneByOne == INSTANCE SwapCost
    WITH req <- costReq, Requests <- {r1, r2}, Kinds <- {"immediate", "target"},
         Outcomes <- {Sale(19), Purchase(21, 20)}, Assets <- {"wbtc", "weth"}, Weth <- "weth",
         Prices <- {1, 2}, Spread20 <- 20, MaxSwaps <- 2, MaxMoves <- 0, Overlap <- FALSE

Overlapping == INSTANCE SwapCost
    WITH req <- costReq, Requests <- {r1, r2}, Kinds <- {"immediate"},
         Outcomes <- {Sale(19), Sale(22), Purchase(20, 0)}, Assets <- {"wbtc", "weth"},
         Weth <- "weth", Prices <- {0, 1}, Spread20 <- 20, MaxSwaps <- 1, MaxMoves <- 1, Overlap <- TRUE

-----------------------------------------------------------------------------
(* CowswapOrder: half the validity is waited for, and the tolerance is 1 / 8 *)

\* Three swaps asked for one after another, each while the order of the one
\* before is still open, and two with calls that fail.
Patient == INSTANCE CowswapOrder
    WITH Attempts <- 1 .. 3, Amounts <- {4}, Fees <- {0}, Quoted <- {9}, SlippageBps <- 1,
         Bps <- 8, ValidFor <- 6, Wait <- 3, Amplifier <- 4, MaxTime <- 9, Faults <- FALSE

Broken == INSTANCE CowswapOrder
    WITH Attempts <- 1 .. 2, Amounts <- {4}, Fees <- {1}, Quoted <- {7, 9},
         SlippageBps <- 1, Bps <- 8, ValidFor <- 4, Wait <- 2, Amplifier <- 1, MaxTime <- 5,
         Faults <- TRUE

-----------------------------------------------------------------------------
decayVars == <<pc, venue, asked, raise, amount, multiplier, excluded, swaps, gas, quotes, quote,
               result, paid, sold, unseen, live, tried>>
refillVars == <<wallet, reserve, gasEther, ether, req>>
costVars == <<price, moves, costReq, executed, gauge>>
orderVars == <<clock, step, attempt, quoted, since, spendable, order, answer>>
allVars == <<part, poolVars, decayVars, refillVars, costVars, orderVars>>

Empty(f) == f = [t \in DOMAIN f |-> 0]

AllInit ==
    /\ part \in Parts
    /\ CASE part = "pool" -> PoolInit
         [] part = "doubled" -> Doubled!PoolInit
         [] OTHER -> Owning!PoolInit
    /\ CASE part = "buy" -> Buy!Init
         [] part = "retry" -> Retry!Init
         [] OTHER -> Sell!Init
    /\ part \notin {"sell", "buy", "retry"} => venue = "any"
    /\ part \notin {"sell", "buy"} => ~raise
    /\ CASE part = "refill" -> Refill!Init
         [] part = "faulty" -> Faulty!Init
         [] OTHER -> Cover!Init
    /\ part \notin {"refill", "faulty", "cover"} => Empty(wallet)
    /\ IF part = "overlapping" THEN Overlapping!Init ELSE OneByOne!Init
    /\ IF part = "broken" THEN Broken!Init ELSE Patient!Init
    /\ part \notin {"onebyone", "overlapping"} => \A a \in DOMAIN price : price[a] = 1

AllNext ==
    \/ /\ \/ part = "pool" /\ PoolNext /\ OneWallet
          \/ part = "manual" /\ Manual!PoolNext /\ OneWallet
          \/ part = "owning" /\ Owning!PoolNext
          \/ part = "doubled" /\ Doubled!PoolNext
       /\ UNCHANGED <<part, decayVars, refillVars, costVars, orderVars>>
    \/ /\ \/ part = "sell" /\ Sell!Next
          \/ part = "buy" /\ Buy!Next
          \/ part = "retry" /\ Retry!Next
       /\ UNCHANGED <<part, poolVars, refillVars, costVars, orderVars>>
    \/ /\ \/ part = "refill" /\ Refill!Next
          \/ part = "faulty" /\ Faulty!Next
          \/ part = "cover" /\ Cover!Next
       /\ UNCHANGED <<part, poolVars, decayVars, costVars, orderVars>>
    \/ /\ \/ part = "onebyone" /\ OneByOne!Next
          \/ part = "overlapping" /\ Overlapping!Next
       /\ UNCHANGED <<part, poolVars, decayVars, refillVars, orderVars>>
    \/ /\ \/ part = "patient" /\ Patient!Next
          \/ part = "broken" /\ Broken!Next
       /\ UNCHANGED <<part, poolVars, decayVars, refillVars, costVars>>

\* Every await of a loop ends.
AllFairness ==
    /\ WF_decayVars(part = "sell" /\ Sell!Step)
    /\ WF_refillVars(part = "refill" /\ Refill!Step("r1"))
    /\ WF_refillVars(part = "cover" /\ Cover!Step("r1"))

AllSpec == AllInit /\ [][AllNext]_allVars /\ AllFairness

-----------------------------------------------------------------------------
\* The decaying swap sells what it reports and no more than was asked, over every
\* retry and halving, but for attempts whose outcome it did not see and retried:
\* each of those may sell its size once more, except that an order is not placed
\* again.  It trades at the best quote of its round, within the tolerance, which
\* is raised only when asked to; the cost it reports is the gas paid for what it
\* saw.  A Cowswap order is signed for the amount asked within the slippage, is
\* reported with what it bought, and at most two of them may trade at any time.
SwapsAsAsked ==
    /\ part = "sell" => /\ Sell!TypeOK /\ Sell!SoldAsSeen /\ Sell!BestOfRound
                        /\ Sell!WithinTolerance /\ Sell!GasAccounted
    /\ part = "retry" => Retry!TypeOK /\ Retry!SoldAsSeen /\ Retry!GasAccounted
    /\ part = "patient" => Patient!TypeOK /\ Patient!TwoOrdersOpen
    /\ part = "broken" => Broken!OrderWithinSlippage /\ Broken!TradeIsReported
    /\ part = "buy" => Buy!SoldAsSeen /\ Buy!BestOfRound /\ Buy!WithinTolerance

\* A refill of the gas sponsors sends no more than what was missing, and of each
\* token what it could: the sponsor has what it needed, or the wallet had nothing
\* worth sending, or the transfer failed.  Covering an amount of USDC sells no
\* more than that amount and the buffer by swaps whose outcome was seen.
SponsorRefilled ==
    /\ part = "refill" => Refill!TypeOK /\ Refill!ReserveCapped /\ Refill!HeldTokensSent
    /\ part = "faulty" => Faulty!ReserveCapped /\ Faulty!HeldTokensSent /\ Faulty!UsdcWithinBuffer
    /\ part = "cover" => Cover!UsdcWithinBuffer

\* A failure is answered by what has not been tried: no source is tried twice at
\* one size, and the size is halved because of failed swaps only after MaxSwaps
\* sources were tried at it; a refill goes on to send when a token could not be
\* bought, and sells no token that the sponsor needs while it buys USDC.
FailuresMoveOn ==
    [][/\ part = "retry" => Retry!TriesNewSource /\ Retry!DecaysAfterAllTried
       /\ part = "faulty" => Faulty!GoesOnToSend /\ Faulty!SellsNoTarget]_allVars

\* The costs of swaps are those of the swaps made: a response lists every swap of
\* its request with its own cost, a cost in the nominal series is what the swap
\* lost at the reference price, and with requests one at a time the gauges of a
\* label set show one and the same swap.
CostsAsSwapped ==
    /\ part = "onebyone" => /\ OneByOne!TypeOK /\ OneByOne!GaugesOfOneSwap
                            /\ OneByOne!AnswersEverySwap
    /\ part = "overlapping" => Overlapping!NominalCostIsTheLoss

Begun ==
    \/ part = "sell" /\ pc = "check"
    \/ part \in {"refill", "cover"} /\ req["r1"].pc = "begin"

Ended ==
    \/ part = "sell" /\ pc = "done"
    \/ part \in {"refill", "cover"} /\ req["r1"].pc = "done"

\* The decaying loop ends, since tolerance, exclusions and halvings do not feed
\* each other, and so does every refill and every cover.
SwapsEnd == Begun ~> Ended
=============================================================================
