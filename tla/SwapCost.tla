---- MODULE SwapCost ----
(***************************************************************************)
(* The swap handlers of the funds manager: what a request answers for the   *)
(* swaps it made, and what the metrics recorder writes to the gauges. Every *)
(* swap trades a base asset against USDC. Its cost is measured against the  *)
(* price the price reporter gives once the swap has been mined, so that     *)
(* price may have moved, may be missing and may be zero.                    *)
(***************************************************************************)
EXTENDS Integers, Sequences, SequencesExt, TLC

CONSTANTS
    Requests,    \* requests to the two swap endpoints
    Kinds,       \* the endpoints, of "immediate" and "target"
    Outcomes,    \* what an executed swap may look like
    Assets,      \* base assets; WETH, the asset gas is priced in, is one
    Weth,
    Prices,      \* reference prices
    Spread20,    \* OUTLIER_RELATIVE_SPREAD_THRESHOLD is 1 part in Spread20
    MaxSwaps,    \* bound: swaps of a request
    MaxMoves,    \* bound: price moves
    Overlap,     \* may two requests be served at the same time?
    None

VARIABLES
    price,       \* the price reporter's price of every asset
    moves,       \* price moves so far
    req,         \* the handler of every request
    executed,    \* swaps every request has made onchain
    gauge        \* the gauges, by name and labels: a value, and the cost data it
                 \* was taken from

vars == <<price, moves, req, executed, gauge>>

Names == {"cost", "artifact", "gas", "volume", "spread", "self"}
Labels == Assets \X BOOLEAN

Idle == [stage |-> "idle", kind |-> None, index |-> 0, data |-> None, answer |-> <<>>]

Stages == {"idle", "topup", "swap", "price", "gas", "receipt",
           "set_cost", "set_gas", "set_volume", "set_spread", "set_self",
           "answered", "rejected"}

TypeOK ==
    /\ price \in [Assets -> Prices] /\ moves \in 0..MaxMoves
    /\ \A r \in Requests :
        /\ req[r].stage \in Stages /\ req[r].index \in 0..Len(executed[r])
        /\ Len(req[r].answer) <= Len(executed[r]) /\ Len(executed[r]) <= MaxSwaps
        /\ executed[r] \in Seq(Outcomes)
    /\ \A n \in Names : DOMAIN gauge[n] = Labels

Init ==
    /\ price \in [Assets -> Prices] /\ moves = 0
    /\ req = [r \in Requests |-> Idle]
    /\ executed = [r \in Requests |-> <<>>]
    /\ gauge = [n \in Names |-> [l \in Labels |-> None]]

Goto(r, stage) == req' = [req EXCEPT ![r].stage = stage]
At(r, stage) == req[r].stage = stage
Outcome(r) == executed[r][req[r].index]

----------------------------------------------------------------------------
(* Cost arithmetic, on fractions. A zero denominator is a value that is not *)
(* finite: the reference price was zero, or nothing was bought.             *)

LabelsOf(o) == <<o.asset, o.sell>>

\* notional_volume_usdc: the USDC leg of the swap.
NotionalVolumeUsdc(o) == IF o.sell THEN o.bought ELSE o.sold

\* base_amount, with the amount that was really bought.
BaseAmount(o) == IF o.sell THEN o.sold ELSE o.bought

\* relative_spread: how far the execution price is from the reference, positive
\* when worse. With b base units for u USDC, (u/b - ref) / ref = (u - ref b) / ref b.
RelativeSpread(o, ref) ==
    LET side == IF o.sell THEN -1 ELSE 1
    IN [num |-> side * (NotionalVolumeUsdc(o) - ref * BaseAmount(o)),
        den |-> ref * BaseAmount(o)]

\* execution_cost_usdc
ExecutionCost(volume, spread) == [num |-> volume * spread.num, den |-> spread.den]

AbsVal(n) == IF n < 0 THEN -n ELSE n

MetricNameOneSided(spread) ==
    IF spread.den = 0 \/ spread.num * Spread20 > spread.den THEN "artifact" ELSE "cost"

\* execution_cost_metric_name
MetricName(spread) ==
    IF spread.den = 0 \/ AbsVal(spread.num) * Spread20 > spread.den
      THEN "artifact" ELSE "cost"

\* get_self_trade_volume: USDC that the darkpool received or sent.
SelfTradeVolume(o) ==
    FoldLeft(LAMBDA total, log : total + IF log.usdc /\ log.darkpool THEN log.value ELSE 0,
             0, o.logs)

----------------------------------------------------------------------------
(* The handlers *)

Receive(r, kind) ==
    /\ At(r, "idle")
    /\ Overlap \/ \A q \in Requests : req[q].stage \in {"idle", "answered", "rejected"}
    /\ req' = [req EXCEPT ![r].stage = "topup", ![r].kind = kind]
    /\ UNCHANGED <<price, moves, executed, gauge>>

\* top_up_quoter_hot_wallet_gas
TopUp(r) ==
    /\ At(r, "topup")
    /\ \/ Goto(r, "swap")
       \/ Goto(r, "rejected")
    /\ UNCHANGED <<price, moves, executed, gauge>>

\* One decaying swap gets executed: the only one of an immediate request, one
\* candidate of a request for a target amount.
Execute(r, o) ==
    /\ At(r, "swap")
    /\ Len(executed[r]) < (IF req[r].kind = "immediate" THEN 1 ELSE MaxSwaps)
    /\ executed' = [executed EXCEPT ![r] = Append(@, o)]
    /\ UNCHANGED <<price, moves, req, gauge>>

\* The execution client returns what it did. An immediate request that made no
\* swap is an error.
Swapped(r) ==
    /\ At(r, "swap")
    /\ IF executed[r] # <<>>
         THEN req' = [req EXCEPT ![r].stage = "price", ![r].index = 1]
         ELSE Goto(r, IF req[r].kind = "immediate" THEN "rejected" ELSE "answered")
    /\ UNCHANGED <<price, moves, executed, gauge>>

\* An error before the first swap, or the deadline of a request for a target
\* amount, which drops the outcomes of the swaps made so far.
SwapFails(r) ==
    /\ At(r, "swap")
    /\ req[r].kind = "target" \/ executed[r] = <<>>
    /\ Goto(r, "rejected")
    /\ UNCHANGED <<price, moves, executed, gauge>>

----------------------------------------------------------------------------
(* record_swap_cost, one await or one gauge at a time *)

\* The rest of the loop body: the response of this outcome, then the next one.
Respond(r, cost) ==
    LET more == req[r].index < Len(executed[r])
    IN req' = [req EXCEPT ![r].answer = Append(@, cost),
                          ![r].data = None,
                          ![r].index = IF more THEN @ + 1 ELSE @,
                          ![r].stage = IF more THEN "price" ELSE "answered"]

\* Metrics that cannot be computed are answered with a cost of zero.
MetricsFail(r) == Respond(r, [num |-> 0, den |-> 1])

\* What SwapExecutionData says before the other lookups.
CostData(r, ref) ==
    LET volume == NotionalVolumeUsdc(Outcome(r))
        spread == RelativeSpread(Outcome(r), ref)
    IN [swap |-> <<r, req[r].index>>, ref |-> ref, volume |-> volume, spread |-> spread,
        cost |-> ExecutionCost(volume, spread)]

\* get_price of the base token; spread, volume and cost follow from it.
ReadPrice(r) ==
    /\ At(r, "price")
    /\ \/ req' = [req EXCEPT ![r].stage = "gas",
                             ![r].data = CostData(r, price[Outcome(r).asset])]
       \/ MetricsFail(r)
    /\ UNCHANGED <<price, moves, executed, gauge>>

Set(r, name, value) ==
    gauge' = [gauge EXCEPT ![name][LabelsOf(Outcome(r))] =
                [value |-> value, from |-> [swap |-> req[r].data.swap, ref |-> req[r].data.ref]]]

ReadGasSets(r) ==
    /\ At(r, "gas")
    /\ req' = [req EXCEPT ![r].stage = "receipt",
                          ![r].data = @ @@ [gas |-> Outcome(r).gas * price[Weth]]]
    /\ Set(r, "gas", Outcome(r).gas * price[Weth])
    /\ UNCHANGED <<price, moves, executed>>

\* get_wei_cost_usdc
ReadGas(r) ==
    /\ At(r, "gas")
    /\ \/ req' = [req EXCEPT ![r].stage = "receipt",
                             ![r].data = @ @@ [gas |-> Outcome(r).gas * price[Weth]]]
       \/ MetricsFail(r)
    /\ UNCHANGED <<price, moves, executed, gauge>>

ReadReceipt(r) ==
    /\ At(r, "receipt")
    /\ \/ req' = [req EXCEPT ![r].stage = "set_cost",
                             ![r].data = @ @@ [self |-> SelfTradeVolume(Outcome(r))]]
       \/ MetricsFail(r)
    /\ UNCHANGED <<price, moves, executed, gauge>>

\* record_metrics_from_cost_data
SetCost(r) ==
    /\ At(r, "set_cost")
    /\ Set(r, MetricName(req[r].data.spread), req[r].data.cost)
    /\ Goto(r, "set_gas")
    /\ UNCHANGED <<price, moves, executed>>

SetGas(r) ==
    /\ At(r, "set_gas")
    /\ Set(r, "gas", req[r].data.gas)
    /\ Goto(r, "set_volume")
    /\ UNCHANGED <<price, moves, executed>>

SetVolume(r) ==
    /\ At(r, "set_volume")
    /\ Set(r, "volume", req[r].data.volume)
    /\ Goto(r, "set_spread")
    /\ UNCHANGED <<price, moves, executed>>

SetSpread(r) ==
    /\ At(r, "set_spread")
    /\ Set(r, "spread", req[r].data.spread)
    /\ Goto(r, "set_self")
    /\ UNCHANGED <<price, moves, executed>>

\* The last gauge; the cost data goes back to the handler.
SetSelf(r) ==
    /\ At(r, "set_self")
    /\ Set(r, "self", req[r].data.self)
    /\ Respond(r, req[r].data.cost)
    /\ UNCHANGED <<price, moves, executed>>

----------------------------------------------------------------------------

Move(a, p) ==
    /\ moves < MaxMoves /\ p # price[a]
    /\ price' = [price EXCEPT ![a] = p] /\ moves' = moves + 1
    /\ UNCHANGED <<req, executed, gauge>>

Next ==
    \/ \E r \in Requests :
        \/ \E k \in Kinds : Receive(r, k)
        \/ \E o \in Outcomes : Execute(r, o)
        \/ TopUp(r) \/ Swapped(r) \/ SwapFails(r)
        \/ ReadPrice(r) \/ ReadGas(r) \/ ReadReceipt(r)
        \/ SetCost(r) \/ SetGas(r) \/ SetVolume(r) \/ SetSpread(r) \/ SetSelf(r)
    \/ \E a \in Assets, p \in Prices : Move(a, p)

Spec == Init /\ [][Next]_vars

----------------------------------------------------------------------------
(* Properties *)

\* What a swap lost at the reference price: the value given less the value got.
Loss(from) ==
    LET o == executed[from.swap[1]][from.swap[2]]
    IN IF o.sell THEN from.ref * o.sold - o.bought ELSE o.sold - from.ref * o.bought

\* A cost that execution_cost_metric_name sends to the nominal series is a number,
\* and what the swap lost at the reference price, sign included, up to the outlier
\* threshold: a reference price that is zero or far off never reaches the series.
NominalCostIsTheLoss ==
    \A l \in Labels : gauge["cost"][l] # None =>
        LET g == gauge["cost"][l]
            loss == Loss(g.from)
        IN  /\ g.value.den > 0
            /\ AbsVal(g.value.num - loss * g.value.den) * Spread20 <= AbsVal(loss) * g.value.den

Recording(r) ==
    req[r].stage \in {"set_cost", "set_gas", "set_volume", "set_spread", "set_self"}

\* While record_metrics_from_cost_data is not at work, the gauges of a label set show
\* one and the same swap, whatever failed before: gas, volume, spread, self trade,
\* and one of the two cost series.
GaugesOfOneSwap ==
    (\A r \in Requests : ~Recording(r)) =>
        \A l \in Labels, n \in Names \ {"cost", "artifact"} : gauge[n][l] # None =>
            LET from == gauge[n][l].from
            IN  /\ \A m \in Names \ {"cost", "artifact"} :
                      gauge[m][l] # None /\ gauge[m][l].from = from
                /\ \E m \in {"cost", "artifact"} :
                      gauge[m][l] # None /\ gauge[m][l].from = from

\* A response lists every swap the request made, in the order they were made, each
\* with its own cost at some reference price, or zero where the handler defaults.
AnswersEverySwap ==
    \A r \in Requests : At(r, "answered") =>
        /\ Len(req[r].answer) = Len(executed[r])
        /\ \A i \in DOMAIN executed[r] :
            LET o == executed[r][i]
                cost(p) == LET usdc == IF o.sell THEN o.bought ELSE o.sold
                               base == IF o.sell THEN o.sold ELSE o.bought
                               side == IF o.sell THEN -1 ELSE 1
                           IN [num |-> usdc * side * (usdc - p * base), den |-> p * base]
            IN req[r].answer[i] \in {[num |-> 0, den |-> 1]} \cup {cost(p) : p \in Prices}

=============================================================================
