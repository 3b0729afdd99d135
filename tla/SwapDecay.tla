---- MODULE SwapDecay ----
(***************************************************************************)
(* swap_immediate_decaying: a swap is quoted by the venue the request       *)
(* names, or by Lifi and Bebop; the best quote is checked against the       *)
(* reference price and executed; a failure is retried without the source    *)
(* that failed, and in the end with half the size. Lifi exchanges and Bebop *)
(* routes are onchain transactions; Cowswap, which a request must name, is  *)
(* an order that outlives the wait for it. A quote that would trade with    *)
(* the darkpool is dropped, as if it had not been given.                    *)
(***************************************************************************)
EXTENDS Integers, Sequences, FiniteSets, SequencesExt

CONSTANTS
    Exchanges,   \* the exchanges Lifi routes to
    Routes,      \* the two routes of Bebop, a sequence
    Cowswap,     \* the source that is an order book
    Venues,      \* what requests may name: "any", "lifi", "bebop" or "cowswap"
    IsSell,      \* is the swap a sale of the base token?
    Amounts,     \* sizes a request may have, in USDC
    Balance,     \* what the hot wallet holds of the sell token
    MinSwap,     \* MIN_SWAP_QUOTE_AMOUNT
    Reference,   \* the Renegade price
    Prices,      \* prices a source may quote
    Tolerance,   \* price deviation allowed at multiplier 1, as a price
    MaxSwaps,    \* MAX_RETRIES_WITH_EXCLUSION
    Late,        \* may the outcome of an attempt go unseen?
    None

\* The multiplier counts fifths: PRICE_DEVIATION_INCREASE is one of them.
One == 5
MaxMultiplier == 4 * One

VARIABLES
    pc,          \* "check", "fetch", "judge", "execute", "await" or "done"
    venue,       \* params.venue
    asked,       \* params.from_amount of the request
    raise,       \* params.increase_price_deviation
    amount,      \* params.from_amount now
    multiplier,  \* max_price_deviation_multiplier
    excluded,    \* excluded_quote_sources
    swaps,       \* num_swaps_with_exclusion
    gas,         \* cumulative_gas_cost
    quotes,      \* the quotes of this round
    quote,       \* the best one
    result,      \* "none", "swap", "noswap" or "error"
    paid,        \* gas the hot wallet paid
    sold,        \* what was sold onchain
    unseen,      \* attempts given up on before their outcome was known
    live,        \* those of them that may still execute
    tried        \* attempts: source and size

vars == <<pc, venue, asked, raise, amount, multiplier, excluded, swaps, gas, quotes,
          quote, result, paid, sold, unseen, live, tried>>

request == <<venue, asked, raise>>
chain == <<paid, sold, unseen, live, tried>>
loop == <<amount, multiplier, excluded, swaps, gas>>

SourceSet == Exchanges \cup Range(Routes) \cup {Cowswap}
Attempt == SourceSet \X (0..Balance)

TypeOK ==
    /\ pc \in {"check", "fetch", "judge", "execute", "await", "done"}
    /\ venue \in Venues /\ asked \in Amounts /\ raise \in BOOLEAN
    /\ amount \in 0..asked
    /\ multiplier \in One..MaxMultiplier
    /\ excluded \subseteq SourceSet
    /\ swaps \in 0..MaxSwaps
    /\ gas \in Nat /\ paid \in Nat /\ sold \in 0..Balance
    /\ quote = None \/ quote.source \in SourceSet
    /\ result \in {"none", "swap", "noswap", "error"}
    /\ live \subseteq unseen /\ unseen \subseteq tried /\ tried \subseteq Attempt

Init ==
    /\ pc = "check" /\ venue \in Venues /\ asked \in Amounts /\ raise \in BOOLEAN
    /\ amount = asked /\ multiplier = One /\ excluded = {} /\ swaps = 0 /\ gas = 0
    /\ quotes = <<>> /\ quote = None /\ result = "none"
    /\ paid = 0 /\ sold = 0 /\ unseen = {} /\ live = {} /\ tried = {}

----------------------------------------------------------------------------

\* The next round of the loop, and the end of it.
Again == pc' = "check" /\ quotes' = <<>> /\ quote' = None /\ UNCHANGED result

Return(r) == pc' = "done" /\ result' = r

\* can_execute_swap
Check ==
    /\ pc = "check"
    /\ IF Balance - sold >= amount /\ amount >= MinSwap
         THEN pc' = "fetch" /\ UNCHANGED result
         ELSE Return("noswap")
    /\ UNCHANGED <<request, loop, quotes, quote, chain>>

BetterPrice(p, q) == IF IsSell THEN p > q ELSE p < q

SelectFirst(qs) == IF qs = <<>> THEN None ELSE qs[1]

\* select_best_quote: the first of the best ones.
SelectBest(qs) ==
    FoldLeft(LAMBDA best, q : IF best = None \/ BetterPrice(q.price, best.price)
                                THEN q ELSE best, None, qs)

Quote == [source : SourceSet, price : Prices]
OneOf(sources) == {<<>>} \cup {<<q>> : q \in {r \in Quote : r.source \in sources}}

\* Lifi answers with one route, over an exchange that is not denied.
LifiQuotes == IF venue \in {"any", "lifi"} THEN OneOf(Exchanges \ excluded) ELSE {<<>>}

\* Bebop is asked once, and has a quote for each of its routes, or not.
BebopQuotes ==
    IF venue \in {"any", "bebop"}
      THEN {SelectSeq(qs, LAMBDA q : q.price # None /\ q.source \notin excluded) :
              qs \in {[i \in DOMAIN Routes |-> [source |-> Routes[i], price |-> p[i]]] :
                         p \in [DOMAIN Routes -> Prices \cup {None}]}}
      ELSE {<<>>}

\* get_all_venues leaves Cowswap out.
CowswapQuotes == IF venue = "cowswap" THEN OneOf({Cowswap} \ excluded) ELSE {<<>>}

\* A venue that fails is passed over.
Fetch ==
    /\ pc = "fetch"
    /\ \E l \in LifiQuotes, b \in BebopQuotes, c \in CowswapQuotes : quotes' = l \o b \o c
    /\ quote' = SelectBest(quotes')
    /\ IF quote' = None THEN Return("noswap")
       ELSE pc' = "judge" /\ UNCHANGED result
    /\ UNCHANGED <<request, loop, chain>>

Abs(x) == IF x < 0 THEN -x ELSE x

ExceedsUnfavourably(price, mult) ==
    (IF IsSell THEN Reference - price ELSE price - Reference) * One > Tolerance * mult

\* compute_price_deviation is two-sided.
Exceeds(price, mult) == Abs(price - Reference) * One > Tolerance * mult

\* IncreasePriceDeviation. In f64 1.0 and fifteen times 0.2 make more than 4.0,
\* so that the sum already exceeds the maximum where it should equal it.
RaiseTolerance ==
    /\ multiplier' = multiplier + 1
    /\ IF multiplier' >= MaxMultiplier
         THEN Return("noswap") /\ UNCHANGED <<quotes, quote>>
         ELSE Again
    /\ UNCHANGED <<amount, excluded, swaps, gas>>

DecreaseSwapSizeKept(g) ==
    /\ gas' = gas + g
    /\ excluded' = {} /\ swaps' = 0
    /\ Again
    /\ UNCHANGED <<amount, multiplier>>

\* DecreaseSwapSize
DecreaseSwapSize(g) ==
    /\ amount' = amount \div 2 /\ gas' = gas + g
    /\ excluded' = {} /\ swaps' = 0
    /\ Again
    /\ UNCHANGED multiplier

Judge ==
    /\ pc = "judge"
    /\ IF ~Exceeds(quote.price, multiplier)
         THEN pc' = "execute" /\ UNCHANGED <<loop, quotes, quote, result>>
         ELSE IF raise THEN RaiseTolerance ELSE DecreaseSwapSize(0)
    /\ UNCHANGED <<request, chain>>

Seen == UNCHANGED <<unseen, live>>

\* The attempt is given up on, and may execute all the same.
Unseen ==
    /\ Late
    /\ unseen' = unseen \cup {<<quote.source, amount>>}
    /\ live' = live \cup {<<quote.source, amount>>}

\* Any call of a venue, the chain or the price reporter may end the swap.
Error ==
    /\ pc \in {"check", "judge", "execute", "await"}
    /\ Return("error")
    /\ Seen \/ (pc = "await" /\ Unseen)
    /\ UNCHANGED <<request, loop, quotes, quote, paid, sold, tried>>

Attempted == tried' = tried \cup {<<quote.source, amount>>}

\* The swap was executed, at a gas cost of g.
Succeed(g) ==
    /\ gas' = gas + g /\ paid' = paid + g
    /\ sold' = sold + amount
    /\ Return("swap")
    /\ UNCHANGED <<amount, multiplier, excluded, swaps, quotes, quote>>

FailWithoutExclusion(g) ==
    IF swaps + 1 < MaxSwaps
      THEN /\ swaps' = swaps + 1 /\ gas' = gas + g
           /\ Again
           /\ UNCHANGED <<amount, multiplier, excluded>>
      ELSE DecreaseSwapSize(g)

\* execute_quote without a tx_hash: the source is excluded, or the size halved.
Fail(g) ==
    IF swaps + 1 < MaxSwaps
      THEN /\ swaps' = swaps + 1 /\ gas' = gas + g
           /\ excluded' = excluded \cup {quote.source}
           /\ Again
           /\ UNCHANGED <<amount, multiplier>>
      ELSE DecreaseSwapSize(g)

\* Lifi and Bebop: the receipt says that the transaction executed or reverted;
\* it could not be sent; or no receipt came, which counts as not executed.
SendTx ==
    /\ pc = "execute" /\ quote.source # Cowswap
    /\ Attempted
    /\ \/ Balance - sold >= amount /\ Succeed(1) /\ Seen
       \/ Fail(1) /\ paid' = paid + 1 /\ UNCHANGED sold /\ Seen
       \/ Fail(0) /\ UNCHANGED <<paid, sold>> /\ (Seen \/ Unseen)
    /\ UNCHANGED request

PostOrder ==
    /\ pc = "execute" /\ quote.source = Cowswap
    /\ Attempted
    /\ pc' = "await"
    /\ UNCHANGED <<request, loop, quotes, quote, result, paid, sold, unseen, live>>

\* await_trade_execution sees a trade, or gives up; the order is not cancelled.
AwaitTrade ==
    /\ pc = "await"
    /\ \/ Balance - sold >= amount /\ Succeed(0) /\ Seen
       \/ Fail(0) /\ UNCHANGED <<paid, sold>> /\ (Seen \/ Unseen)
    /\ UNCHANGED <<request, tried>>

\* The gas of a transaction; those who settle an order pay for it.
GasOf(source) == IF source = Cowswap THEN 0 ELSE 1

\* An attempt that was given up on executes, reverts, or comes to nothing.
ExecuteLate(a) ==
    /\ a \in live /\ Balance - sold >= a[2]
    /\ sold' = sold + a[2] /\ paid' = paid + GasOf(a[1])
    /\ live' = live \ {a}
    /\ UNCHANGED <<pc, request, loop, quotes, quote, result, unseen, tried>>

Expire(a) ==
    /\ a \in live
    /\ paid' \in {paid, paid + GasOf(a[1])}
    /\ live' = live \ {a}
    /\ UNCHANGED <<pc, request, loop, quotes, quote, result, sold, unseen, tried>>

Step == Check \/ Fetch \/ Judge \/ Error \/ SendTx \/ PostOrder \/ AwaitTrade

Next == Step \/ \E a \in live : ExecuteLate(a) \/ Expire(a)

Spec == Init /\ [][Next]_vars

\* Every await of the loop ends.
FairSpec == Spec /\ WF_vars(Step)

----------------------------------------------------------------------------

\* "Returns the quote, transaction receipt, and cumulative gas cost of all
\* attempted swaps": the cost reported is the gas paid, over every retry, but
\* for the transactions whose receipt was not seen.
GasAccounted ==
    result = "swap" =>
        gas <= paid /\ paid <= gas + Cardinality({a \in unseen : a[1] # Cowswap})

\* A swap is made at a price within the tolerance, which is raised only when
\* the caller asks for it and never beyond four times its default.
WithinTolerance ==
    pc \in {"execute", "await"} \/ result = "swap" =>
        LET most == IF raise THEN MaxMultiplier ELSE One
        IN  /\ (quote.price - Reference) * One <= Tolerance * most
            /\ (Reference - quote.price) * One <= Tolerance * most

\* The quote executed is the best of its round.
BestOfRound ==
    pc \in {"execute", "await"} =>
        \A i \in DOMAIN quotes :
            IF IsSell THEN quotes[i].price <= quote.price
            ELSE quotes[i].price >= quote.price

\* "exclude the failed quote's source from subsequent quote fetches": no source
\* is tried twice at one size.
TriesNewSource == SendTx \/ PostOrder => <<quote.source, amount>> \notin tried

\* The size is halved because of failed swaps only after MaxSwaps sources were
\* tried at that size, and every size starts with all sources.
DecaysAfterAllTried ==
    amount' < amount /\ pc # "judge" =>
        Cardinality({a \in tried' : a[2] = amount}) = MaxSwaps

\* A request sells what it reports, and beyond that only what attempts sold
\* whose outcome it did not see, each once: while every outcome is seen, no more
\* than was asked.  An order is not tried again once it was given up on, so that
\* a request to Cowswap never sells more than was asked.
SoldAsSeen ==
    LET reported == IF result = "swap" THEN amount ELSE 0
    IN  /\ reported <= sold
        /\ sold <= reported + MapThenSumSet(LAMBDA a : a[2], unseen)
        /\ unseen = {} \/ venue = "cowswap" => sold <= asked
====
