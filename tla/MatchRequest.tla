---------------------------- MODULE MatchRequest ----------------------------
(***************************************************************************)
(* The requests of the auth server's external match endpoints, from their  *)
(* arrival to the relayer and back: the checks, the rate limit tokens, the *)
(* matching pool chosen by the execution cost limiter, and the size of the *)
(* gas refund.  Requests run concurrently, and each call to Redis, to the  *)
(* price reporter or to the gas cost sampler is a step of its own: a day   *)
(* may begin, a limit may be reached, a price or the sampled gas cost may  *)
(* change between any two of them.                                         *)
(*                                                                         *)
(* Amounts are in atomic units, Unit[t] of which make one token; prices    *)
(* are whole USDC for one whole token, as the price reporter gives them.   *)
(***************************************************************************)
EXTENDS Integers, FiniteSets

CONSTANTS
    Reqs,           \* requests
    Kinds,          \* of "quote", "direct" and "quoted" (see Init)
    Orders,         \* orders of the clients
    Queries,        \* sponsorship query parameters
    Keys, Whitelist, Inactive,  \* API keys; whitelisted, deactivated
    USDC, WETH, Native,         \* tokens with a role in the code
    Named,          \* tokens of the token mapping
    Unit,           \* atomic units of a token
    QuoteLimit, BundleLimit,    \* max tokens of an interval
    MinSponsored,   \* min_sponsored_order_quote_amount
    ProtocolFee,    \* percent
    Prices,         \* prices of a token, zero included
    PriceRange,     \* what each stream may report, at a time
    Samples,        \* gas oracle answers: L1 gas and base fee
    L2Gas,          \* ESTIMATED_L2_GAS
    MaxAmount,      \* u128::MAX + 1
    Days,           \* 1 .. the last day
    Tickers,        \* base tokens the bot server reports on
    Budgets,        \* whether the sponsorship budget may be spent, and unspent
    Faults,         \* TRUE: Redis, database and relayer calls may fail
    None            \* no price yet

VARIABLES
    day,            \* the date
    exceeded,       \* execution_cost_exceeded keys: tickers and dates
    spent,          \* the sponsorship budget of the day is used up
    price,          \* the price streams; None before the first price
    estimate,       \* latest_estimate of the gas cost sampler
    sampled,        \* every estimate so far
    used,           \* tokens consumed in the interval
    req             \* the requests

env == <<day, exceeded, spent, price, estimate, sampled>>
vars == <<env, used, req>>

WeiInEther == Unit[WETH]

Zero == [refund |-> 0, native |-> FALSE]

\* `was` is what the execution cost limiter held when the request arrived.
NoRequest ==
    [pc |-> "new", kind |-> "none", key |-> None, order |-> None, query |-> None,
     was |-> [over |-> FALSE, day |-> 0], read |-> "none", pool |-> "asked",
     info |-> Zero, sent |-> None, status |-> 0]

-----------------------------------------------------------------------------
(* Mutated forms of the definitions below. *)

LimitKeyUndated(t) == <<t, 1>>

ConsumeFailsOpen(n, limit) ==
    {[ok |-> n < limit \/ Faults, used |-> IF n < limit THEN n + 1 ELSE n]}

AdjustedNative(o, i) ==
    IF o.exact /\ i.refund > 0 THEN [o EXCEPT !.out = (@ - i.refund) % MaxAmount] ELSE o

\* The rate per atomic unit of ETH, not of the token bought.
ConversionRateUnscaled(o, q, eth, buy) == eth * WeiInEther

-----------------------------------------------------------------------------
(* The orders *)

PickBase(o) == IF o.input = USDC THEN o.output ELSE o.input

\* validate_request_body, and base_ticker in set_relayer_fee: the base token
\* must have a ticker, which the native asset has not.
Valid(o) ==
    /\ {o.input, o.output} \subseteq Named \cup {Native}
    /\ USDC \in {o.input, o.output}
    /\ PickBase(o) \in Named

\* fee_adjusted_output_amount, for a relayer fee of zero.
FeeAdjustedOutput(o) ==
    IF o.exact THEN (o.out * 100) \div (100 - ProtocolFee) ELSE o.out

\* get_base_and_quote_amount_with_price: the quote amount.
QuoteAmount(o, p) ==
    LET base == PickBase(o)
    IN  IF o.input = base /\ o.in # 0 THEN p * o.in
        ELSE IF o.output = base /\ o.out # 0 THEN p * FeeAdjustedOutput(o)
        ELSE IF o.in # 0 THEN o.in
        ELSE FeeAdjustedOutput(o)

\* convert_to_decimal and the comparison, both sides in atomic units of USDC.
OrderTooSmall(amount) == amount < MinSponsored * Unit[USDC]

Sponsored(limited, q, amount) == ~(limited \/ q.disabled \/ OrderTooSmall(amount))

\* BigDecimal's round: a half goes to the even neighbour.
Round(n, d) ==
    LET q == n \div d
        r == n % d
    IN  IF 2 * r < d \/ (2 * r = d /\ q % 2 = 0) THEN q ELSE q + 1

\* compute_conversion_rate_for_order: atomic units of the refund asset for
\* one ETH, from the prices of ETH and of the token the client buys.
RefundsEther(o, q) == q.native \/ o.output \in {Native, WETH}

ConversionRate(o, q, eth, buy) ==
    IF RefundsEther(o, q) THEN WeiInEther
    ELSE Round(eth * Unit[o.output], buy)

RefundAmount(cost, rate) == (cost * rate) \div WeiInEther

RequiresExactOutputUpdate(o, i) == o.exact /\ ~i.native /\ i.refund > 0

\* The subtraction wraps: the release profile does not check for overflow.
Adjusted(o, i) ==
    IF RequiresExactOutputUpdate(o, i) THEN [o EXCEPT !.out = (@ - i.refund) % MaxAmount]
    ELSE o

-----------------------------------------------------------------------------
(* What goes on around the requests *)

\* estimate_external_match_gas_cost
Cost(s) == (L2Gas + s.l1) * s.fee

\* The sampler has an estimate before the server accepts requests.
Init ==
    /\ day = 1
    /\ exceeded = {}
    /\ spent = FALSE
    /\ price \in {p \in [DOMAIN PriceRange -> Prices \cup {None}] :
                     \A t \in DOMAIN p : p[t] \in PriceRange[t]}
    /\ estimate \in {Cost(s) : s \in Samples}
    /\ sampled = {estimate}
    /\ used = [quote |-> 0, bundle |-> 0]
    /\ req = [r \in Reqs |-> NoRequest]

NextDay ==
    /\ day + 1 \in Days
    /\ day' = day + 1
    /\ UNCHANGED <<exceeded, spent, price, estimate, sampled, used, req>>

\* The bot server reports that it exceeded its execution costs for a ticker.
ExceedCosts(t) ==
    /\ exceeded' = exceeded \cup {<<t, day>>}
    /\ UNCHANGED <<day, spent, price, estimate, sampled, used, req>>

\* The budget of the key is spent, or a new interval begins: see RateLimiter.
BudgetChanges ==
    /\ spent' \in Budgets
    /\ UNCHANGED <<day, exceeded, price, estimate, sampled, used, req>>

\* The timer; a sample that fails leaves the estimate as it is.
Sample(s) ==
    /\ estimate' = Cost(s)
    /\ sampled' = sampled \cup {Cost(s)}
    /\ UNCHANGED <<day, exceeded, spent, price, used, req>>

PriceMoves(t) ==
    /\ \E p \in PriceRange[t] \ {None} : price' = [price EXCEPT ![t] = p]
    /\ UNCHANGED <<day, exceeded, spent, estimate, sampled, used, req>>

PriceOf(t) == IF t = USDC THEN 1 ELSE IF t \in DOMAIN price THEN price[t] ELSE None
-----------------------------------------------------------------------------
(* The steps of a request *)

At(r, pc) == req[r].pc = pc

Goto(r, pc) == req' = [req EXCEPT ![r].pc = pc]

\* handle_rejection: the status of an error.
Reply(r, error) ==
    req' = [req EXCEPT ![r].pc = "done",
                       ![r].status = CASE error \in {"unauthorized", "inactive"} -> 401
                                       [] error \in {"bad request", "serde"} -> 400
                                       [] error = "no content" -> 204
                                       [] OTHER -> 500]

LimitKey(t) == <<t, day>>

Arrive(r, kind, k, o, q) ==
    /\ At(r, "new")
    /\ req' = [req EXCEPT ![r] = [NoRequest EXCEPT
                  !.pc = "preprocess", !.kind = kind, !.key = k, !.order = o, !.query = q,
                  !.was = [over |-> <<PickBase(o), day>> \in exceeded, day |-> day]]]
    /\ UNCHANGED <<env, used>>

\* preprocess_request: authorization, the body, the fee of the user.
Preprocess(r) ==
    /\ At(r, "preprocess")
    /\ \/ req[r].key \in Inactive /\ Reply(r, "inactive")
       \/ req[r].key \notin Inactive /\ ~Valid(req[r].order) /\ Reply(r, "bad request")
       \/ Faults /\ Reply(r, "database")
       \/ req[r].key \notin Inactive /\ Valid(req[r].order) /\ Goto(r, "limit")
    /\ UNCHANGED <<env, used>>

\* consume_quote_token, consume_bundle_token: any error refuses the request;
\* the token may be gone all the same.
Consume(n, limit) ==
    {[ok |-> n < limit, used |-> IF n < limit THEN n + 1 ELSE n]}
      \cup (IF Faults THEN {[ok |-> FALSE, used |-> n], [ok |-> FALSE, used |-> n + 1]} ELSE {})

\* peek_bundle_rate_limit: an error of Redis lets the request pass, one of
\* get_rate_limit does not.
PeekBundle == {used.bundle < BundleLimit} \cup (IF Faults THEN BOOLEAN ELSE {})

\* quote_pre_request awaits both calls together, assembly_pre_request one.
TakeToken(r) ==
    /\ At(r, "limit")
    /\ IF req[r].kind = "quote"
       THEN \E c \in Consume(used.quote, QuoteLimit), free \in PeekBundle :
              /\ used' = [used EXCEPT !.quote = c.used]
              /\ IF c.ok /\ free THEN Goto(r, "cost") ELSE Reply(r, "no content")
       ELSE \E c \in Consume(used.bundle, BundleLimit) :
              /\ used' = [used EXCEPT !.bundle = c.used]
              /\ IF c.ok THEN Goto(r, "cost") ELSE Reply(r, "no content")
    /\ UNCHANGED env

\* check_execution_cost_exceeded: an error counts as exceeded.
CheckExecutionCost(r) ==
    /\ At(r, "cost")
    /\ \E answer \in {IF LimitKey(PickBase(req[r].order)) \in exceeded THEN "over" ELSE "under"}
                       \cup (IF Faults THEN {"error"} ELSE {}) :
         req' = [req EXCEPT ![r].read = answer, ![r].pc = "route"]
    /\ UNCHANGED <<env, used>>

\* should_route_to_global reads the key after the limiter.
Route(r) ==
    /\ At(r, "route")
    /\ \/ Faults /\ Reply(r, "database")
       \/ req' = [req EXCEPT ![r].pc = "sponsor",
                    ![r].pool = IF req[r].read # "under" /\ req[r].key \notin Whitelist
                                THEN "global" ELSE @]
    /\ UNCHANGED <<env, used>>

-----------------------------------------------------------------------------
(* Gas sponsorship *)

\* The sponsorship of a quoted order is the one cached for its quote: see
\* QuoteSponsorship.
Cached ==
    {req[s].info : s \in {s \in Reqs : req[s].kind = "quote" /\ req[s].status = 200
                                       /\ req[s].info.refund > 0 /\ ~req[s].info.native}}

SponsorQuoted(r) ==
    /\ At(r, "sponsor")
    /\ req[r].kind = "quoted"
    /\ \E i \in {Zero} \cup Cached : req' = [req EXCEPT ![r].info = i, ![r].pc = "forward"]
    /\ UNCHANGED <<env, used>>

\* maybe_sponsor_order parses the query, generate_sponsorship_info checks the
\* budget: here an error of Redis is one of the request.
CheckBudget(r) ==
    /\ At(r, "sponsor")
    /\ req[r].kind # "quoted"
    /\ \/ req[r].query.malformed /\ Reply(r, "serde")
       \/ ~req[r].query.malformed /\ Faults /\ Reply(r, "redis")
       \/ ~req[r].query.malformed /\ Goto(r, IF spent THEN "limited" ELSE "budgeted")
    /\ UNCHANGED <<env, used>>

\* get_quote_amount and the decision; no price stream is no sponsorship.
DecideSponsorship(r) ==
    LET p == PriceOf(PickBase(req[r].order))
    IN  /\ req[r].pc \in {"limited", "budgeted"}
        /\ \/ p = None /\ Goto(r, "forward")
           \/ p = 0 /\ Reply(r, "custom")
           \/ Faults /\ Reply(r, "price reporter")
           \/ /\ p \notin {None, 0}
              /\ Goto(r, IF Sponsored(At(r, "limited"), req[r].query, QuoteAmount(req[r].order, p))
                         THEN "refund" ELSE "forward")
        /\ UNCHANGED <<env, used>>

\* compute_refund_amount_for_order.  The price of the token bought is read
\* again; a division by zero panics.
ComputeRefund(r) ==
    LET o   == req[r].order
        q   == req[r].query
        eth == PriceOf(WETH)
        buy == PriceOf(o.output)
    IN  /\ At(r, "refund")
        /\ \/ ~RefundsEther(o, q) /\ None \in {eth, buy} /\ Reply(r, "price reporter")
           \/ ~RefundsEther(o, q) /\ Faults /\ Reply(r, "price reporter")
           \/ ~RefundsEther(o, q) /\ eth # None /\ buy = 0 /\ Goto(r, "panicked")
           \/ /\ RefundsEther(o, q) \/ (eth # None /\ buy \notin {None, 0})
              /\ req' = [req EXCEPT
                    ![r].info = [refund |-> RefundAmount(estimate, ConversionRate(o, q, eth, buy)),
                                 native |-> q.native],
                    ![r].pc = "forward"]
        /\ UNCHANGED <<env, used>>

-----------------------------------------------------------------------------
(* The relayer *)

Forward(r) ==
    /\ At(r, "forward")
    /\ req' = [req EXCEPT ![r].pc = "sent",
                  ![r].sent = [pool |-> req[r].pool, day |-> day,
                               order |-> Adjusted(req[r].order, req[r].info)]]
    /\ UNCHANGED <<env, used>>

\* forward_request: the relayer's own status is passed on; a body that does
\* not parse is a serde error, a failure to send an error of the server.
Respond(r) ==
    /\ At(r, "sent")
    /\ \/ \E status \in {200, 204, 500} :
            req' = [req EXCEPT ![r].pc = "done", ![r].status = status]
       \/ Faults /\ \E error \in {"serde", "custom"} : Reply(r, error)
    /\ UNCHANGED <<env, used>>

Handle(r) ==
    \/ Preprocess(r) \/ TakeToken(r) \/ CheckExecutionCost(r) \/ Route(r)
    \/ SponsorQuoted(r) \/ CheckBudget(r) \/ DecideSponsorship(r) \/ ComputeRefund(r)
    \/ Forward(r) \/ Respond(r)

Next ==
    \/ NextDay \/ BudgetChanges
    \/ \E t \in Tickers : ExceedCosts(t)
    \/ \E s \in Samples : Sample(s)
    \/ \E t \in DOMAIN PriceRange : PriceMoves(t)
    \/ \E r \in Reqs :
         \/ \E kind \in Kinds, k \in Keys, o \in Orders, q \in Queries : Arrive(r, kind, k, o, q)
         \/ Handle(r)

Spec == Init /\ [][Next]_vars

-----------------------------------------------------------------------------
(* Properties *)

WasSent(r) == req[r].sent # None

\* Types, and a request that was answered with a bundle or a quote was sent.
TypeOK ==
    /\ day \in Days /\ spent \in BOOLEAN /\ estimate \in sampled
    /\ \A t \in DOMAIN price : price[t] \in PriceRange[t]
    /\ \A r \in Reqs : req[r].status \in {0, 200, 204, 400, 401, 500}
                       /\ (req[r].status = 200 => WasSent(r))

\* "An order is routed to the global pool if the bot server has exceeded its
\* swap rate limit for the day", and a whitelisted key never is: a limit that
\* was exceeded when the request arrived sends it to the global pool if the
\* day has not ended since, and only a limit of a day it was handled on, or a
\* read that failed, sends it there.
RoutedByExecutionCost ==
    \A r \in Reqs : WasSent(r) =>
        LET t == PickBase(req[r].order)
        IN  /\ req[r].key \notin Whitelist /\ req[r].was.over /\ req[r].sent.day = req[r].was.day
               => req[r].sent.pool = "global"
            /\ req[r].sent.pool = "global"
               => /\ req[r].key \notin Whitelist
                  /\ \/ req[r].read = "error"
                     \/ \E d \in req[r].was.day .. req[r].sent.day : <<t, d>> \in exceeded

\* Every request that got as far as the relayer has a token of its own, and
\* no more tokens are out than the limit but those of calls that failed.
TokensOfRequests ==
    LET Sent(K) == Cardinality({r \in Reqs : WasSent(r) /\ req[r].kind \in K})
    IN  /\ Sent({"quote"}) <= used.quote /\ Sent({"quote"}) <= QuoteLimit
        /\ Sent({"direct", "quoted"}) <= used.bundle
        /\ Sent({"direct", "quoted"}) <= BundleLimit
        /\ ~Faults => used.quote <= QuoteLimit /\ used.bundle <= BundleLimit

\* A refund is worth a gas cost that was sampled, up to the rounding of the
\* conversion rate and of the refund to atomic units, at prices the streams
\* report; nothing is refunded for a quote or order that opted out.
RefundCoversGas ==
    \A r \in Reqs : LET i == req[r].info
                        o == req[r].order
                    IN  i.refund > 0 /\ req[r].kind # "quoted" =>
        /\ ~req[r].query.disabled
        /\ \E g \in sampled :
             IF RefundsEther(o, req[r].query) THEN i.refund = g
             ELSE \E eth \in PriceRange[WETH] \ {None},
                     buy \in IF o.output = USDC THEN {1} ELSE PriceRange[o.output] \ {None, 0} :
                    /\ 2 * i.refund * WeiInEther * buy <= g * (2 * eth * Unit[o.output] + buy)
                    /\ 2 * (i.refund + 1) * WeiInEther * buy > g * (2 * eth * Unit[o.output] - buy)

\* "The order matched by the relayer bears the desired output amount only
\* after the refund is issued", for every order whose exact output is no less
\* than its refund: what the relayer is asked for and the refund make up the
\* output of the client.  Nothing in the code keeps the refund below the
\* output, and a smaller order wraps: the relayer is then asked for more than
\* the client.  Orders that are not exact, or whose refund is paid in ether,
\* are sent as they are.
ExactOutputAfterRefund ==
    \A r \in Reqs :
        LET o == req[r].order
            i == req[r].info
            reduced == o.exact /\ i.refund > 0 /\ ~req[r].query.native
        IN  WasSent(r) /\ req[r].kind # "quoted"
            => IF reduced /\ i.refund > o.out THEN req[r].sent.order.out > o.out
               ELSE req[r].sent.order.out + (IF reduced THEN i.refund ELSE 0) = o.out

\* "The minimum quote amount for which gas sponsorship is allowed, in USD":
\* a sponsored order that gives an amount of its base token is worth the
\* minimum at some price its stream reports.
SponsoredIsLarge ==
    \A r \in Reqs :
        LET o == req[r].order
            base == PickBase(o)
        IN  At(r, "refund") /\ o.input = base /\ o.in # 0
            => \E p \in PriceRange[base] \ {None} : p * o.in >= MinSponsored * Unit[base]

=============================================================================
