---------------------------- MODULE CowswapOrder ----------------------------
(***************************************************************************)
(* The orders the Cowswap client places: a quote is turned into a signed   *)
(* order that is valid for COWSWAP_ORDER_VALID_FOR, the vault relayer is   *)
(* approved, the order is posted, and its trade is polled for once a       *)
(* second.  An order is never cancelled: the client stops waiting after    *)
(* MAX_TRADE_EXECUTION_WAIT_TIME and answers that nothing was bought.  A   *)
(* caller that asks again then has a new order placed while the old one    *)
(* may still trade.                                                        *)
(***************************************************************************)
EXTENDS Naturals, FiniteSets

CONSTANTS
    Attempts,       \* 1 .. the number of swaps asked for, one after another
    Amounts,        \* from_amount of an attempt
    Fees,           \* network fees of a quote, in the token sold
    Quoted,         \* amounts bought of a quote
    SlippageBps, Bps,   \* the tolerance, in units of 1 / Bps
    ValidFor,       \* COWSWAP_ORDER_VALID_FOR, in seconds
    Wait,           \* MAX_TRADE_EXECUTION_WAIT_TIME
    Amplifier,      \* APPROVAL_AMPLIFIER
    MaxTime,        \* bound of the clock
    Faults          \* TRUE: calls of the API and of the node may fail

VARIABLES
    clock,
    step,       \* where the client is in the current attempt
    attempt,    \* the current attempt
    quoted,     \* the quote of the current attempt
    since,      \* when the client began to wait
    spendable,  \* the allowance of the vault relayer
    order,      \* the orders of the attempts, as the order book has them
    answer      \* what each attempt returned

vars == <<clock, step, attempt, quoted, since, spendable, order, answer>>

NoOrder == [state |-> "none", sell |-> 0, buy |-> 0, validTo |-> 0, got |-> 0, listed |-> FALSE]

NoQuote == [asked |-> 0, sell |-> 0, buy |-> 0, best |-> 0, validTo |-> 0]

Init ==
    /\ clock = 0
    /\ step = "quote"
    /\ attempt = 1
    /\ quoted = NoQuote
    /\ since = 0
    /\ spendable = 0
    /\ order = [a \in Attempts |-> NoOrder]
    /\ answer = [a \in Attempts |-> [kind |-> "none", got |-> 0]]

-----------------------------------------------------------------------------
(* Mutated forms of the definitions below. *)

ValidToDoubled == clock + 2 * ValidFor

SellAmountBeforeFees(q) == q.sell

BuyLimitTwice(q) == q.buy - 2 * ((q.buy * SlippageBps) \div Bps)

ExpiredEarly == clock - since >= Wait - 2

-----------------------------------------------------------------------------
(* get_quotes *)

ValidTo == clock + ValidFor

\* get_quote_amounts_after_costs: the fee is part of what is sold, and the
\* slippage is taken from what is bought.
SellAmount(q) == q.sell + q.fee

BuyLimit(q) == q.buy - (q.buy * SlippageBps) \div Bps

\* The attempt returns; the caller may ask again.
Return(kind, got) ==
    /\ answer' = [answer EXCEPT ![attempt] = [kind |-> kind, got |-> got]]
    /\ IF attempt + 1 \in Attempts
       THEN attempt' = attempt + 1 /\ step' = "quote"
       ELSE attempt' = attempt /\ step' = "done"

\* from_cowswap_quote; `asked` and `best` keep what it was made from.
FromQuote(amount, q) ==
    [asked |-> amount, sell |-> SellAmount(q), buy |-> BuyLimit(q), best |-> q.buy,
     validTo |-> ValidTo]

\* The API deducts its fee from the amount asked for.
GetQuote ==
    /\ step = "quote"
    /\ \/ /\ \E amount \in Amounts, fee \in Fees, buy \in Quoted :
               quoted' = FromQuote(amount, [sell |-> amount - fee, fee |-> fee, buy |-> buy])
          /\ step' = "approve"
          /\ UNCHANGED <<attempt, answer>>
       \/ Faults /\ Return("error", 0) /\ UNCHANGED quoted
    /\ UNCHANGED <<clock, since, spendable, order>>

-----------------------------------------------------------------------------
(* execute_quote *)

\* approve_erc20_allowance, with the receipt of the approval.
Approve ==
    /\ step = "approve"
    /\ \/ /\ spendable' = IF spendable >= quoted.sell THEN spendable
                          ELSE quoted.sell * Amplifier
          /\ step' = "sleep"
          /\ UNCHANGED <<attempt, answer>>
       \/ Faults /\ Return("error", 0) /\ UNCHANGED spendable
    /\ UNCHANGED <<clock, quoted, since, order>>

Placed ==
    order' = [order EXCEPT ![attempt] =
                [NoOrder EXCEPT !.state = "open", !.sell = quoted.sell, !.buy = quoted.buy,
                                !.validTo = quoted.validTo]]

\* construct_order_request and the request; an order whose response is lost is
\* in the book all the same.
PlaceOrder ==
    /\ step = "place"
    /\ \/ Placed /\ step' = "poll" /\ since' = clock /\ UNCHANGED <<attempt, answer>>
       \/ Faults /\ (Placed \/ UNCHANGED order) /\ Return("error", 0) /\ UNCHANGED since
    /\ UNCHANGED <<clock, quoted, spendable>>

Expired == clock - since >= Wait

\* await_trade_execution
Poll ==
    /\ step = "poll"
    /\ ~Expired
    /\ \/ order[attempt].listed /\ Return("executed", order[attempt].got)
       \/ ~order[attempt].listed /\ step' = "wait" /\ UNCHANGED <<attempt, answer>>
       \/ Faults /\ Return("error", 0)
    /\ UNCHANGED <<clock, quoted, since, spendable, order>>

\* The order stays in the book: its valid_to is relied on.
GiveUp ==
    /\ step = "poll"
    /\ Expired
    /\ Return("nothing", 0)
    /\ UNCHANGED <<clock, quoted, since, spendable, order>>

-----------------------------------------------------------------------------
(* The order book, external, and the clock *)

\* A fill-or-kill order trades once, at its limit or better, while it is valid.
Trade(a) ==
    /\ order[a].state = "open"
    /\ clock < order[a].validTo
    /\ order[a].sell <= spendable
    /\ spendable' = spendable - order[a].sell
    /\ \E got \in {order[a].buy, order[a].buy + 1} :
         order' = [order EXCEPT ![a].state = "traded", ![a].got = got]
    /\ UNCHANGED <<clock, step, attempt, quoted, since, answer>>

\* The API lists a trade some time after it took place.
List(a) ==
    /\ order[a].state = "traded"
    /\ ~order[a].listed
    /\ order' = [order EXCEPT ![a].listed = TRUE]
    /\ UNCHANGED <<clock, step, attempt, quoted, since, spendable, answer>>

\* A second passes; the client sleeps one before it places an order, and one
\* between two polls.
Tick ==
    /\ clock < MaxTime
    /\ clock' = clock + 1
    /\ step' = CASE step = "sleep" -> "place" [] step = "wait" -> "poll" [] OTHER -> step
    /\ order' = [a \in Attempts |-> IF order[a].state = "open" /\ clock' >= order[a].validTo
                                    THEN [order[a] EXCEPT !.state = "expired"] ELSE order[a]]
    /\ UNCHANGED <<attempt, quoted, since, spendable, answer>>

Step == GetQuote \/ Approve \/ PlaceOrder \/ Poll \/ GiveUp

Next == Step \/ Tick \/ (\E a \in Attempts : Trade(a) \/ List(a))

Spec == Init /\ [][Next]_vars

-----------------------------------------------------------------------------
(* Properties *)

\* Types, and that only an order that traded is listed as a trade.
TypeOK ==
    /\ clock \in 0..MaxTime /\ attempt \in Attempts /\ spendable \in Nat
    /\ \A a \in Attempts : order[a].listed => order[a].state = "traded"

\* An order sells the whole amount asked for, its fee included, and buys at
\* least what was quoted less the slippage: no rounding is at our expense.
OrderWithinSlippage ==
    step # "quote" => /\ quoted.sell = quoted.asked
                      /\ quoted.buy * Bps >= quoted.best * (Bps - SlippageBps)

\* A swap that is answered as executed is the trade of its own order, for the
\* amount bought, at the limit or better; an order may trade unreported only
\* until the validity of its quote ends, so that no swap answered with nothing
\* is open longer than ValidFor - Wait after its answer.
TradeIsReported ==
    \A a \in Attempts :
        /\ answer[a].kind = "executed"
           => order[a].state = "traded" /\ answer[a].got = order[a].got
              /\ answer[a].got >= order[a].buy
        /\ a = attempt /\ step = "done" /\ answer[a].kind = "nothing" /\ order[a].state = "open"
           => clock < since + ValidFor

\* "For now we rely on the `valid_to` field to expire the order": waiting takes
\* half the validity of an order and placing it a second more, so that a caller
\* that asks again whenever nothing was bought has at most two orders that may
\* trade at any time.  (One that asks again after an error may have more.)
TwoOrdersOpen == Cardinality({a \in Attempts : order[a].state = "open"}) <= 2
=============================================================================
