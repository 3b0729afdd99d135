---- MODULE SponsorRefill ----
(***************************************************************************)
(* The quoter hot wallet buys tokens: a swap request covers the balance of  *)
(* one token by selling others, and a refill of the gas sponsors first      *)
(* covers all tokens the sponsor lacks, through USDC, and then sends them.  *)
(* A swap is what SwapDecay makes of it: some of the size, or nothing.      *)
(* Amounts are whole units of a token, values whole dollars, rounded down.  *)
(***************************************************************************)
EXTENDS Integers, Sequences, FiniteSets, SequencesExt, FiniteSetsExt, Functions

CONSTANTS
    Requests,    \* concurrent requests
    Kind,        \* of each request: "refill" or "swap"
    Sponsors,    \* gas_sponsor_addresses, a sequence
    Tokens,      \* the tokens of the chain, a sequence
    USDC,        \* the quote token, whose price is 1
    Price,       \* dollars per unit of each token
    Held,        \* values the hot wallet may start with in a token
    Reserves,    \* values a sponsor may start with in a token
    Targets,     \* target_amount of a swap request, as a value
    Ether,       \* values the gas wallet may start with
    Desired,     \* DESIRED_GAS_SPONSORSHIP_RESERVE_VALUE
    MinValue,    \* MIN_TRANSFER_VALUE and MIN_SWAP_QUOTE_AMOUNT
    Faults       \* may lookups, swaps and transfers fail?

TokenSet == Range(Tokens)
SponsorSet == Range(Sponsors)

VARIABLES
    wallet,      \* the hot wallet: units of each token
    reserve,     \* of each sponsor: units of each token
    gasEther,    \* value of the gas wallet's ether
    ether,       \* value of each sponsor's ether
    req          \* the requests under way

vars == <<wallet, reserve, gasEther, ether, req>>

Request ==
    [pc : {"begin", "ether", "find", "plan", "cover", "swap", "buy", "send", "done"},
     sponsor : 1..(Len(Sponsors) + 1),
     todo : Seq(TokenSet \X Nat),      \* tokens_needing_refill still to be sent
     needs : [TokenSet -> Nat],        \* tokens_needing_refill, as a function
     buys : Seq(TokenSet \X Nat),      \* filtered_purchase_values still to be bought
     target : TokenSet, amount : Nat, exclude : SUBSET TokenSet,
     cands : Seq(TokenSet \X Nat),     \* swap candidates with the balance read
     remaining : Int,                  \* remaining_amount_usdc
     spent : Nat,                      \* value sold for this target
     unseen : Nat,                     \* that of it which no outcome reported
     unsent : SUBSET TokenSet]         \* tokens whose transfer failed

TypeOK ==
    /\ wallet \in [TokenSet -> Nat]
    /\ reserve \in [SponsorSet -> [TokenSet -> Nat]]
    /\ gasEther \in Nat /\ ether \in [SponsorSet -> Nat]
    /\ req \in [Requests -> Request]

Nothing == [t \in TokenSet |-> 0]

Idle == [pc |-> "begin", sponsor |-> 1, todo |-> <<>>, needs |-> Nothing, buys |-> <<>>,
         target |-> USDC, amount |-> 0, exclude |-> {}, cands |-> <<>>,
         remaining |-> 0, spent |-> 0, unseen |-> 0, unsent |-> {}]

Init ==
    /\ wallet \in {[t \in TokenSet |-> v[t] \div Price[t]] : v \in [TokenSet -> Held]}
    /\ reserve \in [SponsorSet -> {[t \in TokenSet |-> v[t] \div Price[t]] :
                                      v \in [TokenSet -> Reserves]}]
    /\ gasEther \in Ether /\ ether = [s \in SponsorSet |-> 0]
    /\ req = [r \in Requests |-> Idle]

Set(r, new) == req' = [req EXCEPT ![r] = new]

----------------------------------------------------------------------------

\* SWAP_TO_COVER_BUFFER
Buffered(v) == (v * 11) \div 10

Value(t, units) == units * Price[t]

Begin(r) ==
    /\ req[r].pc = "begin"
    /\ IF Kind[r] = "refill"
         THEN Set(r, [req[r] EXCEPT !.pc = "ether"])
         ELSE \E t \in TokenSet, v \in Targets :
                Set(r, [req[r] EXCEPT !.pc = "cover", !.target = t,
                            !.amount = v \div Price[t], !.exclude = {t}])
    /\ UNCHANGED <<wallet, reserve, gasEther, ether>>

Sponsor(r) == Sponsors[req[r].sponsor]

\* refill_gas_sponsor_eth: a failed transfer is logged, a failed lookup ends the
\* whole request.
RefillEther(r) ==
    LET s == Sponsor(r)
        short == Desired - ether[s]
    IN
    /\ req[r].pc = "ether"
    /\ \/ /\ (ether[s] >= Desired - MinValue \/ gasEther < short \/ Faults)
          /\ Set(r, [req[r] EXCEPT !.pc = "find"])
          /\ UNCHANGED <<gasEther, ether>>
       \/ /\ ether[s] < Desired - MinValue /\ gasEther >= short
          /\ gasEther' = gasEther - short
          /\ ether' = [ether EXCEPT ![s] = Desired]
          /\ Set(r, [req[r] EXCEPT !.pc = "find"])
       \/ /\ Faults
          /\ Set(r, [req[r] EXCEPT !.pc = "done"])
          /\ UNCHANGED <<gasEther, ether>>
    /\ UNCHANGED <<wallet, reserve>>

NeedsRefill(s, t) == Value(t, reserve[s][t]) < Desired - MinValue

\* get_tokens_needing_refill: a token whose lookup fails is skipped.
FindTokens(r) ==
    LET s == Sponsor(r)
        short(t) == (Desired - Value(t, reserve[s][t])) \div Price[t]
    IN
    /\ req[r].pc = "find"
    /\ \E skipped \in IF Faults THEN SUBSET TokenSet ELSE {{}} :
        LET needed == SelectSeq(Tokens, LAMBDA t : NeedsRefill(s, t) /\ t \notin skipped)
        IN  Set(r, [req[r] EXCEPT
                !.pc = "plan",
                !.todo = [i \in DOMAIN needed |-> <<needed[i], short(needed[i])>>],
                !.needs = [t \in TokenSet |-> IF t \in Range(needed) THEN short(t) ELSE 0]])
    /\ UNCHANGED <<wallet, reserve, gasEther, ether>>

\* Where a request goes on when its cover is done, or failed.
Covered(r) == IF Kind[r] = "swap" THEN "done" ELSE "buy"

FailedEnds(r) == "done"

Failed(r) == IF Kind[r] = "swap" THEN "done" ELSE "send"

\* get_multi_swap_purchase_values, and the target of buy_usdc_for_multi_swap.
PlanPurchases(r) ==
    LET todo == req[r].todo
        lack(e) == IF wallet[e[1]] >= e[2] THEN 0 ELSE Value(e[1], e[2] - wallet[e[1]])
        all == [i \in DOMAIN todo |-> <<todo[i][1], lack(todo[i])>>]
        total == FoldLeft(LAMBDA sum, e : sum + e[2], 0, all)
    IN
    /\ req[r].pc = "plan"
    /\ \/ Set(r, [req[r] EXCEPT
              !.pc = IF total = 0 THEN "buy" ELSE "cover",
              !.buys = SelectSeq(all, LAMBDA e : e[2] > 0 /\ e[1] # USDC),
              !.target = USDC, !.amount = total, !.spent = 0, !.unseen = 0,
              !.exclude = {e[1] : e \in Range(todo)} \cup {USDC}])
       \/ Faults /\ Set(r, [req[r] EXCEPT !.pc = Failed(r)])
    /\ UNCHANGED <<wallet, reserve, gasEther, ether>>

CandidatesOfAny(exclude) ==
    SortSeq([i \in DOMAIN Tokens |-> <<Tokens[i], wallet[Tokens[i]]>>],
            LAMBDA a, b : Value(a[1], a[2]) > Value(b[1], b[2]))

\* get_swap_candidates: by descending value.
Candidates(exclude) ==
    LET from == SelectSeq(Tokens, LAMBDA t : t \notin exclude)
    IN  SortSeq([i \in DOMAIN from |-> <<from[i], wallet[from[i]]>>],
                LAMBDA a, b : Value(a[1], a[2]) > Value(b[1], b[2]))

\* try_swap_into_target_token, up to its loop.
Cover(r) ==
    LET q == req[r]
        lack == Value(q.target, q.amount - wallet[q.target])
    IN
    /\ q.pc = "cover"
    /\ \/ lack < MinValue /\ Set(r, [q EXCEPT !.pc = Covered(r)])
       \/ lack >= MinValue /\ Set(r, [q EXCEPT !.pc = "swap", !.cands = Candidates(q.exclude),
                                          !.remaining = Buffered(lack)])
       \/ Faults /\ Set(r, [q EXCEPT !.pc = Failed(r), !.buys = <<>>])
    /\ UNCHANGED <<wallet, reserve, gasEther, ether>>

\* What swap_immediate_decaying may sell of a size: all, less after halvings, or
\* nothing, and with that what attempts sold that it took for failed (SoldAsSeen
\* of SwapDecay).  It trades only what the wallet holds and sizes of at least
\* MinValue.
Executed(from, units) ==
    IF wallet[from] < units \/ Value(from, units) < MinValue THEN {[seen |-> 0, unseen |-> 0]}
    ELSE IF Faults
    THEN {o \in [seen : {0, units \div 2, units}, unseen : {0, units}] :
             o.seen + o.unseen <= wallet[from]}
    ELSE {[seen |-> units, unseen |-> 0]}

\* The swap sells at the reference price.
Trade(from, to, units) ==
    wallet' = [wallet EXCEPT ![from] = @ - units,
                             ![to] = @ + (Value(from, units) \div Price[to])]

SizeWholeBalance(t, bal, remaining) == bal

\* try_swap_candidate: the whole balance, or what covers the rest.
Size(t, bal, remaining) ==
    IF Value(t, bal) <= remaining THEN bal ELSE remaining \div Price[t]

\* What a swap takes off remaining_amount_usdc: the amount bought, in units of
\* the target token.
Count(from, to, units) == Value(from, units) \div Price[to]

\* One candidate of execute_swaps_into_target_token.
SwapCandidate(r) ==
    LET q == req[r] IN
    /\ q.pc = "swap"
    /\ IF q.cands = <<>> \/ q.remaining < MinValue
         THEN Set(r, [q EXCEPT !.pc = Covered(r), !.cands = <<>>]) /\ UNCHANGED wallet
         ELSE LET c == Head(q.cands)
                  size == Size(c[1], c[2], q.remaining)
              IN  \E o \in Executed(c[1], size) :
                    /\ Trade(c[1], q.target, o.seen + o.unseen)
                    /\ Set(r, [q EXCEPT !.cands = Tail(q.cands),
                           !.remaining = @ - Count(c[1], q.target, o.seen),
                           !.spent = @ + Value(c[1], o.seen + o.unseen),
                           !.unseen = @ + Value(c[1], o.unseen)])
    /\ UNCHANGED <<reserve, gasEther, ether>>

\* One purchase of multi_swap_into_target_tokens; none and an error are logged.
BuyToken(r) ==
    LET q == req[r] IN
    /\ q.pc = "buy"
    /\ IF q.buys = <<>> THEN Set(r, [q EXCEPT !.pc = "send"]) /\ UNCHANGED wallet
       ELSE LET b == Head(q.buys)
                size == Buffered(b[2])
            IN  \E o \in Executed(USDC, size) :
                  /\ Trade(USDC, b[1], o.seen + o.unseen)
                  /\ Set(r, [q EXCEPT !.buys = Tail(q.buys)])
    /\ UNCHANGED <<reserve, gasEther, ether>>

\* MAX_REFILL_REDUCTION_FACTOR
Reduced(units) == (units * 9999) \div 10000

SendAmountAllOrNothing(bal, amount) == IF bal <= amount THEN 0 ELSE amount

SendAmount(bal, amount) == IF bal <= amount THEN Reduced(bal) ELSE amount

\* send_token_to_gas_sponsor for each token, and on to the next sponsor.
SendToken(r) ==
    LET q == req[r]
        s == Sponsor(r)
        t == Head(q.todo)[1]
        units == SendAmount(wallet[t], Head(q.todo)[2])
    IN
    /\ q.pc = "send" /\ q.todo # <<>>
    /\ \/ /\ Value(t, units) >= MinValue
          /\ wallet' = [wallet EXCEPT ![t] = @ - units]
          /\ reserve' = [reserve EXCEPT ![s][t] = @ + units]
          /\ Set(r, [q EXCEPT !.todo = Tail(q.todo)])
       \/ /\ (Value(t, units) < MinValue \/ Faults)
          /\ Set(r, [q EXCEPT !.todo = Tail(q.todo),
                              !.unsent = IF Value(t, units) < MinValue THEN @ ELSE @ \cup {t}])
          /\ UNCHANGED <<wallet, reserve>>
    /\ UNCHANGED <<gasEther, ether>>

NextSponsor(r) ==
    /\ req[r].pc = "send" /\ req[r].todo = <<>>
    /\ Set(r, IF req[r].sponsor = Len(Sponsors)
                THEN [req[r] EXCEPT !.pc = "done", !.sponsor = @ + 1]
                ELSE [Idle EXCEPT !.pc = "ether", !.sponsor = req[r].sponsor + 1])
    /\ UNCHANGED <<wallet, reserve, gasEther, ether>>

Step(r) ==
    \/ Begin(r) \/ RefillEther(r) \/ FindTokens(r) \/ PlanPurchases(r) \/ Cover(r)
    \/ SwapCandidate(r) \/ BuyToken(r) \/ SendToken(r) \/ NextSponsor(r)

Next == \E r \in Requests : Step(r)

Spec == Init /\ [][Next]_vars

FairSpec == Spec /\ \A r \in Requests : WF_vars(Step(r))

----------------------------------------------------------------------------

\* "The desired USDC value of the gas sponsor's reserves in each token": a
\* refill never sends more than what was missing.
ReserveCapped ==
    \A s \in SponsorSet, t \in TokenSet : Value(t, reserve[s][t]) <= Desired

\* "A swap failure must not block sending tokens the quoter wallet already
\* holds": once all tokens were sent, the sponsor has all it needed of a token,
\* or the wallet has nothing worth sending, or the transfer itself failed.
HeldTokensSent ==
    \A r \in Requests :
        req[r].pc = "done" /\ req[r].sponsor > Len(Sponsors) =>
            \A t \in TokenSet \ req[r].unsent :
                req[r].needs[t] > 0 =>
                    \/ Value(t, reserve[Last(Sponsors)][t] + 1) > Desired
                    \/ Value(t, Reduced(wallet[t])) < MinValue

\* A request never ends early because a token could not be bought.
GoesOnToSend ==
    \A r \in Requests :
        Kind[r] = "refill" /\ req[r].pc \in {"plan", "cover", "swap", "buy"} =>
            req'[r].pc # "done"

\* "excluding the target tokens from the swap path": while USDC is bought for a
\* refill no token is sold that the sponsor needs.
SellsNoTarget ==
    \A r \in Requests, t \in TokenSet :
        req[r].pc = "swap" /\ req[r].needs[t] > 0 => wallet'[t] >= wallet[t]

\* "We increase the amount to cover by a fixed buffer": covering an amount of
\* USDC sells no more than that amount and the buffer, over all candidates.  What
\* is sold by an attempt that was taken for failed is not counted off, and comes
\* on top.
UsdcWithinBuffer ==
    \A r \in Requests :
        req[r].target = USDC => req[r].spent - req[r].unseen <= Buffered(req[r].amount)

====
