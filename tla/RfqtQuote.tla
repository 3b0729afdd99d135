----------------------------- MODULE RfqtQuote -----------------------------
(***************************************************************************)
(* The RFQT connector of the auth server: one request of 0x's router runs  *)
(* the whole external match flow inside the server.  The malleable path    *)
(* quotes, caches the sponsorship of the quote, and assembles the quote at *)
(* once; the direct path assembles the order.  The requests of one API key *)
(* share its rate limits.  Prices are one to one.                          *)
(***************************************************************************)
EXTENDS Integers, FiniteSets

CONSTANTS
    Requests,       \* requests in flight, of one API key
    Amounts,        \* amounts a request may name
    Refunds,        \* refunds of gas sponsorship, zero included
    MaxAmount,      \* u128::MAX + 1
    QuoteLimit,     \* quote tokens of the window
    BundleLimit,    \* bundle tokens of the window
    None

VARIABLES
    stage,      \* of each request
    asked,      \* the RfqtQuoteRequest
    order,      \* the ExternalOrder made of it, as sent to the relayer
    quoteRes,   \* outcome of taking the quote token
    peekRes,    \* outcome of peeking at the bundle tokens
    info,       \* the GasSponsorshipInfo of the request context
    signed,     \* the quote the relayer signed
    cache,      \* the Redis entry of that quote
    sent,       \* the order or quote of the assemble request
    bundle,     \* the relayer's match bundle
    context,    \* the bundle context, keyed by the sponsorship nonce
    answer,     \* the RfqtQuoteResponse
    quoteUsed,  \* quote tokens taken in this window
    bundleUsed  \* bundle tokens taken in this window

vars == <<stage, asked, order, quoteRes, peekRes, info, signed, cache, sent, bundle,
          context, answer, quoteUsed, bundleUsed>>

\* Either the taker amount or the maker amount is given: exact names the maker's.
RfqtRequest == [malleable : BOOLEAN, exact : BOOLEAN, amount : Amounts, partial : BOOLEAN]

Info == [refund : Refunds, native : BOOLEAN]

Zero == [refund |-> 0, native |-> FALSE]

RequiresMatchResultUpdate(i) == ~i.native /\ i.refund > 0

\* The order with the exact output lowered by the refund, which wraps when the
\* refund is the larger.
Adjusted(o, i) ==
    IF o.exact /\ RequiresMatchResultUpdate(i)
    THEN [o EXCEPT !.output = (@ - i.refund) % MaxAmount] ELSE o

\* transform_rfqt_to_external_order
ExternalOrder(q) ==
    [input   |-> IF q.exact THEN 0 ELSE q.amount,
     output  |-> IF q.exact THEN q.amount ELSE 0,
     exact   |-> q.exact,
     minFill |-> IF q.exact \/ q.partial THEN 0 ELSE q.amount]

\* What the relayer may match of an order, at most.
Fills(o) == IF o.exact THEN {o.output} ELSE {a \in 1..o.input : a >= o.minFill}

\* A quote or bundle raised by an in-kind refund, and the reverse.
Raised(n, i) == IF RequiresMatchResultUpdate(i) THEN (n + i.refund) % MaxAmount ELSE n

Lowered(n, i) == IF RequiresMatchResultUpdate(i) THEN (n - i.refund) % MaxAmount ELSE n

Init ==
    /\ stage = [r \in Requests |-> "new"]
    /\ asked = [r \in Requests |-> None] /\ order = [r \in Requests |-> None]
    /\ quoteRes = [r \in Requests |-> None] /\ peekRes = [r \in Requests |-> None]
    /\ info = [r \in Requests |-> None] /\ signed = [r \in Requests |-> None]
    /\ cache = [r \in Requests |-> None] /\ sent = [r \in Requests |-> None]
    /\ bundle = [r \in Requests |-> None] /\ context = [r \in Requests |-> "none"]
    /\ answer = [r \in Requests |-> None]
    /\ quoteUsed = 0 /\ bundleUsed = 0

Moves(r, s, t) == stage[r] = s /\ stage' = [stage EXCEPT ![r] = t]

-----------------------------------------------------------------------------
(* Before the relayer *)

\* rfqt_pre_request for an authorised key and a valid pair.
Receive(r, q) ==
    /\ Moves(r, "new", IF q.malleable THEN "limits" ELSE "assemble")
    /\ asked' = [asked EXCEPT ![r] = q]
    /\ order' = [order EXCEPT ![r] = ExternalOrder(q)]
    /\ UNCHANGED <<quoteRes, peekRes, info, signed, cache, sent, bundle, context, answer,
                   quoteUsed, bundleUsed>>

\* The two futures that quote_pre_request joins.
TakeQuoteToken(r) ==
    /\ stage[r] = "limits" /\ quoteRes[r] = None
    /\ IF quoteUsed < QuoteLimit
       THEN quoteUsed' = quoteUsed + 1 /\ quoteRes' = [quoteRes EXCEPT ![r] = "ok"]
       ELSE UNCHANGED quoteUsed /\ quoteRes' = [quoteRes EXCEPT ![r] = "limited"]
    /\ UNCHANGED <<stage, asked, order, peekRes, info, signed, cache, sent, bundle, context,
                   answer, bundleUsed>>

PeekTakesToken(r) ==
    /\ stage[r] = "limits" /\ peekRes[r] = None
    /\ IF bundleUsed < BundleLimit
       THEN bundleUsed' = bundleUsed + 1 /\ peekRes' = [peekRes EXCEPT ![r] = "ok"]
       ELSE UNCHANGED bundleUsed /\ peekRes' = [peekRes EXCEPT ![r] = "limited"]
    /\ UNCHANGED <<stage, asked, order, quoteRes, info, signed, cache, sent, bundle, context,
                   answer, quoteUsed>>

PeekBundleLimit(r) ==
    /\ stage[r] = "limits" /\ peekRes[r] = None
    /\ peekRes' = [peekRes EXCEPT ![r] = IF bundleUsed >= BundleLimit THEN "limited" ELSE "ok"]
    /\ UNCHANGED <<stage, asked, order, quoteRes, info, signed, cache, sent, bundle, context,
                   answer, quoteUsed, bundleUsed>>

\* Either limit exceeded is no content.
QuoteLimited(r) ==
    /\ quoteRes[r] # None /\ peekRes[r] # None
    /\ "limited" \in {quoteRes[r], peekRes[r]}
    /\ Moves(r, "limits", "no content")
    /\ UNCHANGED <<asked, order, quoteRes, peekRes, info, signed, cache, sent, bundle, context,
                   answer, quoteUsed, bundleUsed>>

\* sponsor_quote_request
SponsorQuote(r, i) ==
    /\ quoteRes[r] = "ok" /\ peekRes[r] = "ok"
    /\ Moves(r, "limits", "quote")
    /\ info' = [info EXCEPT ![r] = i]
    /\ order' = [order EXCEPT ![r] = Adjusted(@, i)]
    /\ UNCHANGED <<asked, quoteRes, peekRes, signed, cache, sent, bundle, context, answer,
                   quoteUsed, bundleUsed>>

-----------------------------------------------------------------------------
(* The quote and its assembly *)

\* The relayer signs a quote for an amount.
RelayerQuotes(r) ==
    /\ Moves(r, "quote", "quoted")
    /\ \E a \in Fills(order[r]) : signed' = [signed EXCEPT ![r] = a]
    /\ UNCHANGED <<asked, order, quoteRes, peekRes, info, cache, sent, bundle, context, answer,
                   quoteUsed, bundleUsed>>

\* A response other than 200 is forwarded as it is.
RelayerDeclines(r) ==
    /\ \/ Moves(r, "quote", "forwarded")
       \/ Moves(r, "matching", "forwarded")
    /\ UNCHANGED <<asked, order, quoteRes, peekRes, info, signed, cache, sent, bundle, context,
                   answer, quoteUsed, bundleUsed>>

\* The sponsorship of the quote is written before the quote is assembled.
CacheSponsorship(r) ==
    /\ Moves(r, "quoted", "assemble")
    /\ cache' = [cache EXCEPT ![r] = IF RequiresMatchResultUpdate(info[r]) THEN info[r] ELSE None]
    /\ UNCHANGED <<asked, order, quoteRes, peekRes, info, signed, sent, bundle, context, answer,
                   quoteUsed, bundleUsed>>

\* Redis does not take the write: the request ends with an error.
CacheFails(r) ==
    /\ Moves(r, "quoted", "failed")
    /\ RequiresMatchResultUpdate(info[r])
    /\ UNCHANGED <<asked, order, quoteRes, peekRes, info, signed, cache, sent, bundle, context,
                   answer, quoteUsed, bundleUsed>>

TakeBundleToken(r) ==
    /\ bundleUsed < BundleLimit
    /\ Moves(r, "assemble", "sponsor")
    /\ bundleUsed' = bundleUsed + 1
    /\ UNCHANGED <<asked, order, quoteRes, peekRes, info, signed, cache, sent, bundle, context,
                   answer, quoteUsed>>

BundleLimited(r) ==
    /\ bundleUsed >= BundleLimit
    /\ Moves(r, "assemble", "no content")
    /\ UNCHANGED <<asked, order, quoteRes, peekRes, info, signed, cache, sent, bundle, context,
                   answer, quoteUsed, bundleUsed>>

\* What the assembly takes from Redis: nothing cached, and a read that fails,
\* are no sponsorship.
Cached(r) == {Zero} \cup ({cache[r]} \ {None})

\* sponsor_quoted_order: i is what Redis returned.  The quote the request
\* carries is the one raised by CacheSponsorship.
SponsorQuoted(r, i) ==
    /\ Moves(r, "sponsor", "matching")
    /\ asked[r].malleable
    /\ sent' = [sent EXCEPT ![r] = Lowered(Raised(signed[r], info[r]), i)]
    /\ info' = [info EXCEPT ![r] = i]
    /\ UNCHANGED <<asked, order, quoteRes, peekRes, signed, cache, bundle, context, answer,
                   quoteUsed, bundleUsed>>

\* sponsor_direct_order
SponsorDirect(r, i) ==
    /\ Moves(r, "sponsor", "matching")
    /\ ~asked[r].malleable
    /\ info' = [info EXCEPT ![r] = i]
    /\ order' = [order EXCEPT ![r] = Adjusted(@, i)]
    /\ UNCHANGED <<asked, quoteRes, peekRes, signed, cache, sent, bundle, context, answer,
                   quoteUsed, bundleUsed>>

\* The relayer verifies its signature on a quote, and matches.
RelayerMatches(r) ==
    /\ Moves(r, "matching", "matched")
    /\ asked[r].malleable => sent[r] = signed[r]
    /\ \E a \in Fills(order[r]) :
          /\ asked[r].malleable => a = signed[r]
          /\ bundle' = [bundle EXCEPT ![r] = [receive |-> a, send |-> a, nonce |-> None]]
    /\ UNCHANGED <<asked, order, quoteRes, peekRes, info, signed, cache, sent, context, answer,
                   quoteUsed, bundleUsed>>

-----------------------------------------------------------------------------
(* The response *)

\* construct_sponsored_match_response: calldata for the gas sponsor, which
\* holds the nonce, and the amounts after the refund.
SponsoredBundle(r) == [bundle[r] EXCEPT !.receive = Raised(@, info[r]), !.nonce = r]

\* The response that a client reads, and what its calldata does on chain.
Response(b, calldata) == [maker |-> b.receive, taker |-> b.send, calldata |-> calldata]

AnswerWithMixedBundle(r) ==
    /\ Moves(r, "matched", "answered")
    /\ context' = [context EXCEPT ![r] = "pending"]
    /\ answer' = [answer EXCEPT ![r] = Response(SponsoredBundle(r), bundle[r])]
    /\ UNCHANGED <<asked, order, quoteRes, peekRes, info, signed, cache, sent, bundle,
                   quoteUsed, bundleUsed>>

\* assembly_post_request builds the sponsored response and spawns the task
\* that stores the bundle context; rfqt_post_request then writes a response
\* built from the bundle of the response context, which is the relayer's.
Answer(r) ==
    /\ Moves(r, "matched", "answered")
    /\ context' = [context EXCEPT ![r] = "pending"]
    /\ answer' = [answer EXCEPT ![r] = Response(bundle[r], bundle[r])]
    /\ UNCHANGED <<asked, order, quoteRes, peekRes, info, signed, cache, sent, bundle,
                   quoteUsed, bundleUsed>>

\* write_bundle_context, in the spawned task.
StoreContext(r) ==
    /\ context[r] = "pending"
    /\ context' = [context EXCEPT ![r] = "stored"]
    /\ UNCHANGED <<stage, asked, order, quoteRes, peekRes, info, signed, cache, sent, bundle,
                   answer, quoteUsed, bundleUsed>>

\* The bundle settles on chain.  The listener looks the nonce of the calldata
\* up in the bundle store, and returns the bundle token of the context.
Settle(r) ==
    LET n == answer[r].calldata.nonce
    IN  /\ Moves(r, "answered", "settled")
        /\ IF n # None /\ context[n] = "stored"
           THEN /\ context' = [context EXCEPT ![n] = "none"]
                /\ bundleUsed' = bundleUsed - 1
           ELSE UNCHANGED <<context, bundleUsed>>
        /\ UNCHANGED <<asked, order, quoteRes, peekRes, info, signed, cache, sent, bundle,
                       answer, quoteUsed>>

Next ==
    \E r \in Requests :
        \/ \E q \in RfqtRequest : Receive(r, q)
        \/ TakeQuoteToken(r) \/ PeekBundleLimit(r) \/ QuoteLimited(r)
        \/ \E i \in Info : SponsorQuote(r, i)
        \/ RelayerQuotes(r) \/ RelayerDeclines(r)
        \/ CacheSponsorship(r) \/ CacheFails(r)
        \/ TakeBundleToken(r) \/ BundleLimited(r)
        \/ \E i \in Cached(r) : SponsorQuoted(r, i)
        \/ \E i \in Info : SponsorDirect(r, i)
        \/ RelayerMatches(r) \/ Answer(r) \/ StoreContext(r) \/ Settle(r)

Spec == Init /\ [][Next]_vars

-----------------------------------------------------------------------------
(* Properties *)

Answered == {"answered", "settled"}

TypeOK ==
    /\ stage \in [Requests -> {"new", "limits", "quote", "quoted", "assemble", "sponsor",
                               "matching", "matched", "no content", "failed", "forwarded"}
                              \cup Answered]
    /\ asked \in [Requests -> RfqtRequest \cup {None}]
    /\ info \in [Requests -> Info \cup {None}]
    /\ cache \in [Requests -> Info \cup {None}]
    /\ \A r \in Requests : sent[r] # None => sent[r] \in Nat
    /\ context \in [Requests -> {"none", "pending", "stored"}]
    /\ quoteUsed \in 0..QuoteLimit /\ bundleUsed \in 0..BundleLimit

\* Caching the sponsorship asynchronously "would race the internal assemble
\* step here": as it is, the relayer is sent the quote it signed whenever
\* Redis answers, that is unless an entry is there and was not read.
QuoteReachesAssembly ==
    \A r \in Requests :
        stage[r] \in {"matching", "matched"} /\ asked[r].malleable
        => sent[r] = signed[r] \/ (cache[r] # None /\ info[r] = Zero)

\* What the taker is told to send and to receive is what the calldata of the
\* same response moves on chain.
PromisedIsSettled ==
    \A r \in Requests :
        stage[r] \in Answered =>
            /\ answer[r].maker = answer[r].calldata.receive
               + (IF answer[r].calldata.nonce = None \/ info[r].native THEN 0 ELSE info[r].refund)
            /\ answer[r].taker = answer[r].calldata.send

\* A request with a taker amount is filled in full unless partial fills are
\* allowed, never over it; one with a maker amount and no refund in kind is
\* answered with that amount.
FilledAsAsked ==
    \A r \in Requests :
        stage[r] \in Answered =>
            LET q == asked[r]
            IN  IF q.exact
                THEN ~RequiresMatchResultUpdate(info[r]) => answer[r].maker = q.amount
                ELSE /\ answer[r].taker <= q.amount
                     /\ ~q.partial => answer[r].taker = q.amount

\* The bundle tokens taken are those of the requests that went on to assembly:
\* a request that only peeked, was limited or was declined a quote holds none.
\* Quote tokens are taken by malleable requests only.
TokensOfRequests ==
    /\ bundleUsed <= Cardinality({r \in Requests :
           stage[r] \in {"sponsor", "matching", "matched", "forwarded"} \cup Answered
           /\ (stage[r] = "forwarded" => sent[r] # None \/ ~asked[r].malleable)})
    /\ quoteUsed = Cardinality({r \in Requests : quoteRes[r] = "ok"})
    /\ \A r \in Requests : quoteRes[r] # None => asked[r].malleable

=============================================================================
