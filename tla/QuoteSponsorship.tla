-------------------------- MODULE QuoteSponsorship --------------------------
(***************************************************************************)
(* Gas sponsorship from a quote to the bundle assembled from it.  The auth *)
(* server lowers an exact output amount by the refund before the relayer   *)
(* signs the quote, raises the signed quote by the refund for the client,  *)
(* and caches what it takes to undo that in Redis from a task spawned with *)
(* the response.  At assembly it undoes the change, because the relayer    *)
(* verifies its signature, and applies the cached sponsorship.             *)
(***************************************************************************)
EXTENDS Integers

CONSTANTS
    Quotes,     \* quotes, named by their signature
    Amounts,    \* output amounts
    Input,      \* the input amount of the order
    Refunds,    \* refund amounts, zero included
    MaxAmount,  \* u128::MAX + 1
    None        \* nothing cached, nothing sent

VARIABLES
    stage,      \* of each quote, as seen by its client
    wanted,     \* the order of the client
    info,       \* the GasSponsorshipInfo of the quote
    signed,     \* the quote the relayer signed
    shown,      \* the quote the client received
    writing,    \* what the spawned task has yet to do
    cache,      \* the Redis entry
    expires,    \* whether the entry has an expiry
    sent,       \* the quote and the updated order sent at assembly
    applied     \* the GasSponsorshipInfo of the bundle

vars == <<stage, wanted, info, signed, shown, writing, cache, expires, sent, applied>>

Info == [refund : Refunds, native : BOOLEAN]

Zero == [refund |-> 0, native |-> FALSE]

\* The order of a client: an exact output amount, or one to be priced.
Order == [exact : BOOLEAN, output : Amounts]

RequiresMatchResultUpdate(i) == ~i.native /\ i.refund > 0

RequiresExactOutputUpdate(o, i) == o.exact /\ RequiresMatchResultUpdate(i)

\* u128 arithmetic wraps: the release profile does not check for overflow, and
\* nothing compares a refund with the output it is taken from.
Plus(a, n) == (a + n) % MaxAmount

Minus(a, n) == (a - n) % MaxAmount

ApplyToExactOutput(o, i) == [o EXCEPT !.output = Minus(@, i.refund)]

RemoveFromExactOutput(o, i) == [o EXCEPT !.output = Plus(@, i.refund)]

\* maybe_sponsor_order
Adjusted(o, i) == IF RequiresExactOutputUpdate(o, i) THEN ApplyToExactOutput(o, i) ELSE o

\* The quote raised by the refund; its price is recomputed from the amounts.
ApplyToQuote(q, i) ==
    [order   |-> IF RequiresExactOutputUpdate(q.order, i) THEN RemoveFromExactOutput(q.order, i)
                 ELSE q.order,
     output  |-> Plus(q.output, i.refund),
     receive |-> Plus(q.receive, i.refund),
     price   |-> <<Plus(q.output, i.refund), Input>>]

RemoveFromQuoteKeepingPrice(q, c) ==
    [q EXCEPT !.output = Minus(@, c.info.refund), !.receive = Minus(@, c.info.refund),
              !.order = Adjusted(@, c.info)]

\* The reverse, with the price the relayer signed.
RemoveFromQuote(q, c) ==
    [order   |-> Adjusted(q.order, c.info),
     output  |-> Minus(q.output, c.info.refund),
     receive |-> Minus(q.receive, c.info.refund),
     price   |-> c.price]

Init ==
    /\ stage = [q \in Quotes |-> "new"]
    /\ wanted = [q \in Quotes |-> None] /\ info = [q \in Quotes |-> None]
    /\ signed = [q \in Quotes |-> None] /\ shown = [q \in Quotes |-> None]
    /\ writing = [q \in Quotes |-> "nothing"]
    /\ cache = [q \in Quotes |-> None]
    /\ expires = [q \in Quotes |-> FALSE]
    /\ sent = [q \in Quotes |-> None] /\ applied = [q \in Quotes |-> None]

-----------------------------------------------------------------------------
(* The quote request *)

\* An order and the refund it is given: see MatchRequest.
RequestQuote(q, o, i) ==
    /\ stage[q] = "new"
    /\ stage' = [stage EXCEPT ![q] = "requested"]
    /\ wanted' = [wanted EXCEPT ![q] = o]
    /\ info' = [info EXCEPT ![q] = i]
    /\ UNCHANGED <<signed, shown, writing, cache, expires, sent, applied>>

\* The relayer quotes the adjusted order: an exact output is what the client
\* receives, otherwise the output is any amount; a fee is taken from it.  It
\* may sign an output that wrapped like any other.
RelayerSigns(q) ==
    /\ stage[q] = "requested"
    /\ stage' = [stage EXCEPT ![q] = "signed"]
    /\ LET o == Adjusted(wanted[q], info[q])
       IN  \E out \in Amounts, fee \in {0, 1} :
              /\ o.output + fee < MaxAmount
              /\ signed' = [signed EXCEPT ![q] =
                     [order |-> o, price |-> "relayer price",
                      output |-> IF o.exact THEN o.output + fee ELSE out,
                      receive |-> IF o.exact THEN o.output ELSE out - fee]]
    /\ UNCHANGED <<wanted, info, shown, writing, cache, expires, sent, applied>>

\* The response, and the task that caches the sponsorship.
AnswerQuote(q) ==
    /\ stage[q] = "signed"
    /\ stage' = [stage EXCEPT ![q] = "answered"]
    /\ IF RequiresMatchResultUpdate(info[q])
       THEN /\ shown' = [shown EXCEPT ![q] = ApplyToQuote(signed[q], info[q])]
            /\ writing' = [writing EXCEPT ![q] = "set"]
       ELSE /\ shown' = [shown EXCEPT ![q] = signed[q]]
            /\ UNCHANGED writing
    /\ UNCHANGED <<wanted, info, signed, cache, expires, sent, applied>>

CacheSet(q) ==
    /\ writing[q] = "set"
    /\ cache' = [cache EXCEPT ![q] = [info |-> info[q], price |-> signed[q].price]]
    /\ writing' = [writing EXCEPT ![q] = "pexpire"]
    /\ UNCHANGED <<stage, wanted, info, signed, shown, expires, sent, applied>>

CachePexpire(q) ==
    /\ writing[q] = "pexpire"
    /\ expires' = [expires EXCEPT ![q] = TRUE]
    /\ writing' = [writing EXCEPT ![q] = "nothing"]
    /\ UNCHANGED <<stage, wanted, info, signed, shown, cache, sent, applied>>

\* Redis fails, or the process ends: the task is gone.
CacheFails(q) ==
    /\ writing[q] # "nothing"
    /\ writing' = [writing EXCEPT ![q] = "nothing"]
    /\ UNCHANGED <<stage, wanted, info, signed, shown, cache, expires, sent, applied>>

\* MAX_QUOTE_AGE_MS has passed.
CacheExpires(q) ==
    /\ expires[q]
    /\ cache' = [cache EXCEPT ![q] = None]
    /\ expires' = [expires EXCEPT ![q] = FALSE]
    /\ UNCHANGED <<stage, wanted, info, signed, shown, writing, sent, applied>>

-----------------------------------------------------------------------------
(* The assembly request *)

\* sponsor_quoted_order, for the quote as the client received it and an order
\* the client may have updated.
AssembleFound(q, o) ==
    LET c == cache[q]
    IN  /\ stage[q] = "answered"
        /\ c # None
        /\ stage' = [stage EXCEPT ![q] = "assembled"]
        /\ sent' = [sent EXCEPT ![q] =
               [quote |-> IF RequiresMatchResultUpdate(c.info) THEN RemoveFromQuote(shown[q], c)
                          ELSE shown[q],
                asked |-> o, order |-> Adjusted(o, c.info)]]
        /\ applied' = [applied EXCEPT ![q] = c.info]
        /\ UNCHANGED <<wanted, info, signed, shown, writing, cache, expires>>

\* Nothing is cached, or Redis does not answer: no sponsorship.
AssembleMissing(q, o) ==
    /\ stage[q] = "answered"
    /\ stage' = [stage EXCEPT ![q] = "assembled"]
    /\ sent' = [sent EXCEPT ![q] = [quote |-> shown[q], asked |-> o, order |-> o]]
    /\ applied' = [applied EXCEPT ![q] = Zero]
    /\ UNCHANGED <<wanted, info, signed, shown, writing, cache, expires>>

Next ==
    \E q \in Quotes :
        \/ \E o \in Order, i \in Info : RequestQuote(q, o, i)
        \/ RelayerSigns(q) \/ AnswerQuote(q)
        \/ CacheSet(q) \/ CachePexpire(q) \/ CacheFails(q) \/ CacheExpires(q)
        \/ \E o \in Order : AssembleFound(q, o) \/ AssembleMissing(q, o)

Spec == Init /\ [][Next]_vars

-----------------------------------------------------------------------------
(* Properties *)

\* The stages, and amounts that are u128.
AmountsOK ==
    \A q \in Quotes :
        /\ stage[q] \in {"new", "requested", "signed", "answered", "assembled"}
        /\ shown[q] # None => {shown[q].output, shown[q].order.output} \subseteq 0..(MaxAmount - 1)
        /\ sent[q] # None => {sent[q].quote.output, sent[q].order.output} \subseteq 0..(MaxAmount - 1)

\* "must be restored exactly for signature verification": whenever the
\* sponsorship was found, or there was nothing to undo, the relayer is sent
\* the quote it signed, in every field, also where an amount wrapped.
RestoredExactly ==
    \A q \in Quotes :
        sent[q] # None /\ (applied[q] # Zero \/ ~RequiresMatchResultUpdate(info[q]))
        => sent[q].quote = signed[q]

\* A client that asks for an exact output is shown it; and what the relayer is
\* asked to pay out at assembly and the refund together are what the client
\* asked for, updated or not, unless the refund is the larger: then the output
\* wraps, and the relayer is asked for more than the client wants.
ExactOutputHonoured ==
    \A q \in Quotes :
        /\ shown[q] # None /\ wanted[q].exact
           => /\ shown[q].order = wanted[q]
              /\ ~info[q].native => shown[q].receive = wanted[q].output
        /\ sent[q] # None /\ sent[q].asked.exact /\ ~applied[q].native
           => IF applied[q].refund <= sent[q].asked.output
              THEN sent[q].order.output + applied[q].refund = sent[q].asked.output
              ELSE sent[q].order.output > sent[q].asked.output

=============================================================================
