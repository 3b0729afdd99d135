--------------------------- MODULE MCExternalMatch ---------------------------
(***************************************************************************)
(* External matches in the auth server, for TLC: the life of a bundle, the *)
(* sponsorship a quote carries to its assembly, an RFQT request, and what  *)
(* is recorded when matches settle.  The parts share no state: a behaviour *)
(* picks one part and the others stay in their initial state, so one run   *)
(* checks each part as if it were alone.                                   *)
(***************************************************************************)
EXTENDS BundleLifecycle, TLC

CONSTANTS Parts, t1, q1, r1, r2, None

VARIABLES
    part,
    stage, wanted, info, signed, shown, writing, cache, expires, sent, applied,
    rfqStage, asked, order, quoteRes, peekRes, rfqInfo, rfqSigned, rfqCache, rfqSent, bundle,
    context, answer, quoteUsed, bundleUsed,
    mined, kept, spawned, volumes, costs, refunds

-----------------------------------------------------------------------------
(* BundleLifecycle *)

\* Events are delivered again, tasks overlap and fail, and the process restarts; and
\* one task at a time without failures in a process that stays up.
Cleanup == INSTANCE BundleLifecycle WITH Tasks <- {t1}, Faults <- FALSE

-----------------------------------------------------------------------------
(* QuoteSponsorship *)

Quote == INSTANCE QuoteSponsorship
    WITH Quotes <- {q1}, Amounts <- {1, 3, 4}, Input <- 2, Refunds <- {0, 1, 2}, MaxAmount <- 64

-----------------------------------------------------------------------------
(* RfqtQuote *)

\* Requests that differ in what they ask for, a refund above it included, and
\* requests short of tokens.
Rfq == INSTANCE RfqtQuote
    WITH Requests <- {r1, r2}, Amounts <- {2}, Refunds <- {0, 1, 3}, QuoteLimit <- 2,
         MaxAmount <- 64, BundleLimit <- 2, stage <- rfqStage, info <- rfqInfo, signed <- rfqSigned,
         cache <- rfqCache, sent <- rfqSent

Limited == INSTANCE RfqtQuote
    WITH Requests <- {r1, r2}, Amounts <- {1}, Refunds <- {0}, QuoteLimit <- 1,
         MaxAmount <- 64, BundleLimit <- 1, stage <- rfqStage, info <- rfqInfo, signed <- rfqSigned,
         cache <- rfqCache, sent <- rfqSent

-----------------------------------------------------------------------------
(* SettlementMetrics *)

Match(n, i, o, a, p, q) == [nonce |-> n, in |-> i, out |-> o, amount |-> a, num |-> p, den |-> q]

Log(n, v) == [nonce |-> n, refund |-> v]

\* Transactions with one match each: both sides, prices that do not divide, a
\* refund that was not paid, and a pair without USDC.
Single == INSTANCE SettlementMetrics
    WITH store <- kept, task <- spawned, RefPrices <- 2..5, Faults <- TRUE,
         Txs <- {[nonces |-> {"n1"}, sponsored |-> {"n1"}, logs |-> {Log("n1", 2)},
                  matches |-> <<Match("n1", "weth", "usdc", 25, 7, 2)>>],
                 [nonces |-> {"n2"}, sponsored |-> {"n2"}, logs |-> {},
                  matches |-> <<Match("n2", "usdc", "weth", 73, 2, 7)>>],
                 [nonces |-> {"n3"}, sponsored |-> {}, logs |-> {},
                  matches |-> <<Match("n3", "weth", "wbtc", 3, 1, 1)>>]}

\* One transaction that settles two bundles, and a third bundle alone.
Batch == INSTANCE SettlementMetrics
    WITH store <- kept, task <- spawned, RefPrices <- {3}, Faults <- TRUE,
         Txs <- {[nonces |-> {"n1", "n2"}, sponsored |-> {"n1", "n2"},
                  logs |-> {Log("n1", 2), Log("n2", 1)},
                  matches |-> <<Match("n1", "weth", "usdc", 5, 7, 2),
                                Match("n2", "usdc", "weth", 9, 1, 3)>>],
                 [nonces |-> {"n3"}, sponsored |-> {}, logs |-> {},
                  matches |-> <<Match("n3", "usdc", "weth", 7, 1, 3)>>]}

-----------------------------------------------------------------------------
quoteVars == <<stage, wanted, info, signed, shown, writing, cache, expires, sent, applied>>
rfqVars == <<rfqStage, asked, order, quoteRes, peekRes, rfqInfo, rfqSigned, rfqCache, rfqSent,
             bundle, context, answer, quoteUsed, bundleUsed>>
metricVars == <<mined, kept, spawned, volumes, costs, refunds>>
allVars == <<part, vars, quoteVars, rfqVars, metricVars>>

AllInit ==
    /\ part \in Parts
    /\ IF part = "cleanup" THEN Cleanup!Init ELSE Init
    /\ Quote!Init
    /\ Rfq!Init
    /\ IF part = "batch" THEN Batch!Init ELSE Single!Init

AllNext ==
    \/ /\ \/ part = "tokens" /\ Next
          \/ part = "cleanup" /\ Cleanup!Running
       /\ UNCHANGED <<part, quoteVars, rfqVars, metricVars>>
    \/ /\ part = "quote" /\ Quote!Next
       /\ UNCHANGED <<part, vars, rfqVars, metricVars>>
    \/ /\ \/ part = "rfq" /\ Rfq!Next
          \/ part = "limited" /\ Limited!Next
       /\ UNCHANGED <<part, vars, quoteVars, metricVars>>
    \/ /\ \/ part = "single" /\ Single!Next
          \/ part = "batch" /\ Batch!Next
       /\ UNCHANGED <<part, vars, quoteVars, rfqVars>>

\* Spawned tasks are run by the tokio runtime and the node delivers the events
\* it has; nothing makes a client settle.
AllFairness ==
    /\ \A b \in Bundles :
          /\ WF_vars(part = "cleanup" /\ Cleanup!WriteContext(b))
          /\ WF_vars(part = "cleanup" /\ Cleanup!Deliver(t1, b))
    /\ WF_vars(part = "cleanup" /\ Cleanup!TaskStep(t1))

AllSpec == AllInit /\ [][AllNext]_allVars /\ AllFairness

-----------------------------------------------------------------------------
\* Tokens are accounted for in the difficult cases: only a context whose token is out,
\* or whose task is about to remove it, is in the store, unless its tasks overlapped
\* or failed; and RFQT requests hold the tokens they took, also when they compete for
\* the last one.
LimitsKept ==
    /\ part = "tokens" => TypeOK /\ ReturnInv
    /\ part = "rfq" => Rfq!TokensOfRequests
    /\ part = "limited" => Limited!TypeOK /\ Limited!TokensOfRequests

\* A context in the store when the event of its bundle has yet to be delivered
\* is removed by the settlement task.
ContextCleanedUp ==
    \A b \in Bundles :
        (part = "cleanup" /\ b \in store /\ events[b] > 0) ~> (part = "cleanup" /\ b \notin store)

\* What was quoted is what is assembled and promised: whenever the cached
\* sponsorship is found, or there was nothing to undo, the relayer is sent the
\* quote it signed, also through amounts that wrapped; an exact output no less
\* than the refund is honoured, refund included (a smaller one wraps, and more is
\* asked of the relayer); an RFQT request is filled as asked, and its response
\* promises what its calldata moves.
QuotedIsAssembled ==
    /\ part = "quote" => Quote!AmountsOK /\ Quote!RestoredExactly /\ Quote!ExactOutputHonoured
    /\ part = "rfq" => Rfq!QuoteReachesAssembly /\ Rfq!PromisedIsSettled /\ Rfq!FilledAsAsked

\* A settled bundle is recorded once, with volumes that are the two legs of its
\* fill, a spread cost of the sign of the loss against the reference price, and
\* the refund paid under its own nonce.
SettlementRecorded ==
    /\ part = "single" => /\ Single!TypeOK /\ Single!RecordedOnce /\ Single!VolumesAreTheLegs
                          /\ Single!CostHasTheSignOfTheLoss /\ Single!RefundOfItsOwnNonce
    /\ part = "batch" => Batch!RecordedOnce /\ Batch!RefundOfItsOwnNonce
=============================================================================
