---- MODULE SettlementMetrics ----
(***************************************************************************)
(* What the auth server records when external matches settle               *)
(* (chain_events/tasks.rs, telemetry/helpers.rs).  Each NonceUsed event    *)
(* spawns a task that goes through the external matches of its             *)
(* transaction: for a match it looks up the bundle of the nonce, records   *)
(* the spread cost against a reference price, the two volumes and the      *)
(* refund the gas sponsor paid, and forgets the bundle.                    *)
(*                                                                         *)
(* A match has an exact price of `num' output units for `den' input units; *)
(* a spread cost is kept as an integer, scaled by the price denominators.  *)
(***************************************************************************)
EXTENDS Integers, Sequences, FiniteSets, Bags, BagsExt

CONSTANTS
  Txs,         \* transactions: the matches, the nonces and the refunds paid
  RefPrices,   \* reference prices the price reporter may answer
  Faults       \* TRUE: a price or a gas price may not be available

Nonces == UNION {tx.nonces : tx \in Txs}
Matches == UNION {{tx.matches[i] : i \in DOMAIN tx.matches} : tx \in Txs}

VARIABLES
  mined,     \* the transactions that were included
  store,     \* the nonces of the bundles whose context is kept
  task,      \* the task of each nonce: its transaction, the next match, where it is
  volumes,   \* the bag of recorded volumes
  costs,     \* the recorded spread costs
  refunds    \* the recorded refunds

vars == <<mined, store, task, volumes, costs, refunds>>

NoTask == [pc |-> "none"]

Init ==
  /\ mined = {}
  /\ store = Nonces
  /\ task = [n \in Nonces |-> NoTask]
  /\ volumes = EmptyBag
  /\ costs = {}
  /\ refunds = {}

-----------------------------------------------------------------------------
(* Mutated forms of the definitions below. *)

QuotePerBaseInverted(m) == <<m.num, m.den>>

RemoveNot(n) == store

-----------------------------------------------------------------------------
(* The amounts and the price of a match *)

(* pick_base_and_quote_mints fails when neither token is USDC. *)
HasUsdc(m) == "usdc" \in {m.in, m.out}

(* compute_external_amounts: what the external party sends and receives. *)
AmountIn(m) == m.amount
AmountOut(m) == (m.amount * m.num) \div m.den

(* The base and the quote amount of the volumes. *)
BaseQuote(m) ==
  IF m.in = "usdc" THEN <<AmountOut(m), AmountIn(m)>> ELSE <<AmountIn(m), AmountOut(m)>>

(* calculate_quote_per_base_price, as a fraction. *)
QuotePerBase(m) == IF m.out = "usdc" THEN <<m.num, m.den>> ELSE <<m.den, m.num>>

(* The internal party buys the base when the external party sends it. *)
InternalBuys(m) == m.in /= "usdc"

(* The relative spread times the quote amount, times ref and the denominator. *)
SpreadCost(m, ref) ==
  LET p == QuotePerBase(m)
      spread == (IF InternalBuys(m) THEN 1 ELSE -1) * (p[1] - ref * p[2])
  IN spread * (IF InternalBuys(m) THEN AmountOut(m) ELSE AmountIn(m))

(* get_actual_refund_amount: the refund logged for the nonce, zero when the  *)
(* sponsor fell back to an unsponsored match.                                *)
ActualRefund(tx, n) ==
  LET own == {l \in tx.logs : l.nonce = n} IN IF own = {} THEN 0 ELSE (CHOOSE l \in own : TRUE).refund

-----------------------------------------------------------------------------
(* Settlement and the tasks *)

(* A transaction is included, and handle_nonce_used spawns a task for each of *)
(* its NonceUsed events.                                                      *)
Mine(tx) ==
  /\ tx \notin mined
  /\ mined' = mined \union {tx}
  /\ task' = [n \in Nonces |-> IF n \in tx.nonces THEN [pc |-> "read", tx |-> tx, i |-> 1] ELSE task[n]]
  /\ UNCHANGED <<store, volumes, costs, refunds>>

Goto(n, pc) == task' = [task EXCEPT ![n].pc = pc]
End(n) == task' = [task EXCEPT ![n] = NoTask]
Current(n) == task[n].tx.matches[task[n].i]
NextMatch(n) == IF task[n].i < Len(task[n].tx.matches)
                THEN task' = [task EXCEPT ![n].i = @ + 1, ![n].pc = "read"] ELSE End(n)

(* The context of the nonce is looked up for each match of the transaction;  *)
(* without one the match is passed over.                                     *)
ReadContext(n) ==
  /\ task[n].pc = "read"
  /\ IF n \in store THEN Goto(n, "cost") ELSE NextMatch(n)
  /\ UNCHANGED <<mined, store, volumes, costs, refunds>>

(* record_external_match_spread_cost, then record_settlement_metrics. *)
RecordCost(n) ==
  /\ task[n].pc = "cost"
  /\ LET m == Current(n) IN
       IF HasUsdc(m)
       THEN /\ \E ref \in RefPrices : costs' = costs \union {[match |-> m, ref |-> ref, cost |-> SpreadCost(m, ref)]}
            /\ volumes' = BagAdd(volumes, [nonce |-> n, match |-> m, base |-> BaseQuote(m)[1], quote |-> BaseQuote(m)[2]])
            /\ Goto(n, "sponsor")
       ELSE End(n) /\ UNCHANGED <<costs, volumes>>
  /\ UNCHANGED <<mined, store, refunds>>

(* record_settled_match_sponsorship, for a bundle that carries one. *)
RecordSponsorship(n) ==
  /\ task[n].pc = "sponsor"
  /\ refunds' = IF n \in task[n].tx.sponsored
                THEN refunds \union {[nonce |-> n, refund |-> ActualRefund(task[n].tx, n)]} ELSE refunds
  /\ Goto(n, "remove")
  /\ UNCHANGED <<mined, store, volumes, costs>>

Removed(n) == store \ {n}

RemoveBundle(n) ==
  /\ task[n].pc = "remove"
  /\ store' = Removed(n)
  /\ NextMatch(n)
  /\ UNCHANGED <<mined, volumes, costs, refunds>>

(* A price is not available: the task ends, the context stays. *)
TaskFails(n) ==
  /\ Faults
  /\ task[n].pc \in {"cost", "sponsor", "remove"}
  /\ End(n)
  /\ UNCHANGED <<mined, store, volumes, costs, refunds>>

Next ==
  \/ \E tx \in Txs : Mine(tx)
  \/ \E n \in Nonces : ReadContext(n) \/ RecordCost(n) \/ RecordSponsorship(n) \/ RemoveBundle(n) \/ TaskFails(n)

Spec == Init /\ [][Next]_vars

-----------------------------------------------------------------------------
(* The types of the variables. *)
TypeOK ==
  /\ mined \subseteq Txs /\ store \subseteq Nonces
  /\ \A n \in Nonces :
       \/ task[n] = NoTask
       \/ task[n].pc \in {"read", "cost", "sponsor", "remove"} /\ task[n].i \in DOMAIN task[n].tx.matches
  /\ \A v \in BagToSet(volumes) : v.nonce \in Nonces /\ v.match \in Matches /\ v.base \in Nat /\ v.quote \in Nat
  /\ \A c \in costs : c.match \in Matches /\ c.cost \in Int

(* One bundle is recorded once: the other matches of its transaction find no *)
(* context any more.                                                         *)
RecordedOnce ==
  /\ \A v \in BagToSet(volumes) : CopiesIn(v, volumes) = 1
  /\ \A v, w \in BagToSet(volumes) : v.nonce = w.nonce => v = w

(* "If internal buys at a higher price than reference, they overpay (positive *)
(* cost)": a cost is positive only if the internal party gave up more than it *)
(* got, both valued at the reference price, and negative only if less, up to  *)
(* the unit by which the output is rounded down.                              *)
CostHasTheSignOfTheLoss ==
  \A c \in costs :
    LET m == c.match
        out == (m.amount * m.num) \div m.den
        loss == IF m.out = "usdc" THEN out - c.ref * m.amount ELSE c.ref * out - m.amount
        unit == IF m.out = "usdc" THEN 1 ELSE c.ref
    IN (c.cost > 0 => loss > -unit) /\ (c.cost < 0 => loss < unit)

(* The volumes of a match are the two legs of one fill at its price: the      *)
(* quote volume is in USDC, whichever side it was on.                         *)
VolumesAreTheLegs ==
  \A v \in BagToSet(volumes) :
    LET m == v.match IN
      IF m.in = "usdc" THEN v.quote = m.amount /\ v.base * m.den <= v.quote * m.num
      ELSE v.base = m.amount /\ v.quote * m.den <= v.base * m.num

(* The refund recorded for a bundle is the one paid under its own nonce, and  *)
(* none when the sponsor did not pay.                                         *)
RefundOfItsOwnNonce ==
  \A r \in refunds :
    \E tx \in mined :
      /\ r.nonce \in tx.nonces
      /\ r.refund > 0 => [nonce |-> r.nonce, refund |-> r.refund] \in tx.logs
      /\ r.refund = 0 => \A l \in tx.logs : l.nonce /= r.nonce \/ l.refund = 0

====
