---- MODULE OrderSolver ----
(***************************************************************************)
(* The UniswapX solver (renegade-solver/src/uniswapx).  A polling loop     *)
(* fetches the open orders, drops the ones it remembers, remembers the     *)
(* others in a bounded cache and spawns a task for each.  A task decodes   *)
(* and filters its order, computes a priority fee from the price Renegade  *)
(* offers, scales the amounts by it and asks Renegade for a match.         *)
(*                                                                         *)
(* Amounts are whole units and a price is quote per base; a price ratio is *)
(* compared by cross-multiplication, where the code divides floats.        *)
(***************************************************************************)
EXTENDS Integers, Sequences, FiniteSets, SequencesExt

CONSTANTS
  Orders,        \* order hashes
  Terms,         \* the terms an order may have
  Prices,        \* prices the price reporter may answer
  CacheSize,     \* ORDER_CACHE_SIZE
  Mps,           \* 100% in milli-bps
  MaxWord,       \* the largest U256
  MaxTries,      \* bound on the count of tasks of an order
  Closes         \* TRUE: an open order may be filled or expire

VARIABLES
  book,     \* the state of each order at the API: new, open or closed
  terms,    \* the terms of each order
  cache,    \* the LRU cache of hashes, most recent first
  batch,    \* the orders of the last response still to be handled
  running,  \* the number of tasks of each order
  tries,    \* history: how many tasks an order has had, at most MaxTries
  outcome   \* what the last finished task of each order computed

vars == <<book, terms, cache, batch, running, tries, outcome>>

NoOutcome == [result |-> "none", price |-> 0, fee |-> 0, in |-> 0, out |-> 0]

Init ==
  /\ book = [o \in Orders |-> "new"]
  /\ terms \in [Orders -> Terms]
  /\ cache = << >>
  /\ batch = << >>
  /\ running = [o \in Orders |-> 0]
  /\ tries = [o \in Orders |-> 0]
  /\ outcome = [o \in Orders |-> NoOutcome]

-----------------------------------------------------------------------------
(* Mutated forms of the definitions below. *)

PutForget(o) == IF Len(cache) < CacheSize - 1 THEN <<o>> \o cache ELSE <<o>>

PriorityFeeOfRenegade(t, p) ==
  LET sell == t.out = "usdc"
      q == IF sell THEN t.outAmt ELSE t.inAmt
      b == IF sell THEN t.inAmt ELSE t.outAmt
  IN IF (sell /\ p * b < q) \/ (~sell /\ p * b > q) THEN 0
     ELSE LET d == p * b - q IN (Mps * (IF d < 0 THEN -d ELSE d)) \div (p * b)

-----------------------------------------------------------------------------
(* The API: an order appears, and later it is filled or expires. *)

Appear(o) ==
  /\ book[o] = "new"
  /\ book' = [book EXCEPT ![o] = "open"]
  /\ UNCHANGED <<terms, cache, batch, running, tries, outcome>>

Close(o) ==
  /\ Closes
  /\ book[o] = "open"
  /\ book' = [book EXCEPT ![o] = "closed"]
  /\ UNCHANGED <<terms, cache, batch, running, tries, outcome>>

-----------------------------------------------------------------------------
(* The polling loop *)

(* is_order_processed looks an order up without making it recent again. *)
Unseen(listed) == SelectSeq(listed, LAMBDA o : ~Contains(cache, o))

(* poll_orders fetches the open orders that are not in the cache.  A failed  *)
(* request leaves the batch empty and the loop tries again.                  *)
Fetch ==
  /\ batch = << >>
  /\ batch' = Unseen(SetToSeq({o \in Orders : book[o] = "open"}))
  /\ batch' /= << >>
  /\ UNCHANGED <<book, terms, cache, running, tries, outcome>>

(* mark_order_processed: LruCache::put, which evicts the least recent. *)
Put(o) ==
  LET rest == SelectSeq(cache, LAMBDA c : c /= o)
      kept == IF Len(rest) < CacheSize THEN rest ELSE SubSeq(rest, 1, CacheSize - 1)
  IN <<o>> \o kept

(* An order of the batch is remembered and its task spawned. *)
Spawn ==
  /\ batch /= << >>
  /\ LET o == Head(batch) IN
       /\ running[o] < MaxTries
       /\ cache' = Put(o)
       /\ running' = [running EXCEPT ![o] = @ + 1]
       /\ tries' = [tries EXCEPT ![o] = IF @ < MaxTries THEN @ + 1 ELSE @]
  /\ batch' = Tail(batch)
  /\ UNCHANGED <<book, terms, outcome>>

-----------------------------------------------------------------------------
(* Solving one order *)

Supported(token) == token \in {"weth", "usdc"}

(* is_pair_serviceable: a supported token other than USDC on one side. *)
Serviceable(t) ==
  /\ t.outputs > 0
  /\ \/ Supported(t.in) /\ t.in /= "usdc"
     \/ Supported(t.out) /\ t.out /= "usdc"

(* temporary_order_filter: one output, both tokens supported, one USDC. *)
Filter(t) ==
  /\ t.outputs = 1
  /\ t.in = "usdc" \/ t.out = "usdc"
  /\ Supported(t.in) /\ Supported(t.out)

IsSell(t) == t.out = "usdc"
Quote(t) == IF IsSell(t) THEN t.outAmt ELSE t.inAmt
Base(t) == IF IsSell(t) THEN t.inAmt ELSE t.outAmt

(* Renegade's price is no worse than the order's. *)
Improvement(t, p) == IF IsSell(t) THEN p * Base(t) >= Quote(t) ELSE p * Base(t) <= Quote(t)

(* compute_priority_fee: the improvement, relative to the order's price, in *)
(* milli-bps, one wei for each.                                             *)
PriorityFee(t, p) ==
  IF ~Improvement(t, p) THEN 0
  ELSE LET d == p * Base(t) - Quote(t) IN (Mps * (IF d < 0 THEN -d ELSE d)) \div Quote(t)

Overflow == -1

(* validate_division: the product would exceed a word. *)
Overflows(x, y) == y /= 0 /\ x > MaxWord \div y

MulDivDown(x, y, d) == IF Overflows(x, y) THEN Overflow ELSE (x * y) \div d

MulDivUp(x, y, d) == IF Overflows(x, y) THEN Overflow ELSE (x * y + d - 1) \div d

(* PriorityInput::scale *)
ScaleInput(t, fee) ==
  LET discount == fee * t.inRate IN
    CASE discount > MaxWord -> Overflow
      [] discount >= Mps -> 0
      [] discount = 0 -> t.inAmt
      [] OTHER -> MulDivDown(t.inAmt, Mps - discount, Mps)

(* PriorityOutput::scale *)
ScaleOutput(t, fee) ==
  IF t.outRate = 0 THEN t.outAmt
  ELSE IF Mps + fee * t.outRate > MaxWord THEN Overflow
  ELSE MulDivUp(t.outAmt, Mps + fee * t.outRate, Mps)

(* build_scaled_order refuses an order both of whose sides were scaled. *)
BothScaled(t, sin, sout) == sin /= t.inAmt /\ sout /= t.outAmt

(* What solve_order makes of an order at a price. *)
Solution(t, p) ==
  LET fee  == PriorityFee(t, p)
      sin  == ScaleInput(t, fee)
      sout == ScaleOutput(t, fee)
      done(r) == [result |-> r, price |-> p, fee |-> fee, in |-> sin, out |-> sout]
  IN CASE ~(Serviceable(t) /\ Filter(t)) -> [NoOutcome EXCEPT !.result = "skipped"]
       [] OTHER -> IF sin = Overflow \/ sout = Overflow THEN done("overflow")
                   ELSE IF BothScaled(t, sin, sout) THEN done("refused")
                   ELSE done("asked")

(* A task ends with its order skipped, refused or sent to Renegade. *)
Solve(o) ==
  /\ running[o] > 0
  /\ running' = [running EXCEPT ![o] = @ - 1]
  /\ \E p \in Prices : outcome' = [outcome EXCEPT ![o] = Solution(terms[o], p)]
  /\ UNCHANGED <<book, terms, cache, batch, tries>>

(* A task whose order does not decode, whose price is not to be had or whose *)
(* amounts do not fit 128 bits ends without a trace.                         *)
Abandon(o) ==
  /\ running[o] > 0
  /\ running' = [running EXCEPT ![o] = @ - 1]
  /\ UNCHANGED <<book, terms, cache, batch, tries, outcome>>

Next ==
  \/ Fetch \/ Spawn
  \/ \E o \in Orders : Appear(o) \/ Close(o) \/ Solve(o) \/ Abandon(o)

(* The loop polls for ever and its requests succeed again and again; a task  *)
(* runs to its end.                                                          *)
Spec ==
  /\ Init /\ [][Next]_vars
  /\ SF_vars(Fetch) /\ WF_vars(Spawn)
  /\ \A o \in Orders : WF_vars(Solve(o) \/ Abandon(o))

-----------------------------------------------------------------------------
(* The types of the variables; the cache never exceeds its size. *)
TypeOK ==
  /\ book \in [Orders -> {"new", "open", "closed"}]
  /\ Len(cache) <= CacheSize /\ ToSet(cache) \subseteq Orders /\ IsInjective(cache)
  /\ ToSet(batch) \subseteq Orders
  /\ running \in [Orders -> 0..MaxTries] /\ tries \in [Orders -> 0..MaxTries]
  /\ \A o \in Orders : outcome[o].result \in {"none", "skipped", "overflow", "refused", "asked"}

(* The cache holds the orders "we've already tried to handle": an order is   *)
(* handled once, however long the API lists it.                              *)
SolvedOnce == \A o \in Orders : tries[o] <= 1

(* With more orders than the cache holds, an order may be handled again, but  *)
(* only once a full cache of other orders has been handled since.            *)
RetriedOnlyWhenCrowded ==
  (\E o \in Orders : tries[o] > 1) => Cardinality({o \in Orders : tries[o] > 0}) > CacheSize

(* solve_renegade_leg "assumes that one of the tokens is USDC and the other  *)
(* is supported": the filters of solve_order together establish it.          *)
AsksForUsdcPairs ==
  \A o \in Orders :
    outcome[o].result = "asked"
      => LET t == terms[o] IN t.outputs = 1 /\ {t.in, t.out} = {"usdc", "weth"}

(* Scaling favours the swapper: of an order sent to Renegade the input never *)
(* grows, the output never shrinks, and only one of them changes.            *)
ScalingFavoursSwapper ==
  \A o \in Orders :
    outcome[o].result = "asked"
      => LET t == terms[o] IN
           /\ outcome[o].in \in 0..t.inAmt /\ outcome[o].out >= t.outAmt
           /\ outcome[o].in = t.inAmt \/ outcome[o].out = t.outAmt

(* What Renegade's price brings in over the order's, in USDC. *)
Gain(t, p) ==
  LET d == p * Base(t) - Quote(t) IN
    IF ~Improvement(t, p) THEN 0 ELSE IF d < 0 THEN -d ELSE d

(* The fee gives away no more than the order's rates ask for: the part of    *)
(* either amount given to the swapper is at most its rate times the relative *)
(* improvement of the price, to one unit of rounding; an order that Renegade *)
(* does not improve on is asked for on its own terms.                        *)
NoOverPromise ==
  \A o \in Orders :
    outcome[o].result = "asked" =>
      LET t == terms[o]
          g == Gain(t, outcome[o].price)
      IN /\ (t.inAmt - outcome[o].in) * Quote(t) <= (t.inRate * g * t.inAmt) + Quote(t)
         /\ (outcome[o].out - t.outAmt) * Quote(t) <= (t.outRate * g * t.outAmt) + Quote(t)

(* An improved order whose rates are at most one milli-bps per wei is still  *)
(* worth its output at Renegade's price, to one unit of rounding of the base *)
(* amount.  A sell that scales its input falls short by the square of the    *)
(* improvement, since the improvement is relative to the order's price and   *)
(* not to Renegade's.                                                        *)
WorthThePrice ==
  \A o \in Orders :
    LET t == terms[o]
        x == outcome[o]
        g == Gain(t, x.price)
    IN (/\ x.result = "asked" /\ Improvement(t, x.price)
        /\ t.inRate <= 1 /\ t.outRate <= 1) =>
         IF IsSell(t)
           THEN x.out * Quote(t) <= x.price * (x.in + 1) * Quote(t)
                                    + (IF x.in < t.inAmt THEN g * g ELSE 0)
           ELSE x.price * x.out <= x.in + x.price

====
