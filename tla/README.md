# TLA+ models of relayer-extensions

This directory holds TLA+ models of the services in this repository, the TLC
configurations that check them on small instances, and theorems about thirteen of
them with proofs checked by TLAPS.

    tlc -workers 2 -config Custody.cfg MCCustody     # one run
    tlapm WalletProofs.tla                           # one module of proofs

`PROJECT.json` lists the components, the runs, the source lines every definition
stands for, the hazards the properties are aimed at, and the theorems.

## 1. The system

The repository is a set of services around Renegade relayers. Each is a process of
its own; they meet only through the relayers, the chain, databases and HTTP. What
makes them hard to test is the same everywhere: handlers run concurrently on a
tokio runtime, take no lock across an `await`, and keep a table, a cache, a Redis
key or an on-chain balance that other requests change in between.

| service | parts | modules |
|---|---|---|
| auth server | API key, fee and rate limit caches | `AuthCaches` |
| | Redis rate limiters | `RateLimiter` |
| | quote and assembly requests: routing, tokens, size of the refund, gas cost sampler | `MatchRequest` |
| | external matches: assembly, bundle store, settlement | `BundleLifecycle`, `BundleTokens`, `SettlementMetrics` |
| | gas sponsorship of quotes | `QuoteSponsorship` |
| | RFQT connector | `RfqtQuote` |
| funds manager | gas wallet pool, gas refills | `GasWallets`, `WalletHistory`, `GasRefill` |
| | withdrawals, vault transfers, Hyperliquid bridge | `CustodyTransfers` |
| | Fireblocks rate limiter | `FireblocksLimiter` |
| | transactions of hot wallets | `HotWalletTx` |
| | decaying swap, swaps to a target, sponsor refill | `SwapDecay`, `SponsorRefill` |
| | Cowswap orders | `CowswapOrder` |
| | swap handlers and cost metrics | `SwapCost` |
| price reporter | registry of price streams | `PriceStreams` |
| | supervision of an exchange connection | `PriceConnection` |
| | Coinbase; Binance, Kraken and OKX | `CoinbaseBook`, `QuoteFeed` |
| | websocket clients and converted prices | `PriceSubscriptions` |
| price reporter client | streaming task, staleness timer, HTTP fall-back | `PriceClient` |
| dealer | pairing of parties; the shares dealt | `Dealer` |
| pool runner | routing of orders to matching pools | `PoolRunner` |
| UniswapX solver | polling, order cache, priority fee | `OrderSolver` |
| compliance server | cached screening of wallets | `Compliance` |
| darkpool indexer | message queue, registrations | `IndexerQueue` |
| prover service | start, routes, proving and linking on blocking threads | `ProverService` |

Section 7 says what is not modelled.

## 2. How the modules are built

A component module has the state of one component as its variables and one action
per step that other requests can interleave with: a database statement, a cache
access, an HTTP or RPC call, a lock held. Everything a handler does between two
such points is one action, and failures of calls are actions of their own. The
inputs of a request come from small sets. Definitions keep the names of the code.

A few constants switch an environment: `Faults` (may calls fail?), `Overlap` (may two
requests run at once?), `Slow`, `Late`, `Closes`, `Stops`, `Admin`. They bound an
instance, or turn on what only some properties survive.

What goes wrong when requests overlap or calls fail is not assumed away. A history
variable records it, and a property excepts exactly what the variable names:

| variable | names |
|---|---|
| `raced` (`AuthCaches`, `GasRefill`) | what two requests were about at once |
| `seen`, `outdated`, `crowded` (`WalletHistory`) | what a registration read; wallets written by a request that had read another row, or by hand; peers with two registrations at once |
| `disturbed` (`BundleLifecycle`) | bundles with two tasks at once, or with a task that failed after it returned the token |
| `unseen` (`SwapDecay`) | what attempts sold whose outcome the caller did not see |
| `unsure` (`CustodyTransfers`) | requests that gave up on a transaction they had sent |
| `others`, `disturbed`, `lost` (`HotWalletTx`) | transactions accepted meanwhile; requests whose allowance another one used; requests that the node refused or whose receipt was not found |
| `doubled`, `failed` (`PoolRunner`) | orders routed by two tasks; orders a call failed for |
| `late` (`IndexerQueue`) | groups with a task that outlived the visibility timeout |
| `calm` (`PriceStreams`) | refreshes that found the streams settled |

Others (`moved`, `returned`, `credited`, `topped`, `floor`, `meter`) add up what
happened. Properties read them; no guard does.

Next to a definition, or in a section at the head of a module, stand the mutated
forms of it: what a plausible mistake would make of the code. No action uses them.
For every property of every passing run `PROJECT.json` names a mutation under which
TLC finds that property violated.

### One TLC module per subsystem

The `MC` modules put several components, or several scenarios of one component,
into one run. The variable `part` is chosen in the initial state and never changes;
only the actions of that part are enabled, and the variables of the others keep one
fixed initial value. The parts share no state in the code either. The reachable
states are therefore the disjoint union of those of the parts, and checking the
union is the same as checking each alone: a property conjunct is guarded by its
`part`, a fairness condition by the part it is about. Setting `Parts` to one name
in a cfg checks one scenario.

Where components do meet, the composition is in the component: a settlement task
and an assembly request share the rate limit bucket in `BundleLifecycle`;
`RfqtQuote` runs the quote, the sponsorship cache and the assembly of
one request; `CustodyTransfers` has the wallets, the vaults and Fireblocks.
`SponsorRefill` uses the result of a decaying swap as `SwapDecay` leaves it: some
of the size or nothing as the caller sees it, and beside it what attempts sold that
the caller gave up on.

## 3. Components, state and actions

**`AuthCaches`.** The tables of API keys, fees and rate limits, the caches of
`ServerCache`, requests in progress. A request that misses a cache loads the row and
stores it in two steps (`Lookup`/`Load`/`Store`). Of keys, `AddKey`, `ExpireKey` and
`SetWhitelist` write the row and a second action updates the cache. Fees come from one
SQL statement (override, then asset default, then a constant), and of rate limits
absence is cached too; setters write the row, then the cache, and removals clear the
cache, then delete the row. `Restart` empties the caches.

**`RateLimiter`.** One Redis value and expiry per refill interval, in ticks of which
an interval has `2 * Half`, so that rounding to the *nearest* interval is visible.
`INCR_LIMIT_LUA` is one action, with Lua's comparison of a string and a number as
it is; `decrement_consumed` is two.

**`MatchRequest`.** Quote, assembly and direct match requests from their arrival to the
relayer and back. `Preprocess` is the authorisation and the parsing; `TakeToken` the
rate limit; `CheckExecutionCost` and `Route` the choice of the matching pool, which
reads Redis and the API key at two times; `SponsorQuoted`, `CheckBudget`,
`DecideSponsorship` and `ComputeRefund` the sponsorship, which reads the price twice
and the gas sample once; `Forward` and `Respond` the relayer and the status of the
answer. In between the environment ends the day (`NextDay`), sets the execution cost
limiter (`ExceedCosts`), spends the budget (`BudgetChanges`), samples the gas cost
(`Sample`) and moves prices (`PriceMoves`). A price of zero at the second read is a
divisor: the request panics. Amounts are u128 and the release build does not check
subtractions, so lowering an exact output by a larger refund wraps (`MaxAmount`).

**`BundleLifecycle`** (implements **`BundleTokens`**). The assembly request
(`Handler`: token, sponsorship budget, forward), the spawned task that writes the
context, `Settle`, `Reorg` (the event is delivered again), a task per delivery in
five awaits (receipt, read the bucket, write it, record, remove), `Refill` of the
bucket, `Restart`. `BundleTokens` is the abstract promise: taken, settled, back, in
this order and once; a bundle leaves it (phase `disturbed`) when two tasks handle it
at once or one fails between the return of the token and the removal of the context. **`SettlementMetrics`** is what a task records for each match
of its transaction, with exact rational prices. **`QuoteSponsorship`** follows the
amounts of one quote: lowered for an exact output (and wrapped, as above), signed, raised for the client,
cached by a spawned task (`SET`, then `PEXPIRE`), undone at assembly.
**`RfqtQuote`** runs the malleable and the direct path of one RFQT request.

**`GasWallets`.** The `gas_wallets` table, the secrets manager, register and report
requests statement by statement, the manual status change, the clock of the grace
period, relayers that stop. **`WalletHistory`** takes the same steps and records when
one of them acts on a row that changed since it was read. **`GasRefill`** has the amounts: survey, target, check
and transfer per wallet, on balances that relayers spend and other refills change.

**`CustodyTransfers`.** Balances on chain and in vaults, nonces, the transaction and
the Fireblocks status of every request; six kinds of request. Amounts need not be
multiples of the token's smallest unit, so that `round_up` matters.
**`HotWalletTx`** is one transaction of a hot wallet closer up: allowance, nonce,
"nonce too low" retries, receipt. **`FireblocksLimiter`** is the token bucket, its
refill task (which skips missed ticks), the cooldown after a 429 and its doubling.

**`SwapDecay`.** The loop of `swap_immediate_decaying`: quotes of a round, the best
one, the tolerance and its multiplier (with the f64 sum of the code), exclusions,
halving. An attempt whose receipt the caller does not get may have sold its size, or
sell it later; the caller tries again (`unseen`).
**`CowswapOrder`** is one venue closer up: `GetQuote`, `Approve`, `PlaceOrder`, then
`Poll` until the order book lists the trade or `GiveUp` after the wait; the order
stays valid for as long again, so that it may `Trade` when nobody asks any more.
**`SponsorRefill`** covers tokens by swaps and sends them. **`SwapCost`** is the swap
handlers and the metrics: three lookups, then gauges one at a time.

**`PriceStreams`.** The map of streams under its read and write locks, requests, a
task per stream (connect, stream, retry, end, remove its pair, send its closure),
the refresh of the token mapping in two steps, the main loop.
**`PriceConnection`** is one connection in discrete time: heartbeat, age of the
price, subscribe acknowledgement, retry window. **`CoinbaseBook`** and
**`QuoteFeed`** are the exchange protocols with lost messages and keepalives;
**`PriceSubscriptions`** the polls of a client's streams, with wakers;
**`PriceClient`** the client library's task and timer.

**`Dealer`** (the calls, and the shares dealt), **`PoolRunner`**, **`OrderSolver`**,
**`Compliance`**, **`IndexerQueue`** are described in their headers. Mutex
poisoning, a fill registry overwritten by a second task, LRU eviction, threads
blocked on a connection pool and SQS redelivery are part of them.

**`ProverService`.** `Boot` with its setup of the circuits, which may fail; `ArriveCall` and
the rejections of the filters; a handler per shape of reply, which spawns a prover
on a blocking thread (`Spawn`, `Start`, `FinishJob`), and for settlements the links of
the proof to the validity proofs at once (`Proved`, `Linked`). The first failure of
a link answers the request and a client may `Disconnect`; the jobs run on.

## 4. The runs

Nine runs pass; three exhibit a disagreement between the code and what it says of
itself. Deadlock is not checked in the runs with parts: requests, retries and
messages are finite in number there, and a system that has served them stops.

| run | module, cfg | parts | shows |
|---|---|---|---|
| `auth_state` | `MCAuthState`, `AuthState.cfg` | keys, fees, limits, serial, overlapping, gas, routing, refunds | a cache entry is the row or its absence unless two requests raced for it (`CachesAreCurrent`); a bucket counts the tokens that are out and none is granted at the limit (`TokensAccounted`); requests sent to the relayer hold a token each and go to the pool their day's limiter calls for (`RequestsGuarded`); refunds are worth a sampled gas cost, and an exact output is what the relayer is asked for and the refund, unless the refund is the larger and the amount wraps (`RefundsCoverGas`) |
| `sponsored_minimum` | `MCAuthState`, `SponsoredMinimum.cfg` | refunds | *violated:* an order below the minimum is sponsored |
| `gas_overlap` | `GasWallets`, `GasWalletsOverlap.cfg` | | a wallet whose relayer stopped is taken from it for good although requests overlap, fail half way and the admin sets statuses |
| `gas_idempotent` | `GasWallets`, `GasWalletsIdempotent.cfg` | | *violated:* two overlapping registrations of one peer take two wallets |
| `custody` | `MCCustody`, `Custody.cfg` | limiter, serial, limited, adverse, scarce, crowded, lossy, topups, repeat | rate and cooldown of Fireblocks calls; answers of transfers and swaps are what happened; refills reach their target and repeat to nothing; everything ends |
| `swaps` | `MCSwaps`, `Swaps.cfg` | pool, manual, owning, doubled, sell, buy, retry, refill, faulty, cover, onebyone, overlapping, patient, broken | a decaying swap sells what it reports and at most what was asked, but for attempts whose outcome it did not see, at the best quote, within tolerance; a Cowswap order is for what was asked, with at most two open (`SwapsAsAsked`); no source is tried twice at a size, and a failed purchase does not stop a refill (`FailuresMoveOn`); sponsors are sent no more than was missing and what can be bought, as far as swaps were seen (`SponsorRefilled`); costs are those of the swaps made (`CostsAsSwapped`); the loops end (`SwapsEnd`). And the gas wallet pool with overlapping requests: one live wallet per peer, a key is its owner's, the grace period is kept, each but for what `outdated` and `crowded` name (`OneWalletEach`, `KeyOfOwner`, `GraceKept`) |
| `external_match` | `MCExternalMatch`, `ExternalMatch.cfg` | tokens, cleanup, quote, rfq, limited, single, batch | `BundleLifecycle` implements `BundleTokens` with tasks that overlap and fail and restarts (`OneTokenPerBundle`), and counts what is recorded (`TokensCounted`); limits hold (`LimitsKept`); without failures contexts are removed (`ContextCleanedUp`); what was quoted is assembled (`QuotedIsAssembled`); settlements are recorded once and with the right amounts (`SettlementRecorded`) |
| `price_streams` | `MCPriceStreams`, `PriceStreams.cfg` | overlap, crowd, settled | the registry hands out uncancelled streams and cancels what leaves it (`RegisteredOrCancelled`); a pair has one uncancelled task at most, the one registered, and until a refresh takes streams down one running task (`OneStreamPerPair`); default pairs are streamed after a refresh of settled streams (`DefaultsStreamed`) |
| `price_feeds` | `MCPriceFeeds`, `PriceFeeds.cfg` | book, rest, websocket, connection, refused, dead, shutdown, topic, closing, client, stopping | prices are those of the exchange (`PricesOfExchange`); a consumer gets a price sent within a heartbeat, or the HTTP fall-back until the client is shut down (`FreshOrNone`); connections are lost only to errors, and prices come back, the process ends, or the retries are too far apart for the window and go on (`FeedsRecover`) |
| `coinbase_gap` | `MCPriceFeeds`, `CoinbaseGap.cfg` | book | *violated:* a lost message is never reported |
| `dealer` | `MCDealer`, `Dealer.cfg` | calls, shares | randomness goes to the two parties of one request, opens to MAC-checked correlated values, and no pair waits for ever |
| `order_services` | `MCOrderServices`, `OrderServices.cfg` | pooled, doubled, faulty, roomy, crowded, scaled, verdicts, threads, registering, redelivered, proving, settling | orders are in the right pool (`PoolAssignment`); the solver gives a swapper at most the order's rates times the improvement of the price, and where the rates are at most one an improved order is worth its output at Renegade's price, short by at most the square of the improvement for a sell that scales its input (`SolverPromises`); verdicts are fresh (`AnswersJustified`); proofs are complete and failures those of the request's own jobs (`ProofsJustified`); registrations leave the queue once stored (`IndexedInOrder`); everyone is served (`OrdersServed`) |

### Bounds, and why they are enough

- *Two of each.* The races are between two requests about one object, and a third
  object shows that others are left alone: two keys, users, requests, wallets,
  peers, bundles, tasks. The gas wallet pool is split into four small parts: one
  wallet that two peers contend for (`pool`), the same with an admin (`manual`), two
  wallets of one peer (`owning`), two registrations of one peer (`doubled`). There are three orders, or three requests, where the third
  is what fills a cache or waits for a thread (`roomy`, `crowded`, `threads`).
- *Time.* Bounds lie past the largest deadline: `MaxTime = 7` is beyond the TTL of
  the first interval (`gas`); in `connection` the retries of a burst fit in the
  window or not, depending on how long attempts take, in `refused` they always do, and
  in `dead` never, like the code's 15 rate-limited retries in 60 seconds; `MaxTicks` is
  at least twice the staleness timeout. A Cowswap order is valid for twice as long as it
  is waited for, the ratio of the code's 120 and 60 seconds; in 9 ticks three orders, 3
  ticks apart and valid for 6, follow each other. `routing` ends one day while requests are handled.
- *Money.* Amounts straddle every threshold: below, at and above limits, minimal
  deposits, tolerances and refunds; amounts that are no multiple of the unit; prices
  that do not divide; `scaled` goes through all small orders at prices 1 to 8 with a
  word of eight bits, so that overflow can happen. In `refunds` one token has the
  decimals of USDC and one has more; orders are of every side and shape, sizes below
  and above the minimum, prices absent, zero, one and larger; the gas cost may exceed
  an order. `MaxAmount`, for 2^128, is 1024 or 64, far above every amount that does not
  wrap.
- *Proofs.* `proving` takes one call through every route and every input; `settling`
  has two settlements, a proof and up to two links each, on two threads, so that the
  jobs of one wait for those of the other.
- *Faults.* One or two losses, drops, reorganisations and errors. More only repeat:
  every handler returns to a state it was in before.
- `P = 3` for the shares, where the inverse of 2 is not 1, with the first key share
  fixed to 1. The theorem covers the rest.
- Symmetry is used in `auth_state`, `sponsored_minimum` and `price_streams`, which
  check safety only, over sets whose members no definition names.

### Fairness

Only what the runtime and the code's own loops guarantee:

- weak fairness of a spawned task, a timer that is due, a handler between two of its
  awaits: tokio polls what was woken, and every HTTP, RPC and database call returns
  or fails;
- the report of active peers is sent periodically and may fail half way, so its steps
  have strong fairness in `GasWallets`: one that is possible again and again succeeds
  in the end;
- Fireblocks and the chain answer in the end (`Environment` in `CustodyTransfers`),
  and the polling deadline is a count, so it holds without it;
- polling loops (`Fetch`, `ReceiveMessages`) and a registration that is redelivered again and
  again have strong fairness, since calls in between may fail;
- a thread of the compliance server goes to a runnable request in the end, and
  `Pool::get` has a timeout (`Wait`);
- the blocking pool starts the oldest job when a thread is free, a prover ends, and
  the handler that awaits it is polled (`Start`, `Finishes`, `Handles`).

Nothing makes a client settle a bundle, an exchange publish, a caller call or a relayer
register. In `MCOrderServices` one condition joins actions of several parts; only one
part ever moves, so that is the conjunction of the conditions of each.

## 5. What is proved

| module | theorem | statement |
|---|---|---|
| `WalletProofs` | `TypeCorrect` | the table of gas wallets and the requests keep their types |
| | `RegisterIdempotent` | `OneWalletEach`: one live wallet per peer, but for `outdated` wallets and `crowded` peers |
| | `KeyHeldByOwner` | `KeyOfOwner`: a key is held by the peer in the table, but for `outdated` wallets |
| | `GraceProtects` | `GraceKept`: a wallet within its grace period is taken from its peer only by hand or on an outdated read |
| | `HotTxAsReported` | `SwapTxAsReported`: a request on a hot wallet moves funds once at most, and as reported but for `lost` ones |
| `AuthCachesProofs` | `CachesCurrent` | `CachesAreCurrent`: caches answer with the database, but for what is `raced` |
| `BundleLifecycleProofs` | `BundleTypes`, `BundleLimitKept` | types; the bundle bucket stays within the limit |
| | `CountsAreTrue` | `TokensCounted`: sponsorship is recorded as promised, but for `disturbed` bundles |
| | `TokenComesBackOnce` | `OneTokenPerBundle`: the life of a bundle implements `BundleTokens` |
| `CustodyProofs` | `RefillsToTarget` | `GasRefilledToTarget`: refills reach their target and overfill only `raced` wallets |
| | `RateIsBounded`, `AcquireSleepsOut`, `CallsArePaced` | `CallsPaced`: at most `Capacity + w` Fireblocks calls in any `w` refill intervals, and none before the cooldown its `acquire` met is over |
| `TransferDealerProofs` | `TransfersAreReported` | `TransfersAsReported`: custody transfers move once and are answered as what happened, but for `unsure` ones |
| | `DealsPairs` | `DealtInPairs`: whoever is dealt has one partner, the other party of the same request |
| | `SharesSound` | `SharesCorrelated`: shares open to MAC-checked bits, masks, inverse pairs and products |
| `PriceStreamsProofs` | `RegistrySound` | `RegisteredOrCancelled` |
| | `PairsStreamedOnce` | `OneStreamPerPair` |
| | `SettledStreams` | `DefaultsStreamed` |
| `PoolRunnerProofs` | `OrdersComeBack` | `PoolAssignment`: an order is in a pool that it fits and comes back, but for `doubled` and `failed` ones |
| `OrderServicesProofs` | `ProofsAreJustified` | `ProofsJustified` of the prover service |
| | `AnswersAreJustified` | `AnswersJustified` of the compliance server |
| | `IndexedBeforeDeleted` | `IndexedInOrder` of the indexer |

All hold for every value of the constants that satisfies the named `ASSUME` of the
component's module, and for overlapping requests and failing calls. The assumptions say
that null values differ from real ones, that amounts, limits and times are natural
numbers, that grace period, capacity, retries and threads are positive, that a cooldown
starts below its maximum, and that every nonzero scalar has an inverse modulo `P`. Where
a property is named, a run checks that definition, or its instance for the part that
stands for the component, on a small instance.

None of the properties is inductive alone. What each proof adds:

**Gas wallets** (`PoolInv`). A registration looks a row up and writes it in another
statement. `RegisterSound(r)` relates what `r` read (`seen[r]`) to the table: while the
two agree, the wallet of `r` is its peer's or in the pool, and no other wallet is its
peer's unless the peer is `crowded`; when they do not agree, the step that writes puts
the wallet into `outdated`. A report compares each row with its snapshot in the same
way. The three properties follow, the grace period as an action property.
**Hot wallet** (`HotInv`). A try that finds its nonce used was preceded by a transaction of
another request (`Crowding`), the allowance a request saw is there until another one
uses it (`Covered`), and a request has moved funds by its last place only (`Reporting`).

**Caches** (`CachesInv`). What a request loaded or wrote is still the row when it reaches
the cache, and while an entry is behind the row a request is on its way to correct it
(`KeySound`, `FeeSound`, `LimitSound`). Both need that one request at a time is about
the thing, or that it is in `raced` (`Alone`).

**Bundles.** The limit is inductive once what a task read from the bucket is within it
too (`ReadsWithinLimit`). For the refinement, `Phase` maps requests, settlements,
returns and disturbances to the phase of a token. That a return finds its token still
out needs `ReturnInv`: only settled bundles have events and tasks; and a bundle that was
not disturbed has one task at a time, and its context outlives the return of the token
only under the task that is about to remove it. `RecordInv` says the same of what is
recorded. `ReturnInv` is also checked in `external_match` (`LimitsKept`). A restart
forgets contexts and tasks and keeps it.

**Gas refills** (`RefillInv`). What a refill read of a wallet bounds what the wallet
holds when it is filled, unless two running refills share the wallet (`ReadHolds`,
`SharedAreRaced`), and the wallets it is done with are filled (`FilledSoFar`).
**Fireblocks.** `meter` is the most by which some past period exceeded one call per
interval; `meter + permits <= Capacity` is inductive, because a call moves one unit from
`permits` to `meter` and a refill lowers `meter` before it raises `permits`. `floor[c]`
is what is left of the cooldown that `c` met: at most the present cooldown while `c`
sleeps, and zero once it queues.

**Transfers** (`TransferInv`). A request sends its transaction from one place that it
never returns to (`SentOnce`), what it moved is settled by that transaction
(`MovedByTx`), and it answers once the transaction is settled (`Answered`).
**Dealer** (`IInv`). Open jobs stand in the map under their own id and have not been
answered, and only valid calls are in the queue (`JobsSound`); `Linked` states the
partnership. **Shares** (`SInv`). The algebra is reduced to lemmas about sums and products
modulo `P`; one lemma says what `gen_authenticated_secret_shares` deals, and each kind
of randomness follows.

**Price streams** (`IInv`). A request and a task have a pair, and only started tasks are
cancelled. The step that matters is `Remove`: a task removes by key whatever stream is
registered, perhaps a newer one, and cancels the one it removes. `Startup` adds, for the
time until a refresh takes streams down, that a task that runs is the one its pair is
registered under.

**Pool runner** (`PoolInv`). An order in a managed pool has a task that is still to move
it back, unless a call failed (`Attended`); no other task has it in hand unless two
routed it (`OneTaskEach`); nothing is heard of an order before it is created
(`KnownOrders`).

**Prover, compliance, indexer.** Every slot of a reply has a job that is queued once,
runs or is done (`QueuedOnce`, `Accounted`). Entries and answers rest on assessments made
no later than they were stored (`Assessed`). A registration about to be deleted is in the
database (`Carried`), and a task keeps its group in flight until one is `late` (`Alone`).

Only model-checked: liveness, which is beyond these provers; and the properties of `RateLimiter`, `MatchRequest`, `SettlementMetrics`,
`QuoteSponsorship`, `RfqtQuote`, `SwapDecay`, `SponsorRefill`, `SwapCost`,
`CowswapOrder`, `PriceConnection`, `CoinbaseBook`, `QuoteFeed`, `PriceSubscriptions`,
`PriceClient` and `OrderSolver`.

## 6. Where the code and its words part

Three disagreements are kept as runs:

- `gas_idempotent`: `register_gas_wallet` is documented to be idempotent per peer; two
  overlapping registrations both find no live wallet and take one each.
- `coinbase_gap`: the sequence check works on a copy of the last-seen number, so a
  lost message is never reported.
- `sponsored_minimum`: the minimum for sponsorship is documented as a value in USD, but
  `get_quote_amount` multiplies an atomic base amount by the price of a whole token
  without adjusting decimals. For a base token with more decimals than USDC the order
  counts as larger than it is, and the minimum is not enforced.

Others were met while modelling. They limit what the properties say, and each is
visible in the module named:

- `AuthCaches`: an entry loaded before a change and stored after it stays
  until it is overwritten or the process restarts; `CachesAreCurrent` excepts what two
  requests raced for.
- `RateLimiter`: the script compares the string INCRBYFLOAT returns with a number, so a
  bundle or quote key never gets a TTL; the `SET` of a return would drop one anyway.
- `MatchRequest`: `check_execution_cost_exceeded` is documented to return false when the
  limit is exceeded and returns true; `record_gas_sponsorship` is documented to do
  nothing without budget and increments unchecked (the callers want what the code
  does). A price that is zero at the second read panics the handler.
- `MatchRequest`, `QuoteSponsorship`, `RfqtQuote`: the exact output of an order is lowered
  by the refund without a check. In the release build a refund above the output wraps, and
  the relayer is asked for almost 2^128.
- `BundleLifecycle`: two tasks of one nonce return its token twice; a failure after
  the return leaves the context in the store.
- `SettlementMetrics`: a task of a transaction with several matches takes its context
  at the first match, whichever bundle that was.
- `QuoteSponsorship`: an assembly that does not find the cached sponsorship sends the
  relayer a quote it did not sign, if there was something to undo.
- `GasWallets`: besides `gas_idempotent`, a request that writes a row or hands out a key
  after the row changed may leave a key with a peer that does not own the wallet, or
  take a wallet within its grace period.
- `GasRefill`: two overlapping refills overfill a wallet.
- `SwapDecay`, `SponsorRefill`: an attempt whose receipt is lost counts as failed and is
  tried again although it may have sold, so a swap may sell its size more than once.
- `FireblocksLimiter`: a cooldown that begins while a caller queues for a permit is
  not waited for.
- `CowswapOrder`: an order given up on is not cancelled, so a caller that asks again may
  have two open.
- `SwapCost`: the gauges of overlapping swaps of one label set can show parts of both.
- `PriceStreams`: a task that ended removes its pair by key, perhaps the newer stream of a
  default pair; after a refresh a cancelled task may run on beside the new one until it
  notices.
- `PriceConnection`: the retry limit counts retries in a window of 60 seconds. A comment
  says that 15 retries permit about three minutes of failure before the connection is
  given up (`src/price-reporter/src/utils/mod.rs:60`), but retries that are 10 seconds
  apart never fill the window and go on (part `dead`).
- `QuoteFeed`: the first midpoint of Binance, over REST, is deliberately not checked for a
  zero side. A comment says that no consumer sees a bad value, since a midpoint of zero is
  dropped later (`src/price-reporter/src/exchanges/binance.rs:116`); a zero bid alone
  puts half the offer on the watch, which is positive.
- `PriceClient`: the staleness timer starts with the first price. After `shutdown()` the
  client still counts as connected and reads its map, which grows stale.
- `Dealer`: a panic, also the `assert_eq!` on two bodies, poisons the mutex for good.
- `PoolRunner`: when the call that moves an order back fails the order stays in the
  managed pool; a second task for an order closes the waiter of the first.
- `OrderSolver`: an order that stays listed is solved again once the cache evicted it. The
  improvement is relative to the order's price and not to Renegade's, so a sell that
  scales its input is promised up to the square of the improvement too much; at rates
  above one an order may be worth less than its output.
- `Compliance`: a verdict is stored under the address that the screening service returns,
  which the code takes to be the one it asked about.
- `IndexerQueue`: a task that outlives the visibility timeout overlaps its successor;
  registrations behind a spend in their group wait for as long as the spend panics.
- `ProverService`: a setup of the circuits that fails is only logged, although the code
  says `expect("failed to setup circuits")`; an unsupported media type is answered with
  500 and a missing header with 400; the links left over by a failed one run on.

## 7. What is not modelled

- **The provers** behind the prover service are of another crate: they succeed, refuse the
  witness, fail or panic.
- **Fee indexer**: its module is commented out of the build.
- **OKX market maker connector**: likewise.
- **Gas oracles** of the chains: what they answer is an input of `Sample`.
- **Quote requests of Bebop and LiFi**: one HTTP call each; what a venue answers is an
  input of `SwapDecay`.
- **Indexing of spends**: the handler is a `todo!()` after the first lookup; the model
  has that panic.
- **Cowswap signing, venue HTTP formats, ABI and calldata encoding, HMAC checks, SDK
  headers, stringified bodies, configuration, telemetry**: no state, or formats only.
- **Creation of hot wallets and listing of balances**; the HTTP client behind the
  fall-back of `PriceClient`; supported-pair lookups of the exchanges.

Abstractions: prices and amounts are small integers, floats are exact rationals except
where the code's rounding decides something (the multiplier of `SwapDecay`, `round_up`
in `CustodyTransfers`, the fee of `OrderSolver`); keys, secrets and payloads are
names; redis, Postgres, Fireblocks, SQS and the chain are external and modelled by what
the code relies on.

## 8. Plan

Done: the components above, their runs, eight modules of proofs.

Next, in this order:

1. *Model.* Hot wallet creation in `CustodyTransfers`; the composition of
   `MatchRequest` and `BundleLifecycle` through one Redis bucket.
2. *Abstract specifications.* A single-use custody transfer that `CustodyTransfers`
   and `HotWalletTx` both implement; an atomic registry for `PriceStreams`.
3. *Proofs.* `RoutedByExecutionCost` of `MatchRequest`; `TokensAccounted` of the
   undisturbed `RateLimiter`; `SoldAsSeen` of `SwapDecay`.
