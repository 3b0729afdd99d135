----------------------------- MODULE MCAuthState -----------------------------
(***************************************************************************)
(* The caches, the rate limiter and the requests of the auth server, for   *)
(* TLC.  The parts share no state: a behaviour picks one part and the      *)
(* others stay in their initial state, so one run checks each part as if   *)
(* it were alone.  The requests for keys, fees and rate limits share no    *)
(* state either, and are checked one kind at a time.                       *)
(***************************************************************************)
EXTENDS AuthCaches, TLC

CONSTANTS Parts, k1, k2, r1, r2, u1, u2, a1, NoKey, NoTtl

VARIABLES
    part,
    now, limit, bucket, ttl, ret, granted, returned,
    day, exceeded, spent, price, estimate, sampled, used, matchReq

\* The bundle limiter: returns that nothing disturbs, and returns that overlap.
Serial == INSTANCE RateLimiter
    WITH Kind <- "bundle", Half <- 1, MaxTime <- 4, MaxGranted <- 3, Limits <- {1, 2},
         Values <- {}, Returns <- {r1, r2}, Overlap <- FALSE

Overlapping == INSTANCE RateLimiter
    WITH Kind <- "bundle", Half <- 1, MaxTime <- 2, MaxGranted <- 2, Limits <- {1, 2},
         Values <- {}, Returns <- {r1, r2}, Overlap <- TRUE

\* The gas sponsorship limiter: MaxTime is past the TTL of the first interval.
Gas == INSTANCE RateLimiter
    WITH Kind <- "gas", Half <- 1, MaxTime <- 7, MaxGranted <- 3, Limits <- {2},
         Values <- {1, 2}, Returns <- {}, Overlap <- TRUE

\* Two requests that contend for the tokens while a day ends, the limiter is
\* set and calls fail.
Routing == INSTANCE MatchRequest
    WITH req <- matchReq, Reqs <- {r1, r2}, Kinds <- {"quote", "quoted"},
         Orders <- {[input |-> "usdc", output |-> "t", in |-> 30, out |-> 0, exact |-> FALSE]},
         Queries <- {[malformed |-> FALSE, disabled |-> FALSE, native |-> FALSE]},
         Keys <- {"plain", "whitelisted"}, Whitelist <- {"whitelisted"}, Inactive <- {},
         USDC <- "usdc", WETH <- "w", Native <- "native", Named <- {"usdc", "t"},
         Unit <- [usdc |-> 10, t |-> 10, w |-> 100], QuoteLimit <- 1, BundleLimit <- 1,
         MinSponsored <- 4, ProtocolFee <- 10, Prices <- {},
         PriceRange <- [t |-> {None}], Samples <- {[l1 |-> 0, fee |-> 1]}, L2Gas <- 2,
         MaxAmount <- 1024, Days <- 1 .. 2, Tickers <- {"t"}, Budgets <- {FALSE}, Faults <- TRUE

\* One request, for every shape of order, as prices and gas costs change.
\* Token t has the decimals of USDC, w one more.  The gas cost may rise so far
\* that a refund is larger than an order above the minimum.
Refunding == INSTANCE MatchRequest
    WITH req <- matchReq, Reqs <- {r1}, Kinds <- {"direct"},
         Orders <- {[input |-> b, output |-> IF b = "t" THEN "usdc" ELSE "t",
                     in |-> 0, out |-> a, exact |-> e] :
                      b \in {"usdc", "t"}, a \in {3, 36, 45}, e \in BOOLEAN}
                   \cup {[input |-> i, output |-> "usdc", in |-> a, out |-> 0, exact |-> FALSE] :
                           i \in {"t", "w"}, a \in {3, 40}}
                   \cup {[input |-> "usdc", output |-> "w", in |-> 0, out |-> a, exact |-> e] :
                           a \in {2, 40}, e \in BOOLEAN}
                   \cup {[input |-> "usdc", output |-> "native", in |-> 40, out |-> 0,
                          exact |-> FALSE]},
         Queries <- {[malformed |-> FALSE, disabled |-> FALSE, native |-> FALSE],
                     [malformed |-> FALSE, disabled |-> FALSE, native |-> TRUE],
                     [malformed |-> FALSE, disabled |-> TRUE, native |-> FALSE],
                     [malformed |-> TRUE, disabled |-> FALSE, native |-> FALSE]},
         Keys <- {"plain", "inactive"}, Whitelist <- {}, Inactive <- {"inactive"},
         USDC <- "usdc", WETH <- "w", Native <- "native", Named <- {"usdc", "t", "w"},
         Unit <- [usdc |-> 10, t |-> 10, w |-> 100, native |-> 100],
         QuoteLimit <- 1, BundleLimit <- 1, MinSponsored <- 4, ProtocolFee <- 10,
         Prices <- {0, 1, 2, 7, 20}, PriceRange <- [t |-> {None, 0, 1, 2}, w |-> {None, 7, 20}],
         Samples <- {[l1 |-> 0, fee |-> 1], [l1 |-> 1, fee |-> 10]}, L2Gas <- 2,
         MaxAmount <- 1024, Days <- {1}, Tickers <- {}, Budgets <- BOOLEAN, Faults <- FALSE

\* Keys, requests and users are interchangeable.
Symmetry == Permutations({k1, k2}) \cup Permutations({r1, r2}) \cup Permutations({u1, u2})

limiterVars == <<now, limit, bucket, ttl, ret, granted, returned>>
requestVars == <<day, exceeded, spent, price, estimate, sampled, used, matchReq>>
vars == <<part, cacheVars, limiterVars, requestVars>>

Init ==
    /\ part \in Parts
    /\ CachesInit
    /\ CASE part = "overlapping" -> Overlapping!Init
         [] part = "gas" -> Gas!Init
         [] OTHER -> Serial!Init
    /\ part \notin {"serial", "overlapping", "gas"} => limit = 1
    /\ IF part = "refunds" THEN Refunding!Init ELSE Routing!Init

Next ==
    \/ /\ \/ part = "keys" /\ KeyNext
          \/ part = "fees" /\ FeeNext
          \/ part = "limits" /\ LimitNext
          \/ part \in {"keys", "fees", "limits"} /\ Restart
       /\ UNCHANGED <<part, limiterVars, requestVars>>
    \/ /\ \/ part = "serial" /\ Serial!Next
          \/ part = "overlapping" /\ Overlapping!Next
          \/ part = "gas" /\ Gas!Next
       /\ UNCHANGED <<part, cacheVars, requestVars>>
    \/ /\ \/ part = "routing" /\ Routing!Next
          \/ part = "refunds" /\ Refunding!Next
       /\ UNCHANGED <<part, cacheVars, limiterVars>>

Spec == Init /\ [][Next]_vars

-----------------------------------------------------------------------------
\* The Redis limiter accounts for its tokens: undisturbed, a bucket holds the
\* tokens granted less those returned; however returns overlap it never rises
\* above every limit configured; what increment_consumed_no_check recorded is
\* counted while its interval lasts, under a key that has a TTL.
Accounts ==
    /\ part = "serial" => Serial!TypeOK /\ Serial!Accounted
    /\ part = "overlapping" => Overlapping!BelowLargestLimit
    /\ part = "gas" => Gas!RecordedWhileCurrent /\ Gas!KeysExpire

\* Every step of the limiter leaves its tokens accounted for, and INCR_LIMIT_LUA
\* grants one only while fewer than max_tokens are out.
TokensAccounted == [][Accounts' /\ (part = "serial" => Serial!GrantWithinLimit)]_vars

\* Of the requests for quotes and matches, whatever fails or changes while they
\* are handled: each one sent to the relayer has a rate limit token of its own
\* within max_tokens, and its matching pool follows the execution cost limiter.
RequestsGuarded ==
    part = "routing" =>
        Routing!TypeOK /\ Routing!TokensOfRequests /\ Routing!RoutedByExecutionCost

\* Of the sponsored requests, as prices and the sampled gas cost change: the
\* refund is worth a sampled gas cost, and the exact output of the client is
\* what the relayer is asked for and the refund.  That holds of outputs no less
\* than the refund; of a smaller one the relayer is asked for the difference
\* modulo 2^128, more than the client wants.
RefundsCoverGas ==
    part = "refunds" =>
        Refunding!TypeOK /\ Refunding!RefundCoversGas /\ Refunding!ExactOutputAfterRefund

\* "The minimum quote amount for which gas sponsorship is allowed, in USD"
\* (min_sponsored_order_quote_amount) is the least value of a sponsored order.
MinimumEnforced == part = "refunds" => Refunding!SponsoredIsLarge
=============================================================================
