----------------------------- MODULE RateLimiter -----------------------------
(***************************************************************************)
(* The Redis rate limiter of the auth server, for one user.  Tokens are    *)
(* counted in one Redis key per refill interval.  A token is taken by a    *)
(* script, which Redis runs atomically; a token is returned by a read and  *)
(* a later write; a value is recorded without a check by an increment.     *)
(* Time runs in ticks, 2 * Half of which make a refill interval.           *)
(***************************************************************************)
EXTENDS Naturals

CONSTANTS
    Kind,       \* "bundle": take and return tokens; "gas": record values
    Half,       \* ticks in half a refill interval
    MaxTime,    \* bound on the clock
    MaxGranted, \* bound on the tokens granted in an interval
    Limits,     \* the limits a user may be given
    Values,     \* the values recorded at a time
    Returns,    \* returns of a token in progress at a time
    NoKey,      \* a key Redis does not hold
    NoTtl,      \* a key that does not expire
    Overlap     \* whether other steps may come between the two of a return

VARIABLES
    now,        \* the clock
    limit,      \* the limit of the user, default or configured
    bucket,     \* the Redis value per refill interval
    ttl,        \* the expiry of the key
    ret,        \* returns in progress: what was read, or NoKey
    granted,    \* tokens granted per interval
    returned    \* tokens that a return took off the count per interval

redis == <<bucket, ttl>>
history == <<granted, returned>>
vars == <<now, limit, bucket, ttl, ret, granted, returned>>

Interval == 2 * Half

\* chrono's duration_round: to the nearest multiple, a half goes up.
RoundToNearestRefill(t) == ((t + Half) \div Interval) * Interval

Windows == {w \in 0..(MaxTime + Half) : w % Interval = 0}

BuildKey == RoundToNearestRefill(now)

GetTtl == now + 2 * Interval

Consumed(w) == IF bucket[w] = NoKey THEN 0 ELSE bucket[w]

Init ==
    /\ now = 0
    /\ limit \in Limits
    /\ bucket = [w \in Windows |-> NoKey]
    /\ ttl = [w \in Windows |-> NoTtl]
    /\ ret = [r \in Returns |-> NoKey]
    /\ granted = [w \in Windows |-> 0]
    /\ returned = [w \in Windows |-> 0]

Undisturbed == Overlap \/ \A r \in Returns : ret[r] = NoKey

-----------------------------------------------------------------------------
(* INCR_LIMIT_LUA *)

\* INCRBYFLOAT answers with a string.
IncrByFloat(w, delta) == [lua |-> "string", num |-> Consumed(w) + delta]

ToNumber(v) == [lua |-> "number", num |-> v.num]

\* Lua's == is false for values of different types.
LuaEqual(a, b) == a.lua = b.lua /\ a.num = b.num

KeptUnchecked(w, new) == new

\* The value left by the script: the increment, rolled back beyond the limit.
KeptIncrement(w, new) == IF new > limit THEN Consumed(w) ELSE new

IncrementConsumed ==
    LET w     == BuildKey
        delta == [lua |-> "number", num |-> 1]
        new   == IncrByFloat(w, 1)
        kept  == KeptIncrement(w, ToNumber(new).num)
    IN  /\ Kind = "bundle"
        /\ Undisturbed
        /\ granted[w] < MaxGranted
        /\ bucket' = [bucket EXCEPT ![w] = kept]
        /\ ttl' = IF LuaEqual(new, delta) THEN [ttl EXCEPT ![w] = GetTtl] ELSE ttl
        /\ granted' = [granted EXCEPT ![w] = @ + (kept - Consumed(w))]
        /\ UNCHANGED <<now, limit, ret, returned>>

-----------------------------------------------------------------------------
(* decrement_consumed: a read, then a write to the key of that moment *)

ReturnGet(r) ==
    /\ Kind = "bundle"
    /\ ret[r] = NoKey
    /\ Undisturbed
    /\ ret' = [ret EXCEPT ![r] = Consumed(BuildKey)]
    /\ UNCHANGED <<now, limit, redis, history>>

LessOneTwice(n) == IF n > 1 THEN n - 2 ELSE 0

LessOne(n) == IF n > 0 THEN n - 1 ELSE 0

\* SET drops the expiry of the key.
ReturnSet(r) ==
    LET w == BuildKey
    IN  /\ ret[r] # NoKey
        /\ bucket' = [bucket EXCEPT ![w] = LessOne(ret[r])]
        /\ ttl' = [ttl EXCEPT ![w] = NoTtl]
        /\ returned' = [returned EXCEPT ![w] = @ + IF ret[r] > 0 THEN 1 ELSE 0]
        /\ ret' = [ret EXCEPT ![r] = NoKey]
        /\ UNCHANGED <<now, limit, granted>>

\* The write fails: the count stays.
ReturnFails(r) ==
    /\ ret[r] # NoKey
    /\ ret' = [ret EXCEPT ![r] = NoKey]
    /\ UNCHANGED <<now, limit, redis, history>>

-----------------------------------------------------------------------------
(* increment_consumed_no_check: one pipeline *)

IncrementConsumedNoCheck(v) ==
    LET w == BuildKey
    IN  /\ Kind = "gas"
        /\ granted[w] < MaxGranted
        /\ bucket' = [bucket EXCEPT ![w] = Consumed(w) + v]
        /\ ttl' = [ttl EXCEPT ![w] = GetTtl]
        /\ granted' = [granted EXCEPT ![w] = @ + v]
        /\ UNCHANGED <<now, limit, ret, returned>>

-----------------------------------------------------------------------------
(* The environment: the clock with Redis' expiry, and the configured limit *)

Tick ==
    /\ now < MaxTime
    /\ Undisturbed
    /\ now' = now + 1
    /\ bucket' = [w \in Windows |-> IF ttl[w] # NoTtl /\ ttl[w] <= now' THEN NoKey ELSE bucket[w]]
    /\ ttl' = [w \in Windows |-> IF ttl[w] # NoTtl /\ ttl[w] <= now' THEN NoTtl ELSE ttl[w]]
    /\ UNCHANGED <<limit, ret, history>>

SetLimit(l) ==
    /\ Kind = "bundle"
    /\ limit' = l
    /\ UNCHANGED <<now, redis, ret, history>>

Next ==
    \/ IncrementConsumed
    \/ \E r \in Returns : ReturnGet(r) \/ ReturnSet(r) \/ ReturnFails(r)
    \/ \E v \in Values : IncrementConsumedNoCheck(v)
    \/ Tick
    \/ \E l \in Limits : SetLimit(l)

Spec == Init /\ [][Next]_vars

-----------------------------------------------------------------------------
(* Properties *)

\* The types: counts never become negative, although a return subtracts.
TypeOK ==
    /\ now \in 0..MaxTime
    /\ limit \in Limits
    /\ bucket \in [Windows -> Nat \cup {NoKey}]
    /\ ttl \in [Windows -> Nat \cup {NoTtl}]
    /\ ret \in [Returns -> Nat \cup {NoKey}]
    /\ granted \in [Windows -> Nat]
    /\ returned \in [Windows -> Nat]

\* When a return is not disturbed, the count of an interval is exactly the
\* tokens granted in it less those returned in it.
Accounted == \A w \in Windows : Consumed(w) + returned[w] = granted[w]

\* max_tokens is "the maximum number of tokens that can be used per refill
\* interval": a token is granted only while fewer than that are out.
GrantWithinLimit ==
    \A w \in Windows :
        granted'[w] > granted[w] => granted'[w] <= limit + returned[w]

\* A return, lost or not, never leaves a count above every limit configured.
BelowLargestLimit ==
    \A w \in Windows : \E l \in Limits : Consumed(w) <= l

\* A key that increment_consumed_no_check wrote expires: it always has a TTL.
KeysExpire == \A w \in Windows : bucket[w] # NoKey => ttl[w] # NoTtl

\* The values recorded in an interval are counted until the interval is over,
\* whatever expires.
RecordedWhileCurrent == Consumed(BuildKey) = granted[BuildKey]
=============================================================================
