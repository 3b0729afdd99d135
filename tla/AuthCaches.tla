------------------------------ MODULE AuthCaches ------------------------------
(***************************************************************************)
(* The database of the auth server and the in-memory cache in front of it: *)
(* the API keys every request is authorised against, the external match    *)
(* fees and the rate limits.  A request that misses the cache loads the    *)
(* row and caches it.  A fee is resolved from the user's override, then    *)
(* the default of the asset, then a constant, in one statement; a rate     *)
(* limit is cached with its absence.  The management handlers that set a   *)
(* value write the database and then the cache; those that remove a fee    *)
(* clear the cache and then write the database.  No lock spans the two, so *)
(* each statement and each cache operation is a step, and requests         *)
(* interleave freely.  The history variable raced holds what two requests  *)
(* have been about at once since the process started.                      *)
(***************************************************************************)
EXTENDS Naturals

CONSTANTS
    Keys,           \* API key ids
    Users,          \* ids of existing API keys, of the fees and limits
    Assets,         \* tickers
    Fees,           \* fee rates
    DefaultFee,     \* DEFAULT_RELAYER_FEE
    Limits,         \* requests per minute
    Requests,       \* requests the server handles at a time
    None,           \* no row, no cached key
    NotCached       \* no cached fee or limit

VARIABLES
    apiKeys,        \* the table of keys
    userFees,       \* the overrides, per user and asset
    defaultFees,    \* asset_default_fees
    rateLimits,     \* per user; the methods have rows of their own
    apiKeyCache,    \* ServerCache::api_key_cache
    userFeeCache,
    rateLimitCache,
    cacheReq,       \* requests in progress
    raced           \* history: what two requests were about at once

db == <<apiKeys, userFees, defaultFees, rateLimits>>
cache == <<apiKeyCache, userFeeCache, rateLimitCache>>
cacheVars == <<apiKeys, userFees, defaultFees, rateLimits, apiKeyCache, userFeeCache,
               rateLimitCache, cacheReq, raced>>

ApiKey == [active : BOOLEAN, whitelisted : BOOLEAN]

NewApiKey == [active |-> TRUE, whitelisted |-> FALSE]

Expired(e) == [active |-> FALSE, whitelisted |-> e.whitelisted]
Whitelisted(e, b) == [active |-> e.active, whitelisted |-> b]

ASSUME CachesAssumption ==
    /\ None \notin ApiKey \cup Fees \cup Limits
    /\ NotCached \notin Fees \cup Limits \cup {None}
    /\ DefaultFee \in Fees

\* What a request is about: a key, the fees of an asset, the limit of a user.
KeyOf(k) == <<"key", k>>
FeesOf(a) == <<"fees", a>>
LimitOf(u) == <<"limit", u>>
Nothing == <<"nothing", None>>

Idle == [op |-> "idle", about |-> Nothing, user |-> None, val |-> None]

NoFees(v) == [u \in Users |-> [a \in Assets |-> v]]

CachesInit ==
    /\ apiKeys = [k \in Keys |-> None]
    /\ userFees = NoFees(None)
    /\ defaultFees = [a \in Assets |-> None]
    /\ rateLimits = [u \in Users |-> None]
    /\ apiKeyCache = [k \in Keys |-> None]
    /\ userFeeCache = NoFees(NotCached)
    /\ rateLimitCache = [u \in Users |-> NotCached]
    /\ cacheReq = [r \in Requests |-> Idle]
    /\ raced = {}

Starts(r, x) ==
    /\ cacheReq[r] = Idle
    /\ raced' = IF \E q \in Requests : cacheReq[q].about = x THEN raced \cup {x} ELSE raced

Goto(r, op, x, u, v) ==
    cacheReq' = [cacheReq EXCEPT ![r] = [op |-> op, about |-> x, user |-> u, val |-> v]]

Ends(r) == cacheReq' = [cacheReq EXCEPT ![r] = Idle]

\* A step of request r past its first.
Continues(r, op) == cacheReq[r].op = op /\ UNCHANGED raced

\* The id or ticker a request is about.
Id(r) == cacheReq[r].about[2]

-----------------------------------------------------------------------------
(* The cache operations *)

CacheApiKey(k, e) == apiKeyCache' = [apiKeyCache EXCEPT ![k] = e]

MarkNothing(k) == UNCHANGED apiKeyCache

\* Does nothing when the key is not cached.
MarkKeyExpired(k) ==
    IF apiKeyCache[k] = None
    THEN UNCHANGED apiKeyCache
    ELSE apiKeyCache' = [apiKeyCache EXCEPT ![k] = Expired(@)]

ClearKey(k) == apiKeyCache' = [apiKeyCache EXCEPT ![k] = None]

CacheUserFee(u, a, f) == userFeeCache' = [userFeeCache EXCEPT ![u][a] = f]

ClearUserFee(u, a) == userFeeCache' = [userFeeCache EXCEPT ![u][a] = NotCached]

ClearFirstEntry(a) ==
    \E u \in Users : userFeeCache' = [userFeeCache EXCEPT ![u][a] = NotCached]

\* Retains the entries of the other assets, for every user.
ClearAssetEntries(a) ==
    userFeeCache' = [u \in Users |-> [b \in Assets |->
                        IF b = a THEN NotCached ELSE userFeeCache[u][b]]]

CacheRateLimit(u, l) == rateLimitCache' = [rateLimitCache EXCEPT ![u] = l]

-----------------------------------------------------------------------------
(* get_api_key_entry: cache, then row, then cache *)

\* A hit answers the request; a miss goes on to the database.
Lookup(r, k) ==
    /\ Starts(r, KeyOf(k))
    /\ apiKeyCache[k] = None
    /\ Goto(r, "load", KeyOf(k), None, None)
    /\ UNCHANGED <<db, cache>>

\* An unknown key ends the request.
Load(r) ==
    /\ Continues(r, "load")
    /\ IF apiKeys[Id(r)] = None
       THEN Ends(r)
       ELSE Goto(r, "store", cacheReq[r].about, None, apiKeys[Id(r)])
    /\ UNCHANGED <<db, cache>>

Store(r) ==
    /\ Continues(r, "store")
    /\ CacheApiKey(Id(r), cacheReq[r].val)
    /\ Ends(r)
    /\ UNCHANGED <<db, userFeeCache, rateLimitCache>>

\* The load fails: nothing is cached.
LoadFails(r) ==
    /\ Continues(r, "load")
    /\ Ends(r)
    /\ UNCHANGED <<db, cache>>

-----------------------------------------------------------------------------
(* The handlers that manage keys: the row, then the cache *)

\* The id is the primary key: adding it twice fails.
AddKey(r, k) ==
    /\ Starts(r, KeyOf(k))
    /\ apiKeys[k] = None
    /\ apiKeys' = [apiKeys EXCEPT ![k] = NewApiKey]
    /\ Goto(r, "added", KeyOf(k), None, NewApiKey)
    /\ UNCHANGED <<userFees, defaultFees, rateLimits, cache>>

AddKeyCaches(r) ==
    /\ Continues(r, "added")
    /\ CacheApiKey(Id(r), cacheReq[r].val)
    /\ Ends(r)
    /\ UNCHANGED <<db, userFeeCache, rateLimitCache>>

\* An update that matches no row is not an error here.
ExpireKey(r, k) ==
    /\ Starts(r, KeyOf(k))
    /\ IF apiKeys[k] = None
       THEN UNCHANGED apiKeys
       ELSE apiKeys' = [apiKeys EXCEPT ![k] = Expired(@)]
    /\ Goto(r, "expired", KeyOf(k), None, None)
    /\ UNCHANGED <<userFees, defaultFees, rateLimits, cache>>

ExpireKeyMarks(r) ==
    /\ Continues(r, "expired")
    /\ MarkKeyExpired(Id(r))
    /\ Ends(r)
    /\ UNCHANGED <<db, userFeeCache, rateLimitCache>>

\* whitelist_api_key and remove_whitelist_entry: a missing row is an error.
SetWhitelist(r, k, b) ==
    /\ Starts(r, KeyOf(k))
    /\ apiKeys[k] # None
    /\ apiKeys' = [apiKeys EXCEPT ![k] = Whitelisted(@, b)]
    /\ Goto(r, "whitelisted", KeyOf(k), None, None)
    /\ UNCHANGED <<userFees, defaultFees, rateLimits, cache>>

SetWhitelistClears(r) ==
    /\ Continues(r, "whitelisted")
    /\ ClearKey(Id(r))
    /\ Ends(r)
    /\ UNCHANGED <<db, userFeeCache, rateLimitCache>>

-----------------------------------------------------------------------------
(* Fees.  get_user_fee: cache, then database, then cache *)

\* The COALESCE of get_user_fee.
EffectiveFee(u, a) ==
    CASE userFees[u][a] # None -> userFees[u][a]
      [] userFees[u][a] = None /\ defaultFees[a] # None -> defaultFees[a]
      [] OTHER -> DefaultFee

FeeMiss(r, u, a) ==
    /\ Starts(r, FeesOf(a))
    /\ userFeeCache[u][a] = NotCached
    /\ Goto(r, "feeLoad", FeesOf(a), u, None)
    /\ UNCHANGED <<db, cache>>

FeeLoad(r) ==
    /\ Continues(r, "feeLoad")
    /\ Goto(r, "feeStore", cacheReq[r].about, cacheReq[r].user,
            EffectiveFee(cacheReq[r].user, Id(r)))
    /\ UNCHANGED <<db, cache>>

FeeStore(r) ==
    /\ Continues(r, "feeStore")
    /\ CacheUserFee(cacheReq[r].user, Id(r), cacheReq[r].val)
    /\ Ends(r)
    /\ UNCHANGED <<db, apiKeyCache, rateLimitCache>>

\* A statement fails: the request ends where it is.
FeeFails(r) ==
    /\ \E op \in {"feeLoad", "removeFee", "removeDefault"} : Continues(r, op)
    /\ Ends(r)
    /\ UNCHANGED <<db, cache>>

\* Setting a value: database, then cache.
SetUserFee(r, u, a, f) ==
    /\ Starts(r, FeesOf(a))
    /\ userFees' = [userFees EXCEPT ![u][a] = f]
    /\ Goto(r, "feeSet", FeesOf(a), u, f)
    /\ UNCHANGED <<apiKeys, defaultFees, rateLimits, cache>>

SetUserFeeCaches(r) ==
    /\ Continues(r, "feeSet")
    /\ CacheUserFee(cacheReq[r].user, Id(r), cacheReq[r].val)
    /\ Ends(r)
    /\ UNCHANGED <<db, apiKeyCache, rateLimitCache>>

SetDefaultFee(r, a, f) ==
    /\ Starts(r, FeesOf(a))
    /\ defaultFees' = [defaultFees EXCEPT ![a] = f]
    /\ Goto(r, "defaultSet", FeesOf(a), None, f)
    /\ UNCHANGED <<apiKeys, userFees, rateLimits, cache>>

SetDefaultFeeClears(r) ==
    /\ Continues(r, "defaultSet")
    /\ ClearAssetEntries(Id(r))
    /\ Ends(r)
    /\ UNCHANGED <<db, apiKeyCache, rateLimitCache>>

\* Removing a value: cache, then database.
RemoveUserFee(r, u, a) ==
    /\ Starts(r, FeesOf(a))
    /\ ClearUserFee(u, a)
    /\ Goto(r, "removeFee", FeesOf(a), u, None)
    /\ UNCHANGED <<db, apiKeyCache, rateLimitCache>>

\* Deleting nothing is reported as an error and changes nothing.
RemoveUserFeeDeletes(r) ==
    /\ Continues(r, "removeFee")
    /\ userFees' = [userFees EXCEPT ![cacheReq[r].user][Id(r)] = None]
    /\ Ends(r)
    /\ UNCHANGED <<apiKeys, defaultFees, rateLimits, cache>>

RemoveDefaultFee(r, a) ==
    /\ Starts(r, FeesOf(a))
    /\ ClearAssetEntries(a)
    /\ Goto(r, "removeDefault", FeesOf(a), None, None)
    /\ UNCHANGED <<db, apiKeyCache, rateLimitCache>>

RemoveDefaultFeeDeletes(r) ==
    /\ Continues(r, "removeDefault")
    /\ defaultFees' = [defaultFees EXCEPT ![Id(r)] = None]
    /\ Ends(r)
    /\ UNCHANGED <<apiKeys, userFees, rateLimits, cache>>

-----------------------------------------------------------------------------
(* Rate limits.  get_rate_limit: cache, then database, then cache *)

LimitMiss(r, u) ==
    /\ Starts(r, LimitOf(u))
    /\ rateLimitCache[u] = NotCached
    /\ Goto(r, "limitLoad", LimitOf(u), None, None)
    /\ UNCHANGED <<db, cache>>

LimitLoad(r) ==
    /\ Continues(r, "limitLoad")
    /\ Goto(r, "limitStore", cacheReq[r].about, None, rateLimits[Id(r)])
    /\ UNCHANGED <<db, cache>>

\* No row is cached too, as the absence of a limit.
LimitStore(r) ==
    /\ Continues(r, "limitStore")
    /\ CacheRateLimit(Id(r), cacheReq[r].val)
    /\ Ends(r)
    /\ UNCHANGED <<db, apiKeyCache, userFeeCache>>

LimitFails(r) ==
    /\ Continues(r, "limitLoad")
    /\ Ends(r)
    /\ UNCHANGED <<db, cache>>

\* The row, then the cache.
SetRateLimit(r, u, l) ==
    /\ Starts(r, LimitOf(u))
    /\ rateLimits' = [rateLimits EXCEPT ![u] = l]
    /\ Goto(r, "limitSet", LimitOf(u), None, l)
    /\ UNCHANGED <<apiKeys, userFees, defaultFees, cache>>

SetRateLimitCaches(r) ==
    /\ Continues(r, "limitSet")
    /\ CacheRateLimit(Id(r), cacheReq[r].val)
    /\ Ends(r)
    /\ UNCHANGED <<db, apiKeyCache, userFeeCache>>

-----------------------------------------------------------------------------
\* The process restarts with an empty cache; requests in progress are gone.
Restart ==
    /\ apiKeyCache' = [k \in Keys |-> None]
    /\ userFeeCache' = NoFees(NotCached)
    /\ rateLimitCache' = [u \in Users |-> NotCached]
    /\ cacheReq' = [r \in Requests |-> Idle]
    /\ raced' = {}
    /\ UNCHANGED db

KeyNext ==
    \E r \in Requests :
        \/ \E k \in Keys : \/ Lookup(r, k) \/ AddKey(r, k) \/ ExpireKey(r, k)
                           \/ \E b \in BOOLEAN : SetWhitelist(r, k, b)
        \/ Load(r) \/ Store(r) \/ LoadFails(r)
        \/ AddKeyCaches(r) \/ ExpireKeyMarks(r) \/ SetWhitelistClears(r)

FeeNext ==
    \E r \in Requests :
        \/ \E a \in Assets :
              \/ \E u \in Users : \/ FeeMiss(r, u, a) \/ RemoveUserFee(r, u, a)
                                  \/ \E f \in Fees : SetUserFee(r, u, a, f)
              \/ RemoveDefaultFee(r, a)
              \/ \E f \in Fees : SetDefaultFee(r, a, f)
        \/ FeeLoad(r) \/ FeeStore(r) \/ FeeFails(r)
        \/ SetUserFeeCaches(r) \/ SetDefaultFeeClears(r)
        \/ RemoveUserFeeDeletes(r) \/ RemoveDefaultFeeDeletes(r)

LimitNext ==
    \E r \in Requests :
        \/ \E u \in Users : LimitMiss(r, u) \/ \E l \in Limits : SetRateLimit(r, u, l)
        \/ LimitLoad(r) \/ LimitStore(r) \/ LimitFails(r) \/ SetRateLimitCaches(r)

CachesNext == KeyNext \/ FeeNext \/ LimitNext \/ Restart

CachesSpec == CachesInit /\ [][CachesNext]_cacheVars

-----------------------------------------------------------------------------
(* Properties *)

Request ==
    {Idle}
    \cup [op : {"load", "store", "added", "expired", "whitelisted"}, about : {"key"} \X Keys,
          user : {None}, val : ApiKey \cup {None}]
    \cup [op : {"feeLoad", "removeFee"}, about : {"fees"} \X Assets, user : Users, val : {None}]
    \cup [op : {"feeStore", "feeSet"}, about : {"fees"} \X Assets, user : Users, val : Fees]
    \cup [op : {"defaultSet", "removeDefault"}, about : {"fees"} \X Assets,
          user : {None}, val : Fees \cup {None}]
    \cup [op : {"limitLoad", "limitStore", "limitSet"}, about : {"limit"} \X Users,
          user : {None}, val : Limits \cup {None}]

\* The type of the tables, of the caches and of the requests.
CachesTypeOK ==
    /\ apiKeys \in [Keys -> ApiKey \cup {None}]
    /\ userFees \in [Users -> [Assets -> Fees \cup {None}]]
    /\ defaultFees \in [Assets -> Fees \cup {None}]
    /\ rateLimits \in [Users -> Limits \cup {None}]
    /\ apiKeyCache \in [Keys -> ApiKey \cup {None}]
    /\ userFeeCache \in [Users -> [Assets -> Fees \cup {NotCached}]]
    /\ rateLimitCache \in [Users -> Limits \cup {None, NotCached}]
    /\ cacheReq \in [Requests -> Request]

\* No request about x is between its change of the database and of the cache.
Settled(x) ==
    \A r \in Requests :
        cacheReq[r].about = x =>
            cacheReq[r].op \in {"load", "store", "feeLoad", "feeStore", "limitLoad", "limitStore"}

\* The caches answer with the database, for what no two requests have been
\* about at once, whatever the other requests do.  Once the management requests
\* for a key have returned, the entry get_api_key_entry answers from is the row:
\* an expired key is refused and a change of the whitelist is seen by the very
\* next request.  get_user_fee answers with the fee the database resolves to
\* (override, default, constant), and get_rate_limit with the row, with "no
\* limit" only when there is none.  And however requests overlap, the cache only
\* ever authorises a key that add_key_query has inserted.
CachesAreCurrent ==
    /\ \A k \in Keys : KeyOf(k) \notin raced /\ Settled(KeyOf(k))
                       => apiKeyCache[k] \in {None, apiKeys[k]}
    /\ \A u \in Users, a \in Assets : FeesOf(a) \notin raced /\ Settled(FeesOf(a))
                       => userFeeCache[u][a] \in {NotCached, EffectiveFee(u, a)}
    /\ \A u \in Users : LimitOf(u) \notin raced /\ Settled(LimitOf(u))
                       => rateLimitCache[u] \in {NotCached, rateLimits[u]}
    /\ \A k \in Keys : apiKeyCache[k] # None => apiKeys[k] # None
=============================================================================
