----------------------------- MODULE AuthCachesProofs -----------------------------
(*********************************************************************************)
(* The caches of the auth server answer with the database.  CachesAreCurrent is  *)
(* not inductive alone: what a request loaded or wrote must still be the row     *)
(* when it reaches the cache, and while the cache is behind the row a request    *)
(* must be on its way to correct it (KeySound, FeeSound, LimitSound).  Both hold *)
(* as long as one request at a time is about a key, an asset or a limit, which   *)
(* is what raced records (Alone).                                                *)
(*********************************************************************************)
EXTENDS AuthCaches, TLAPS

--------------------------------------------------------------------------------
(* The caches of the auth server *)

\* Two requests in progress are about different things, or that thing is in raced.
Alone ==
    \A q, r \in Requests :
        q # r /\ cacheReq[q].about = cacheReq[r].about /\ cacheReq[q].about # Nothing
        => cacheReq[q].about \in raced

\* What is cached of a key, what requests hold of it, and what is left to do.
KeySound(k) ==
    /\ \/ apiKeyCache[k] \in {None, apiKeys[k]}
       \/ \E r \in Requests : cacheReq[r].about = KeyOf(k)
                              /\ cacheReq[r].op \in {"expired", "whitelisted"}
    /\ \A r \in Requests : cacheReq[r].about = KeyOf(k) =>
          /\ cacheReq[r].op \in {"store", "added"} => cacheReq[r].val = apiKeys[k]
          /\ cacheReq[r].op = "expired" =>
                \/ apiKeyCache[k] = None
                \/ apiKeys[k] # None /\ apiKeys[k] = Expired(apiKeyCache[k])

KeyKnown ==
    /\ \A k \in Keys : apiKeyCache[k] # None => apiKeys[k] # None
    /\ \A r \in Requests : cacheReq[r].op \in {"store", "added"} =>
          cacheReq[r].val # None /\ apiKeys[Id(r)] # None

KeyInv == \A k \in Keys : KeyOf(k) \notin raced => KeySound(k)

FeeSound(a) ==
    /\ \A u \in Users :
          \/ userFeeCache[u][a] \in {NotCached, EffectiveFee(u, a)}
          \/ \E r \in Requests : /\ cacheReq[r].about = FeesOf(a)
                                 /\ \/ cacheReq[r].op = "defaultSet"
                                    \/ cacheReq[r].op = "feeSet" /\ cacheReq[r].user = u
    /\ \A r \in Requests : cacheReq[r].about = FeesOf(a) =>
          /\ cacheReq[r].op = "feeStore" => cacheReq[r].val = EffectiveFee(cacheReq[r].user, a)
          /\ cacheReq[r].op = "feeSet" =>
                cacheReq[r].val \in Fees /\ cacheReq[r].val = userFees[cacheReq[r].user][a]
          /\ cacheReq[r].op = "removeFee" => userFeeCache[cacheReq[r].user][a] = NotCached
          /\ cacheReq[r].op = "removeDefault" =>
                \A u \in Users : userFeeCache[u][a] = NotCached

FeeInv == \A a \in Assets : FeesOf(a) \notin raced => FeeSound(a)

LimitSound(u) ==
    /\ \/ rateLimitCache[u] \in {NotCached, rateLimits[u]}
       \/ \E r \in Requests : cacheReq[r].about = LimitOf(u) /\ cacheReq[r].op = "limitSet"
    /\ \A r \in Requests :
          cacheReq[r].about = LimitOf(u) /\ cacheReq[r].op \in {"limitStore", "limitSet"}
          => cacheReq[r].val = rateLimits[u]

LimitInv == \A u \in Users : LimitOf(u) \notin raced => LimitSound(u)

CachesInv == CachesTypeOK /\ Alone /\ KeyKnown /\ KeyInv /\ FeeInv /\ LimitInv

--------------------------------------------------------------------------------
\* What requests are about differs by kind and by id.
LEMMA SubjectsDiffer ==
    /\ \A x, y : (KeyOf(x) = KeyOf(y) => x = y) /\ (FeesOf(x) = FeesOf(y) => x = y)
                 /\ (LimitOf(x) = LimitOf(y) => x = y)
    /\ \A x, y : KeyOf(x) # FeesOf(y) /\ KeyOf(x) # LimitOf(y) /\ FeesOf(x) # LimitOf(y)
    /\ \A x : KeyOf(x) # Nothing /\ FeesOf(x) # Nothing /\ LimitOf(x) # Nothing
    /\ \A x : KeyOf(x)[2] = x /\ FeesOf(x)[2] = x /\ LimitOf(x)[2] = x
  BY DEF KeyOf, FeesOf, LimitOf, Nothing

\* What the place of a request says of it.
LEMMA RequestTypes ==
  ASSUME CachesTypeOK, NEW r \in Requests
  PROVE  /\ cacheReq[r].op \in {"load", "store", "added", "expired", "whitelisted"} =>
              Id(r) \in Keys /\ cacheReq[r].about = KeyOf(Id(r))
              /\ cacheReq[r].val \in ApiKey \cup {None}
         /\ cacheReq[r].op \in {"feeLoad", "feeStore", "feeSet", "removeFee"} =>
              Id(r) \in Assets /\ cacheReq[r].about = FeesOf(Id(r)) /\ cacheReq[r].user \in Users
         /\ cacheReq[r].op \in {"feeStore", "feeSet"} => cacheReq[r].val \in Fees
         /\ cacheReq[r].op \in {"defaultSet", "removeDefault"} =>
              Id(r) \in Assets /\ cacheReq[r].about = FeesOf(Id(r))
         /\ cacheReq[r].op \in {"limitLoad", "limitStore", "limitSet"} =>
              Id(r) \in Users /\ cacheReq[r].about = LimitOf(Id(r))
              /\ cacheReq[r].val \in Limits \cup {None}
  BY DEF CachesTypeOK, Request, Idle, Id, KeyOf, FeesOf, LimitOf

\* A step of a request about x: it starts or goes on, and ends or stays about x.
StepOf(r, x) ==
    /\ Starts(r, x) \/ (cacheReq[r].about = x /\ UNCHANGED raced)
    /\ \E n : (n = Idle \/ n.about = x) /\ cacheReq' = [cacheReq EXCEPT ![r] = n]

\* A step about x keeps Alone, and no other request about x is in progress unless
\* x is raced; what requests are about otherwise is not disturbed.
LEMMA StepAlone ==
  ASSUME CachesTypeOK, Alone, NEW r \in Requests, NEW x, x # Nothing, StepOf(r, x)
  PROVE  /\ Alone'
         /\ raced \subseteq raced'
         /\ x \notin raced' => \A q \in Requests \ {r} :
                cacheReq'[q] = cacheReq[q] /\ cacheReq[q].about # x
         /\ \A y : y # x /\ y # Nothing =>
                /\ y \in raced' <=> y \in raced
                /\ cacheReq'[r].about # y /\ cacheReq[r].about # y
                /\ \A q \in Requests : cacheReq[q].about = y => cacheReq'[q] = cacheReq[q]
                /\ \A q \in Requests : cacheReq'[q].about = y => cacheReq'[q] = cacheReq[q]
<1>0. DOMAIN cacheReq = Requests
  BY Zenon DEF CachesTypeOK
<1>1. PICK n : (n = Idle \/ n.about = x) /\ cacheReq' = [cacheReq EXCEPT ![r] = n]
  BY Zenon DEF StepOf
<1>2. /\ cacheReq'[r] = n
      /\ \A q \in Requests \ {r} : cacheReq'[q] = cacheReq[q]
  BY <1>0, <1>1
<1>3. n.about \in {x, Nothing} /\ Idle.about = Nothing
  BY <1>1 DEF Idle
<1>4. cacheReq[r].about \in {x, Nothing}
  BY <1>3, Zenon DEF StepOf, Starts
<1>5. raced \subseteq raced' /\ \A y : y # x => (y \in raced' <=> y \in raced)
  BY Zenon DEF StepOf, Starts
<1>6. ASSUME x \notin raced', NEW q \in Requests \ {r}
      PROVE  cacheReq[q].about # x
  <2>1. CASE Starts(r, x)
    BY <2>1, <1>6 DEF Starts
  <2>2. CASE cacheReq[r].about = x /\ UNCHANGED raced
    BY <2>2, <1>6 DEF Alone
  <2> QED
    BY <2>1, <2>2, Zenon DEF StepOf
<1>7. Alone'
  <2> SUFFICES ASSUME NEW p \in Requests, NEW q \in Requests, p # q,
                      cacheReq'[p].about = cacheReq'[q].about, cacheReq'[p].about # Nothing,
                      cacheReq'[p].about \notin raced'
               PROVE  FALSE
    BY Zenon DEF Alone
  <2>1. CASE p # r /\ q # r
    BY <2>1, <1>2, <1>5 DEF Alone
  <2>2. CASE p = r
    BY <2>2, <1>2, <1>3, <1>6, Zenon
  <2>3. CASE q = r
    BY <2>3, <1>2, <1>3, <1>6, Zenon
  <2> QED
    BY <2>1, <2>2, <2>3
<1> QED
  BY <1>2, <1>3, <1>4, <1>5, <1>6, <1>7, Zenon

----------------------------------------------------------------------------
\* The steps of the requests of a kind leave what is about the others.
LEMMA KeysKept ==
  ASSUME CachesInv, NEW r \in Requests, NEW x, x # Nothing, StepOf(r, x),
         \A k \in Keys : KeyOf(k) # x, UNCHANGED <<apiKeys, apiKeyCache>>
  PROVE  KeyInv'
  BY StepAlone, SubjectsDiffer DEF CachesInv, KeyInv, KeySound

\* The same for fees.
LEMMA FeesKept ==
  ASSUME CachesInv, NEW r \in Requests, NEW x, x # Nothing, StepOf(r, x),
         \A a \in Assets : FeesOf(a) # x, UNCHANGED <<userFees, defaultFees, userFeeCache>>
  PROVE  FeeInv'
  BY StepAlone, SubjectsDiffer DEF CachesInv, FeeInv, FeeSound, EffectiveFee

\* The same for limits.
LEMMA LimitsKept ==
  ASSUME CachesInv, NEW r \in Requests, NEW x, x # Nothing, StepOf(r, x),
         \A u \in Users : LimitOf(u) # x, UNCHANGED <<rateLimits, rateLimitCache>>
  PROVE  LimitInv'
  BY StepAlone, SubjectsDiffer DEF CachesInv, LimitInv, LimitSound


----------------------------------------------------------------------------
(* The steps about keys *)

\* A step about key k that changes nothing of the other keys keeps what is said
\* of them.
LEMMA OtherKeysKept ==
  ASSUME CachesInv, NEW r \in Requests, NEW k \in Keys, StepOf(r, KeyOf(k)),
         \A j \in Keys \ {k} : apiKeys'[j] = apiKeys[j] /\ apiKeyCache'[j] = apiKeyCache[j],
         KeyOf(k) \notin raced' => KeySound(k)'
  PROVE  KeyInv'
  BY StepAlone, SubjectsDiffer DEF CachesInv, KeyInv, KeySound

\* What steps about keys leave alone.
KeyFrame == UNCHANGED <<userFees, defaultFees, rateLimits, userFeeCache, rateLimitCache>>

\* The records written for a key are keys.
LEMMA KeyRecords ==
  /\ NewApiKey \in ApiKey
  /\ \A e \in ApiKey : e # None /\ Expired(e) \in ApiKey
                       /\ \A b \in BOOLEAN : Whitelisted(e, b) \in ApiKey
<1>1. None \notin ApiKey
  BY CachesAssumption
<1> QED
  BY <1>1 DEF NewApiKey, ApiKey, Expired, Whitelisted

\* A request about a key has its type.
LEMMA KeyRequest ==
  ASSUME NEW op \in {"load", "store", "added", "expired", "whitelisted"}, NEW k \in Keys,
         NEW v \in ApiKey \cup {None}
  PROVE  [op |-> op, about |-> KeyOf(k), user |-> None, val |-> v] \in Request
<1>1. KeyOf(k) \in {"key"} \X Keys
  BY DEF KeyOf
<1> QED
  BY <1>1, Zenon DEF Request

\* A request about a key starts, and changes the row at most.
KeyStart(r, k, op, v, row) ==
    /\ Starts(r, KeyOf(k)) /\ Goto(r, op, KeyOf(k), None, v)
    /\ apiKeys' = [apiKeys EXCEPT ![k] = row]
    /\ UNCHANGED apiKeyCache /\ KeyFrame

\* The start of a request about a key keeps what is said of keys.
LEMMA KeyStartKept ==
  ASSUME CachesInv, NEW r \in Requests, NEW k \in Keys,
         NEW op \in {"load", "added", "expired", "whitelisted"},
         NEW v \in ApiKey \cup {None}, NEW row \in ApiKey \cup {None},
         KeyStart(r, k, op, v, row),
         apiKeys[k] # None => row # None,
         op = "load" => row = apiKeys[k],
         op = "added" => v # None /\ row = v /\ apiKeys[k] = None,
         op = "expired" => \/ row = None
                           \/ apiKeys[k] # None /\ row = Expired(apiKeys[k])
  PROVE  StepOf(r, KeyOf(k)) /\ KeyFrame /\ CachesTypeOK' /\ KeyKnown' /\ KeyInv'
<1>1. StepOf(r, KeyOf(k)) /\ KeyFrame
  BY Zenon DEF StepOf, Goto, KeyStart
<1>2. CachesTypeOK
  BY DEF CachesInv
<1>3. /\ apiKeys' \in [Keys -> ApiKey \cup {None}] /\ apiKeyCache' = apiKeyCache
      /\ apiKeys'[k] = row /\ \A j \in Keys \ {k} : apiKeys'[j] = apiKeys[j]
  BY <1>2, Zenon DEF CachesTypeOK, KeyStart
<1>4. /\ cacheReq' \in [Requests -> Request]
      /\ cacheReq'[r] = [op |-> op, about |-> KeyOf(k), user |-> None, val |-> v]
      /\ \A q \in Requests \ {r} : cacheReq'[q] = cacheReq[q]
  BY <1>2, KeyRequest, Zenon DEF Goto, CachesTypeOK, KeyStart
<1>5. CachesTypeOK'
  BY <1>1, <1>2, <1>3, <1>4, Zenon DEF CachesTypeOK, KeyFrame
<1>6. KeyKnown'
  <2>1. \A j \in Keys : apiKeys[j] # None => apiKeys'[j] # None
    BY <1>3, Zenon
  <2>2. ASSUME NEW q \in Requests \ {r}, cacheReq'[q].op \in {"store", "added"}
        PROVE  cacheReq'[q].val # None /\ apiKeys'[cacheReq'[q].about[2]] # None
    BY <2>1, <2>2, <1>2, <1>4, RequestTypes DEF CachesInv, KeyKnown, Id
  <2>3. cacheReq'[r].op \in {"store", "added"} =>
          cacheReq'[r].val # None /\ apiKeys'[cacheReq'[r].about[2]] # None
    BY <1>3, <1>4, SubjectsDiffer
  <2> QED
    BY <2>1, <2>2, <2>3, <1>3, Zenon DEF KeyKnown, Id, CachesInv
<1>7. ASSUME KeyOf(k) \notin raced' PROVE KeySound(k)'
  <2>1. \A q \in Requests \ {r} : cacheReq[q].about # KeyOf(k) /\ cacheReq'[q].about # KeyOf(k)
    BY <1>1, <1>7, <1>4, StepAlone, SubjectsDiffer DEF CachesInv
  <2>2. apiKeyCache[k] \in {None, apiKeys[k]}
    <3>1. KeyOf(k) \notin raced
      BY <1>1, <1>7, StepAlone, SubjectsDiffer, Zenon DEF CachesInv
    <3>2. cacheReq[r].about # KeyOf(k)
      BY SubjectsDiffer DEF Starts, Idle, KeyStart
    <3> QED
      BY <3>1, <3>2, <2>1, Zenon DEF CachesInv, KeyInv, KeySound
  <2>3. \/ apiKeyCache'[k] \in {None, apiKeys'[k]}
        \/ \E q \in Requests : cacheReq'[q].about = KeyOf(k)
                               /\ cacheReq'[q].op \in {"expired", "whitelisted"}
    BY <2>2, <1>3, <1>4
  <2>4. ASSUME NEW q \in Requests, cacheReq'[q].about = KeyOf(k)
        PROVE  /\ cacheReq'[q].op \in {"store", "added"} => cacheReq'[q].val = apiKeys'[k]
               /\ cacheReq'[q].op = "expired" =>
                   \/ apiKeyCache'[k] = None
                   \/ apiKeys'[k] # None /\ apiKeys'[k] = Expired(apiKeyCache'[k])
    <3>1. q = r
      BY <2>1, <2>4, Zenon
    <3> QED
      BY <3>1, <2>2, <1>3, <1>4
  <2> QED
    BY <2>3, <2>4, Zenon DEF KeySound
<1>8. KeyInv'
  BY <1>1, <1>3, <1>7, OtherKeysKept, Zenon
<1> QED
  BY <1>1, <1>5, <1>6, <1>8, Zenon

\* Every handler of keys starts that way.
LEMMA KeyStarts ==
  ASSUME CachesInv, NEW r \in Requests, NEW k \in Keys,
         \/ Lookup(r, k) \/ AddKey(r, k) \/ ExpireKey(r, k)
         \/ \E b \in BOOLEAN : SetWhitelist(r, k, b)
  PROVE  StepOf(r, KeyOf(k)) /\ KeyFrame /\ CachesTypeOK' /\ KeyKnown' /\ KeyInv'
<1>1. apiKeys \in [Keys -> ApiKey \cup {None}]
  BY Zenon DEF CachesInv, CachesTypeOK
<1>2. apiKeys = [apiKeys EXCEPT ![k] = apiKeys[k]]
  BY <1>1
<1>3. CASE Lookup(r, k)
  <2>1. KeyStart(r, k, "load", None, apiKeys[k])
    BY <1>2, <1>3, Zenon DEF Lookup, KeyStart, KeyFrame, db, cache
  <2> QED
    BY <2>1, <1>1, KeyStartKept, Zenon
<1>4. CASE AddKey(r, k)
  <2>1. KeyStart(r, k, "added", NewApiKey, NewApiKey)
    BY <1>4, Zenon DEF AddKey, KeyStart, KeyFrame, cache
  <2> QED
    BY <2>1, <1>4, KeyRecords, KeyStartKept, Zenon DEF AddKey
<1>5. CASE ExpireKey(r, k) /\ apiKeys[k] = None
  <2>1. KeyStart(r, k, "expired", None, None)
    BY <1>2, <1>5, Zenon DEF ExpireKey, KeyStart, KeyFrame, cache
  <2> QED
    BY <2>1, <1>5, KeyStartKept, Zenon
<1>6. CASE ExpireKey(r, k) /\ apiKeys[k] # None
  <2>1. KeyStart(r, k, "expired", None, Expired(apiKeys[k]))
    BY <1>6, Zenon DEF ExpireKey, KeyStart, KeyFrame, cache
  <2> QED
    BY <2>1, <1>1, <1>6, KeyRecords, KeyStartKept, Zenon
<1>7. ASSUME NEW b \in BOOLEAN, SetWhitelist(r, k, b)
      PROVE  StepOf(r, KeyOf(k)) /\ KeyFrame /\ CachesTypeOK' /\ KeyKnown' /\ KeyInv'
  <2>1. KeyStart(r, k, "whitelisted", None, Whitelisted(apiKeys[k], b))
    BY <1>7, Zenon DEF SetWhitelist, KeyStart, KeyFrame, cache
  <2>2. apiKeys[k] \in ApiKey
    BY <1>1, <1>7, Zenon DEF SetWhitelist
  <2> QED
    BY <2>1, <2>2, KeyRecords, KeyStartKept, Zenon
<1> QED
  BY <1>3, <1>4, <1>5, <1>6, <1>7, Zenon

\* A request about a key goes on, and changes the cached entry at most.
KeyStep(r, k, n, entry) ==
    /\ cacheReq[r].about = KeyOf(k) /\ UNCHANGED raced
    /\ cacheReq' = [cacheReq EXCEPT ![r] = n]
    /\ apiKeyCache' = [apiKeyCache EXCEPT ![k] = entry]
    /\ UNCHANGED apiKeys /\ KeyFrame

\* A later step of a request about a key keeps what is said of keys.
LEMMA KeyStepKept ==
  ASSUME CachesInv, NEW r \in Requests, NEW k \in Keys, NEW n, NEW entry \in ApiKey \cup {None},
         KeyStep(r, k, n, entry),
         \/ n = Idle
         \/ /\ n = [op |-> "store", about |-> KeyOf(k), user |-> None, val |-> apiKeys[k]]
            /\ apiKeys[k] # None,
         entry # None => apiKeys[k] # None,
         KeyOf(k) \notin raced => entry \in {None, apiKeys[k]}
  PROVE  StepOf(r, KeyOf(k)) /\ KeyFrame /\ CachesTypeOK' /\ KeyKnown' /\ KeyInv'
<1>1. StepOf(r, KeyOf(k)) /\ KeyFrame
  BY Zenon DEF StepOf, KeyStep
<1>2. CachesTypeOK
  BY Zenon DEF CachesInv
<1>3. /\ apiKeyCache' \in [Keys -> ApiKey \cup {None}] /\ apiKeys' = apiKeys
      /\ apiKeyCache'[k] = entry /\ \A j \in Keys \ {k} : apiKeyCache'[j] = apiKeyCache[j]
  BY <1>2, Zenon DEF CachesTypeOK, KeyStep
<1>4. n \in Request
  <2>1. Idle \in Request
    BY Zenon DEF Request
  <2>2. apiKeys[k] \in ApiKey \cup {None}
    BY <1>2, Zenon DEF CachesTypeOK
  <2> QED
    BY <2>1, <2>2, KeyRequest, Zenon
<1>5. /\ cacheReq' \in [Requests -> Request] /\ cacheReq'[r] = n
      /\ \A q \in Requests \ {r} : cacheReq'[q] = cacheReq[q]
  BY <1>2, <1>4, Zenon DEF CachesTypeOK, KeyStep
<1>6. CachesTypeOK'
  BY <1>1, <1>2, <1>3, <1>5, Zenon DEF CachesTypeOK, KeyFrame
<1>7. KeyKnown'
  <2>1. \A j \in Keys : apiKeyCache'[j] # None => apiKeys'[j] # None
    BY <1>3, Zenon DEF CachesInv, KeyKnown
  <2>2. ASSUME NEW q \in Requests \ {r}, cacheReq'[q].op \in {"store", "added"}
        PROVE  cacheReq'[q].val # None /\ apiKeys'[cacheReq'[q].about[2]] # None
    BY <2>2, <1>3, <1>5, Zenon DEF CachesInv, KeyKnown, Id
  <2>3. cacheReq'[r].op \in {"store", "added"} =>
          cacheReq'[r].val # None /\ apiKeys'[cacheReq'[r].about[2]] # None
    BY <1>3, <1>5, SubjectsDiffer DEF Idle
  <2> QED
    BY <2>1, <2>2, <2>3, Zenon DEF KeyKnown, Id
<1>8. ASSUME KeyOf(k) \notin raced' PROVE KeySound(k)'
  <2>1. \A q \in Requests \ {r} : cacheReq'[q].about # KeyOf(k)
    BY <1>1, <1>8, <1>5, StepAlone, SubjectsDiffer DEF CachesInv
  <2>2. apiKeyCache'[k] \in {None, apiKeys'[k]}
    BY <1>3, <1>8, Zenon DEF KeyStep
  <2>3. ASSUME NEW q \in Requests, cacheReq'[q].about = KeyOf(k)
        PROVE  /\ cacheReq'[q].op \in {"store", "added"} => cacheReq'[q].val = apiKeys'[k]
               /\ cacheReq'[q].op # "expired"
    <3>1. q = r
      BY <2>1, <2>3, Zenon
    <3> QED
      BY <3>1, <2>3, <1>3, <1>5, SubjectsDiffer DEF Idle
  <2> QED
    BY <2>2, <2>3, Zenon DEF KeySound
<1>9. KeyInv'
  BY <1>1, <1>3, <1>8, OtherKeysKept, Zenon
<1> QED
  BY <1>1, <1>6, <1>7, <1>9, Zenon

\* A request that has nothing to settle finds the entry current.
LEMMA KeyEntry ==
  ASSUME CachesInv, NEW r \in Requests, NEW k \in Keys, cacheReq[r].about = KeyOf(k),
         KeyOf(k) \notin raced
  PROVE  /\ cacheReq[r].op \notin {"expired", "whitelisted"} => apiKeyCache[k] \in {None, apiKeys[k]}
         /\ cacheReq[r].op \in {"store", "added"} => cacheReq[r].val = apiKeys[k]
         /\ cacheReq[r].op = "expired" /\ apiKeyCache[k] # None =>
              apiKeys[k] # None /\ apiKeys[k] = Expired(apiKeyCache[k])
<1>1. \A q \in Requests : cacheReq[q].about = KeyOf(k) => q = r
  BY SubjectsDiffer DEF CachesInv, Alone
<1> QED
  BY <1>1, Zenon DEF CachesInv, KeyInv, KeySound

\* Every later step of a handler of keys is such a step.
LEMMA KeySteps ==
  ASSUME CachesInv, NEW r \in Requests,
         \/ Load(r) \/ Store(r) \/ LoadFails(r)
         \/ AddKeyCaches(r) \/ ExpireKeyMarks(r) \/ SetWhitelistClears(r)
  PROVE  /\ Id(r) \in Keys
         /\ StepOf(r, KeyOf(Id(r))) /\ KeyFrame /\ CachesTypeOK' /\ KeyKnown' /\ KeyInv'
<1> DEFINE k == Id(r)
<1>1. k \in Keys /\ cacheReq[r].about = KeyOf(k) /\ cacheReq[r].val \in ApiKey \cup {None}
  BY RequestTypes, Zenon DEF CachesInv, Load, Store, LoadFails, AddKeyCaches, ExpireKeyMarks,
     SetWhitelistClears, Continues
<1>2. apiKeyCache \in [Keys -> ApiKey \cup {None}] /\ apiKeys \in [Keys -> ApiKey \cup {None}]
  BY Zenon DEF CachesInv, CachesTypeOK
<1>3. apiKeyCache = [apiKeyCache EXCEPT ![k] = apiKeyCache[k]]
  BY <1>1, <1>2, Zenon
<1>4. apiKeyCache[k] # None => apiKeys[k] # None
  BY <1>1, Zenon DEF CachesInv, KeyKnown
<1> HIDE DEF k
<1>5. CASE Load(r) \/ LoadFails(r)
  <2>1. cacheReq[r].op = "load"
    BY <1>5, Zenon DEF Load, LoadFails, Continues
  <2>2. PICK n : /\ KeyStep(r, k, n, apiKeyCache[k])
                 /\ \/ n = Idle
                    \/ /\ n = [op |-> "store", about |-> KeyOf(k), user |-> None, val |-> apiKeys[k]]
                       /\ apiKeys[k] # None
    BY <1>1, <1>3, <1>5, Zenon DEF Load, LoadFails, Continues, KeyStep, KeyFrame, Ends, Goto, db, cache, k
  <2>3. KeyOf(k) \notin raced => apiKeyCache[k] \in {None, apiKeys[k]}
    BY <1>1, <2>1, KeyEntry, Zenon
  <2> QED
    BY <2>2, <2>3, <1>1, <1>2, <1>4, KeyStepKept, Zenon DEF k
<1>6. CASE Store(r) \/ AddKeyCaches(r)
  <2>1. cacheReq[r].op \in {"store", "added"}
    BY <1>6, Zenon DEF Store, AddKeyCaches, Continues
  <2>2. KeyStep(r, k, Idle, cacheReq[r].val)
    BY <1>1, <1>6, Zenon DEF Store, AddKeyCaches, Continues, KeyStep, KeyFrame, Ends, CacheApiKey, db, k
  <2>3. KeyOf(k) \notin raced => cacheReq[r].val \in {None, apiKeys[k]}
    BY <1>1, <2>1, KeyEntry, Zenon
  <2>4. apiKeys[k] # None
    BY <2>1, Zenon DEF CachesInv, KeyKnown, k
  <2> QED
    BY <2>2, <2>3, <2>4, <1>1, KeyStepKept, Zenon DEF k
<1>7. CASE ExpireKeyMarks(r) /\ apiKeyCache[k] = None
  <2>1. KeyStep(r, k, Idle, None)
    BY <1>1, <1>3, <1>7, Zenon DEF ExpireKeyMarks, Continues, KeyStep, KeyFrame, Ends, MarkKeyExpired, db, k
  <2> QED
    BY <2>1, <1>1, KeyStepKept, Zenon DEF k
<1>8. CASE ExpireKeyMarks(r) /\ apiKeyCache[k] # None
  <2>1. KeyStep(r, k, Idle, Expired(apiKeyCache[k]))
    BY <1>1, <1>8, Zenon DEF ExpireKeyMarks, Continues, KeyStep, KeyFrame, Ends, MarkKeyExpired, db, k
  <2>2. Expired(apiKeyCache[k]) \in ApiKey
    BY <1>1, <1>2, <1>8, KeyRecords, Zenon
  <2>3. KeyOf(k) \notin raced => apiKeys[k] = Expired(apiKeyCache[k])
    BY <1>1, <1>8, KeyEntry, Zenon DEF ExpireKeyMarks, Continues
  <2> QED
    BY <2>1, <2>2, <2>3, <1>1, <1>4, <1>8, KeyStepKept, Zenon DEF k
<1>9. CASE SetWhitelistClears(r)
  <2>1. KeyStep(r, k, Idle, None)
    BY <1>1, <1>9, Zenon DEF SetWhitelistClears, Continues, KeyStep, KeyFrame, Ends, ClearKey, db, k
  <2> QED
    BY <2>1, <1>1, KeyStepKept, Zenon DEF k
<1> QED
  BY <1>5, <1>6, <1>7, <1>8, <1>9, Zenon

\* Every step of a request about a key keeps the invariant.
LEMMA KeyNextKept == CachesInv /\ KeyNext => CachesInv'
<1> SUFFICES ASSUME CachesInv, KeyNext PROVE CachesInv'
  OBVIOUS
<1>1. \E r \in Requests, k \in Keys :
         StepOf(r, KeyOf(k)) /\ KeyFrame /\ CachesTypeOK' /\ KeyKnown' /\ KeyInv'
  BY KeyStarts, KeySteps, Zenon DEF KeyNext
<1>2. PICK r \in Requests, k \in Keys :
         StepOf(r, KeyOf(k)) /\ KeyFrame /\ CachesTypeOK' /\ KeyKnown' /\ KeyInv'
  BY <1>1
<1>3. Alone' /\ FeeInv' /\ LimitInv'
  BY <1>2, StepAlone, FeesKept, LimitsKept, SubjectsDiffer DEF CachesInv, KeyFrame
<1> QED
  BY <1>2, <1>3 DEF CachesInv


----------------------------------------------------------------------------
(* The steps about fees *)

\* An update of one entry of a table by user and asset.
LEMMA TableUpdate ==
  ASSUME NEW S, NEW f \in [Users -> [Assets -> S]], NEW u \in Users, NEW a \in Assets, NEW v \in S,
         NEW g, g = [f EXCEPT ![u][a] = v]
  PROVE  /\ g \in [Users -> [Assets -> S]]
         /\ g[u][a] = v
         /\ \A w \in Users, b \in Assets : w # u \/ b # a => g[w][b] = f[w][b]
  OBVIOUS

\* What get_user_fee resolves to is a fee.
LEMMA EffectiveIsFee ==
  ASSUME CachesTypeOK, NEW u \in Users, NEW a \in Assets
  PROVE  EffectiveFee(u, a) \in Fees
<1>1. userFees[u][a] \in Fees \cup {None} /\ defaultFees[a] \in Fees \cup {None}
  BY DEF CachesTypeOK
<1> QED
  BY <1>1, CachesAssumption, Zenon DEF EffectiveFee

\* Fees that did not change resolve as before.
LEMMA EffectiveKept ==
  ASSUME NEW u, NEW a, userFees'[u][a] = userFees[u][a], defaultFees'[a] = defaultFees[a]
  PROVE  EffectiveFee(u, a)' = EffectiveFee(u, a)
  BY DEF EffectiveFee

\* An override is what the fee resolves to.
LEMMA EffectiveOverride ==
  ASSUME NEW u, NEW a, userFees[u][a] \in Fees
  PROVE  EffectiveFee(u, a) = userFees[u][a]
  BY CachesAssumption, Zenon DEF EffectiveFee

\* A request about fees has its type.
LEMMA FeeRequest ==
  ASSUME NEW a \in Assets, NEW v \in Fees \cup {None}
  PROVE  /\ \A op \in {"feeLoad", "removeFee"}, u \in Users :
               [op |-> op, about |-> FeesOf(a), user |-> u, val |-> None] \in Request
         /\ \A op \in {"feeStore", "feeSet"}, u \in Users : v \in Fees =>
               [op |-> op, about |-> FeesOf(a), user |-> u, val |-> v] \in Request
         /\ \A op \in {"defaultSet", "removeDefault"} :
               [op |-> op, about |-> FeesOf(a), user |-> None, val |-> v] \in Request
         /\ Idle \in Request
<1>1. FeesOf(a) \in {"fees"} \X Assets
  BY DEF FeesOf
<1> QED
  BY <1>1, Zenon DEF Request

FeeFrame == UNCHANGED <<apiKeys, rateLimits, apiKeyCache, rateLimitCache>>

FeeCurrent(u, a) == userFeeCache[u][a] \in {NotCached, EffectiveFee(u, a)}

\* What FeeSound says of the one request n about asset a.
FeeSoundFor(a, n) ==
    /\ n.op = "feeStore" => n.val = EffectiveFee(n.user, a)
    /\ n.op = "feeSet" => n.val \in Fees /\ n.val = userFees[n.user][a]
    /\ n.op = "removeFee" => userFeeCache[n.user][a] = NotCached
    /\ n.op = "removeDefault" => \A u \in Users : userFeeCache[u][a] = NotCached

\* A step about the fees of an asset leaves those of the others, and the only
\* request about the asset is the one that takes the step.
FeeStep(r, a, n) ==
    /\ Starts(r, FeesOf(a)) \/ (cacheReq[r].about = FeesOf(a) /\ UNCHANGED raced)
    /\ n \in Request /\ (n = Idle \/ n.about = FeesOf(a))
    /\ n.op \notin {"store", "added"}
    /\ cacheReq' = [cacheReq EXCEPT ![r] = n]
    /\ userFees' \in [Users -> [Assets -> Fees \cup {None}]]
    /\ defaultFees' \in [Assets -> Fees \cup {None}]
    /\ userFeeCache' \in [Users -> [Assets -> Fees \cup {NotCached}]]
    /\ \A b \in Assets \ {a} :
          /\ defaultFees'[b] = defaultFees[b]
          /\ \A u \in Users : userFees'[u][b] = userFees[u][b]
                              /\ userFeeCache'[u][b] = userFeeCache[u][b]
    /\ FeeFrame

\* A step about the fees of one asset keeps the invariant.
LEMMA FeeStepKept ==
  ASSUME CachesInv, NEW r \in Requests, NEW a \in Assets, NEW n, FeeStep(r, a, n),
         FeesOf(a) \notin raced' =>
            /\ n # Idle => FeeSoundFor(a, n)'
            /\ \A u \in Users :
                  \/ FeeCurrent(u, a)'
                  \/ n # Idle /\ (n.op = "defaultSet" \/ (n.op = "feeSet" /\ n.user = u))
  PROVE  CachesInv'
<1>1. StepOf(r, FeesOf(a)) /\ FeeFrame
  BY Zenon DEF StepOf, FeeStep
<1>2. CachesTypeOK
  BY DEF CachesInv
<1>3. /\ cacheReq' \in [Requests -> Request] /\ cacheReq'[r] = n
      /\ \A q \in Requests \ {r} : cacheReq'[q] = cacheReq[q]
  BY <1>2, Zenon DEF CachesTypeOK, FeeStep
<1>4. CachesTypeOK'
  BY <1>2, <1>3, Zenon DEF CachesTypeOK, FeeStep, FeeFrame
<1>5. KeyKnown'
  <2>1. cacheReq'[r].op \notin {"store", "added"}
    BY <1>3, Zenon DEF FeeStep
  <2> QED
    BY <2>1, <1>1, <1>3 DEF KeyKnown, Id, CachesInv, FeeFrame
<1>6. ASSUME FeesOf(a) \notin raced' PROVE FeeSound(a)'
  <2>1. \A q \in Requests : cacheReq'[q].about = FeesOf(a) => q = r /\ n # Idle
    <3>1. FeesOf(a) # Nothing /\ Idle.about = Nothing
      BY SubjectsDiffer DEF Idle
    <3>2. \A q \in Requests \ {r} : cacheReq[q].about # FeesOf(a)
      BY <1>1, <1>6, <3>1, StepAlone DEF CachesInv
    <3> QED
      BY <1>3, <3>1, <3>2, Zenon
  <2>2. \A q \in Requests : cacheReq'[q].about = FeesOf(a) => FeeSoundFor(a, cacheReq[q])'
    BY <2>1, <1>3, <1>6, Zenon DEF FeeSoundFor
  <2>3. ASSUME NEW u \in Users, ~FeeCurrent(u, a)'
        PROVE  \E q \in Requests : /\ cacheReq'[q].about = FeesOf(a)
                                   /\ \/ cacheReq'[q].op = "defaultSet"
                                      \/ cacheReq'[q].op = "feeSet" /\ cacheReq'[q].user = u
    BY <2>3, <1>3, <1>6 DEF FeeStep
  <2> QED
    BY <2>2, <2>3, Zenon DEF FeeSound, FeeSoundFor, FeeCurrent
<1>7. ASSUME NEW b \in Assets \ {a}, FeesOf(b) \notin raced' PROVE FeeSound(b)'
  <2>1. FeesOf(b) \notin raced
    BY <1>1, <1>7, StepAlone, SubjectsDiffer, Zenon DEF CachesInv
  <2>2. FeeSound(b)
    BY <2>1 DEF CachesInv, FeeInv
  <2>3. \A q \in Requests : (cacheReq[q].about = FeesOf(b) \/ cacheReq'[q].about = FeesOf(b))
                            => cacheReq'[q] = cacheReq[q]
    BY <1>1, <1>7, StepAlone, SubjectsDiffer DEF CachesInv
  <2>4. \A u \in Users : /\ EffectiveFee(u, b)' = EffectiveFee(u, b)
                         /\ userFees'[u][b] = userFees[u][b]
                         /\ userFeeCache'[u][b] = userFeeCache[u][b]
    BY EffectiveKept DEF FeeStep
  <2>5. \A q \in Requests : cacheReq[q].about = FeesOf(b)
           /\ cacheReq[q].op \in {"feeStore", "feeSet", "removeFee"} => cacheReq[q].user \in Users
    BY <1>2, RequestTypes, Zenon
  <2> QED
    BY <2>2, <2>3, <2>4, <2>5 DEF FeeSound
<1>8. /\ FeesOf(a) # Nothing
      /\ \A k \in Keys : KeyOf(k) # FeesOf(a)
      /\ \A u \in Users : LimitOf(u) # FeesOf(a)
  BY SubjectsDiffer
<1>9. Alone'
  BY <1>1, <1>8, StepAlone, Zenon DEF CachesInv
<1>10. KeyInv'
  BY <1>1, <1>8, KeysKept, Zenon DEF FeeFrame
<1>11. LimitInv'
  BY <1>1, <1>8, LimitsKept, Zenon DEF FeeFrame
<1> QED
  BY <1>4, <1>5, <1>6, <1>7, <1>9, <1>10, <1>11, Zenon DEF CachesInv, FeeInv

\* A request that starts finds every entry of the asset current.
LEMMA FeeStartCurrent ==
  ASSUME CachesInv, NEW r \in Requests, NEW a \in Assets, Starts(r, FeesOf(a)),
         FeesOf(a) \notin raced'
  PROVE  \A u \in Users : FeeCurrent(u, a)
<1>1. FeesOf(a) \notin raced /\ \A q \in Requests : cacheReq[q].about # FeesOf(a)
  BY DEF Starts
<1> QED
  BY <1>1, Zenon DEF CachesInv, FeeInv, FeeSound, FeeCurrent

\* A request that goes on is the only one about its asset.
LEMMA FeeEntry ==
  ASSUME CachesInv, NEW r \in Requests, NEW a \in Assets, cacheReq[r].about = FeesOf(a),
         FeesOf(a) \notin raced
  PROVE  /\ FeeSoundFor(a, cacheReq[r])
         /\ \A u \in Users :
               FeeCurrent(u, a) \/ cacheReq[r].op = "defaultSet"
               \/ (cacheReq[r].op = "feeSet" /\ cacheReq[r].user = u)
<1>1. \A q \in Requests : cacheReq[q].about = FeesOf(a) => q = r
  BY SubjectsDiffer DEF CachesInv, Alone
<1>2. FeeSound(a)
  BY DEF CachesInv, FeeInv
<1> QED
  BY <1>1, <1>2, Zenon DEF FeeSound, FeeSoundFor, FeeCurrent

\* Clearing the entries of an asset, for every user.
LEMMA AssetCleared ==
  ASSUME CachesTypeOK, NEW a \in Assets, ClearAssetEntries(a)
  PROVE  /\ userFeeCache' \in [Users -> [Assets -> Fees \cup {NotCached}]]
         /\ \A u \in Users : userFeeCache'[u][a] = NotCached
         /\ \A u \in Users, b \in Assets \ {a} : userFeeCache'[u][b] = userFeeCache[u][b]
  BY DEF CachesTypeOK, ClearAssetEntries

\* The handlers of overrides and get_user_fee start with such a step.
LEMMA FeeStarts ==
  ASSUME CachesInv, NEW r \in Requests, NEW a \in Assets, NEW u \in Users, NEW f \in Fees,
         FeeMiss(r, u, a) \/ RemoveUserFee(r, u, a) \/ SetUserFee(r, u, a, f)
  PROVE  CachesInv'
<1>1. CachesTypeOK /\ Starts(r, FeesOf(a))
  BY Zenon DEF CachesInv, FeeMiss, RemoveUserFee, SetUserFee
<1>2. CASE FeeMiss(r, u, a)
  <2> DEFINE n == [op |-> "feeLoad", about |-> FeesOf(a), user |-> u, val |-> None]
  <2>1. n \in Request
    BY FeeRequest, Zenon
  <2>2. FeeStep(r, a, n)
    BY <1>1, <1>2, <2>1, Zenon DEF FeeMiss, FeeStep, FeeFrame, Goto, CachesTypeOK, db, cache
  <2>3. ASSUME FeesOf(a) \notin raced' PROVE \A w \in Users : FeeCurrent(w, a)'
    <3>1. \A w \in Users : EffectiveFee(w, a)' = EffectiveFee(w, a)
      BY <1>2, EffectiveKept, Zenon DEF FeeMiss, db
    <3> QED
      BY <3>1, <2>3, <1>1, <1>2, FeeStartCurrent, Zenon DEF FeeMiss, FeeCurrent, cache
  <2>4. FeeSoundFor(a, n)'
    BY Zenon DEF FeeSoundFor
  <2> QED
    BY <2>2, <2>3, <2>4, FeeStepKept, Zenon
<1>3. CASE RemoveUserFee(r, u, a)
  <2> DEFINE n == [op |-> "removeFee", about |-> FeesOf(a), user |-> u, val |-> None]
  <2>1. n \in Request
    BY FeeRequest, Zenon
  <2>2. /\ userFeeCache' \in [Users -> [Assets -> Fees \cup {NotCached}]]
        /\ userFeeCache'[u][a] = NotCached
        /\ \A w \in Users, b \in Assets : w # u \/ b # a => userFeeCache'[w][b] = userFeeCache[w][b]
    BY <1>1, <1>3, TableUpdate DEF RemoveUserFee, ClearUserFee, CachesTypeOK
  <2>3. FeeStep(r, a, n)
    BY <1>1, <1>3, <2>1, <2>2, Zenon DEF RemoveUserFee, FeeStep, FeeFrame, Goto, CachesTypeOK, db
  <2>4. ASSUME FeesOf(a) \notin raced' PROVE \A w \in Users : FeeCurrent(w, a)'
    <3>1. \A w \in Users : EffectiveFee(w, a)' = EffectiveFee(w, a)
      BY <1>3, EffectiveKept, Zenon DEF RemoveUserFee, db
    <3> QED
      BY <3>1, <2>2, <2>4, <1>1, FeeStartCurrent DEF FeeCurrent
  <2>5. FeeSoundFor(a, n)'
    BY <2>2, Zenon DEF FeeSoundFor
  <2> QED
    BY <2>3, <2>4, <2>5, FeeStepKept, Zenon
<1>4. CASE SetUserFee(r, u, a, f)
  <2> DEFINE n == [op |-> "feeSet", about |-> FeesOf(a), user |-> u, val |-> f]
  <2>1. n \in Request
    BY FeeRequest, Zenon
  <2>2. /\ userFees' \in [Users -> [Assets -> Fees \cup {None}]]
        /\ userFees'[u][a] = f
        /\ \A w \in Users, b \in Assets : w # u \/ b # a => userFees'[w][b] = userFees[w][b]
    BY <1>1, <1>4, TableUpdate DEF SetUserFee, CachesTypeOK
  <2>3. FeeStep(r, a, n)
    BY <1>1, <1>4, <2>1, <2>2, Zenon DEF SetUserFee, FeeStep, FeeFrame, Goto, CachesTypeOK, cache
  <2>4. ASSUME FeesOf(a) \notin raced', NEW w \in Users \ {u} PROVE FeeCurrent(w, a)'
    <3>1. EffectiveFee(w, a)' = EffectiveFee(w, a)
      BY <1>4, <2>2, EffectiveKept, Zenon DEF SetUserFee
    <3> QED
      BY <3>1, <2>4, <1>1, <1>4, FeeStartCurrent, Zenon DEF FeeCurrent, SetUserFee, cache
  <2>5. FeeSoundFor(a, n)' /\ n # Idle
    BY <2>2, Zenon DEF FeeSoundFor, Idle
  <2> QED
    BY <2>3, <2>4, <2>5, FeeStepKept, Zenon
<1> QED
  BY <1>2, <1>3, <1>4

\* So do the handlers of defaults.
LEMMA DefaultStarts ==
  ASSUME CachesInv, NEW r \in Requests, NEW a \in Assets, NEW f \in Fees,
         RemoveDefaultFee(r, a) \/ SetDefaultFee(r, a, f)
  PROVE  CachesInv'
<1>1. CachesTypeOK /\ Starts(r, FeesOf(a))
  BY Zenon DEF CachesInv, RemoveDefaultFee, SetDefaultFee
<1>2. CASE RemoveDefaultFee(r, a)
  <2> DEFINE n == [op |-> "removeDefault", about |-> FeesOf(a), user |-> None, val |-> None]
  <2>1. n \in Request
    BY FeeRequest, Zenon
  <2>2. FeeStep(r, a, n)
    BY <1>1, <1>2, <2>1, AssetCleared
       DEF RemoveDefaultFee, FeeStep, FeeFrame, Goto, CachesTypeOK, db
  <2>3. FeeSoundFor(a, n)' /\ \A w \in Users : FeeCurrent(w, a)'
    BY <1>1, <1>2, AssetCleared, Zenon DEF RemoveDefaultFee, FeeSoundFor, FeeCurrent
  <2> QED
    BY <2>2, <2>3, FeeStepKept, Zenon
<1>3. CASE SetDefaultFee(r, a, f)
  <2> DEFINE n == [op |-> "defaultSet", about |-> FeesOf(a), user |-> None, val |-> f]
  <2>1. n \in Request
    BY FeeRequest, Zenon
  <2>2. FeeStep(r, a, n)
    BY <1>1, <1>3, <2>1, Zenon DEF SetDefaultFee, FeeStep, FeeFrame, Goto, CachesTypeOK, cache
  <2>3. FeeSoundFor(a, n)' /\ n # Idle
    BY Zenon DEF FeeSoundFor, Idle
  <2> QED
    BY <2>2, <2>3, FeeStepKept, Zenon
<1> QED
  BY <1>2, <1>3

\* Caching a loaded or a set fee is such a step.
LEMMA FeeSteps ==
  ASSUME CachesInv, NEW r \in Requests, FeeLoad(r) \/ FeeStore(r) \/ SetUserFeeCaches(r)
  PROVE  CachesInv'
<1>1. PICK a \in Assets, u \in Users :
         /\ CachesTypeOK /\ UNCHANGED raced
         /\ a = Id(r) /\ u = cacheReq[r].user /\ cacheReq[r].about = FeesOf(a)
  BY RequestTypes, Zenon DEF CachesInv, FeeLoad, FeeStore, SetUserFeeCaches, Continues
<1>2. CASE FeeLoad(r)
  <2>0. PICK v \in Fees : v = EffectiveFee(u, a)
    BY <1>1, EffectiveIsFee
  <2> DEFINE n == [op |-> "feeStore", about |-> FeesOf(a), user |-> u, val |-> v]
  <2>1. n \in Request
    BY FeeRequest, Zenon
  <2>2. FeeStep(r, a, n)
    BY <1>1, <1>2, <2>0, <2>1, Zenon DEF FeeLoad, FeeStep, FeeFrame, Goto, CachesTypeOK, db, cache
  <2>3. \A w \in Users : EffectiveFee(w, a)' = EffectiveFee(w, a)
    BY <1>2, EffectiveKept, Zenon DEF FeeLoad, db
  <2>4. FeeSoundFor(a, n)'
    BY <2>0, <2>3, Zenon DEF FeeSoundFor
  <2>5. ASSUME FeesOf(a) \notin raced' PROVE \A w \in Users : FeeCurrent(w, a)'
    BY <2>3, <2>5, <1>1, <1>2, FeeEntry DEF FeeLoad, Continues, FeeCurrent, cache
  <2> QED
    BY <2>2, <2>4, <2>5, <1>1, FeeStepKept, Zenon
<1>3. CASE FeeStore(r) \/ SetUserFeeCaches(r)
  <2>0. PICK v \in Fees : v = cacheReq[r].val
    BY <1>1, <1>3, RequestTypes, Zenon DEF FeeStore, SetUserFeeCaches, Continues
  <2>1. /\ userFeeCache' \in [Users -> [Assets -> Fees \cup {NotCached}]]
        /\ userFeeCache'[u][a] = v
        /\ \A w \in Users, b \in Assets : w # u \/ b # a => userFeeCache'[w][b] = userFeeCache[w][b]
    <3>1. userFeeCache' = [userFeeCache EXCEPT ![u][a] = v]
      BY <1>1, <1>3, <2>0, Zenon DEF FeeStore, SetUserFeeCaches, CacheUserFee
    <3> QED
      BY <3>1, <1>1, TableUpdate DEF CachesTypeOK
  <2>2. FeeStep(r, a, Idle)
    <3>1. Idle \in Request /\ Idle.op \notin {"store", "added"}
      BY FeeRequest DEF Idle
    <3> QED
      BY <1>1, <1>3, <2>1, <3>1, Zenon
         DEF FeeStore, SetUserFeeCaches, FeeStep, FeeFrame, Ends, CachesTypeOK, db
  <2>3. \A w \in Users : EffectiveFee(w, a)' = EffectiveFee(w, a)
    BY <1>3, EffectiveKept, Zenon DEF FeeStore, SetUserFeeCaches, db
  <2>4. ASSUME FeesOf(a) \notin raced' PROVE v = EffectiveFee(u, a)
    BY <2>0, <2>4, <1>1, <1>3, FeeEntry, EffectiveOverride
       DEF FeeStore, SetUserFeeCaches, Continues, FeeSoundFor
  <2>5. ASSUME FeesOf(a) \notin raced', NEW w \in Users \ {u} PROVE FeeCurrent(w, a)
    BY <2>5, <1>1, <1>3, FeeEntry, Zenon DEF FeeStore, SetUserFeeCaches, Continues
  <2> QED
    BY <2>1, <2>2, <2>3, <2>4, <2>5, <1>1, FeeStepKept DEF FeeCurrent
<1> QED
  BY <1>2, <1>3

\* So are the last steps of the others.
LEMMA FeeEnds ==
  ASSUME CachesInv, NEW r \in Requests,
         \/ FeeFails(r) \/ SetDefaultFeeClears(r) \/ RemoveUserFeeDeletes(r)
         \/ RemoveDefaultFeeDeletes(r)
  PROVE  CachesInv'
<1>1. PICK a \in Assets :
         CachesTypeOK /\ UNCHANGED raced /\ a = Id(r) /\ cacheReq[r].about = FeesOf(a)
  BY RequestTypes, Zenon DEF CachesInv, FeeFails, SetDefaultFeeClears, RemoveUserFeeDeletes,
     RemoveDefaultFeeDeletes, Continues
<1>2. Idle \in Request /\ Idle.op \notin {"store", "added"}
  BY Zenon DEF Request, Idle
<1>3. CASE FeeFails(r)
  <2>1. FeeStep(r, a, Idle)
    BY <1>1, <1>2, <1>3, Zenon DEF FeeFails, FeeStep, FeeFrame, Ends, CachesTypeOK, db, cache
  <2>2. \A w \in Users : EffectiveFee(w, a)' = EffectiveFee(w, a)
    BY <1>3, EffectiveKept, Zenon DEF FeeFails, db
  <2>3. ASSUME FeesOf(a) \notin raced' PROVE \A w \in Users : FeeCurrent(w, a)'
    BY <2>2, <2>3, <1>1, <1>3, FeeEntry DEF FeeFails, Continues, FeeCurrent, cache
  <2> QED
    BY <2>1, <2>3, FeeStepKept
<1>4. CASE SetDefaultFeeClears(r)
  <2>1. FeeStep(r, a, Idle)
    BY <1>1, <1>2, <1>4, AssetCleared
       DEF SetDefaultFeeClears, FeeStep, FeeFrame, Ends, CachesTypeOK, db
  <2>2. \A w \in Users : FeeCurrent(w, a)'
    BY <1>1, <1>4, AssetCleared, Zenon DEF SetDefaultFeeClears, FeeCurrent
  <2> QED
    BY <2>1, <2>2, FeeStepKept
<1>5. CASE RemoveUserFeeDeletes(r)
  <2>1. PICK u \in Users : u = cacheReq[r].user
    BY <1>1, <1>5, RequestTypes, Zenon DEF RemoveUserFeeDeletes, Continues
  <2>2. /\ userFees' \in [Users -> [Assets -> Fees \cup {None}]]
        /\ \A w \in Users, b \in Assets : w # u \/ b # a => userFees'[w][b] = userFees[w][b]
    BY <1>1, <1>5, <2>1, TableUpdate DEF RemoveUserFeeDeletes, CachesTypeOK
  <2>3. FeeStep(r, a, Idle)
    BY <1>1, <1>2, <1>5, <2>2, Zenon
       DEF RemoveUserFeeDeletes, FeeStep, FeeFrame, Ends, CachesTypeOK, cache
  <2>4. ASSUME FeesOf(a) \notin raced', NEW w \in Users \ {u} PROVE FeeCurrent(w, a)'
    <3>1. EffectiveFee(w, a)' = EffectiveFee(w, a)
      BY <1>5, <2>2, EffectiveKept, Zenon DEF RemoveUserFeeDeletes
    <3> QED
      BY <3>1, <2>4, <1>1, <1>5, FeeEntry, Zenon DEF RemoveUserFeeDeletes, Continues, FeeCurrent, cache
  <2>5. ASSUME FeesOf(a) \notin raced' PROVE FeeCurrent(u, a)'
    BY <2>1, <2>5, <1>1, <1>5, FeeEntry, Zenon
       DEF RemoveUserFeeDeletes, Continues, FeeSoundFor, FeeCurrent, cache
  <2> QED
    BY <2>3, <2>4, <2>5, FeeStepKept, Zenon
<1>6. CASE RemoveDefaultFeeDeletes(r)
  <2>1. FeeStep(r, a, Idle)
    BY <1>1, <1>2, <1>6, Zenon
       DEF RemoveDefaultFeeDeletes, FeeStep, FeeFrame, Ends, CachesTypeOK, cache
  <2>2. ASSUME FeesOf(a) \notin raced' PROVE \A w \in Users : FeeCurrent(w, a)'
    BY <2>2, <1>1, <1>6, FeeEntry, Zenon
       DEF RemoveDefaultFeeDeletes, Continues, FeeSoundFor, FeeCurrent, cache
  <2> QED
    BY <2>1, <2>2, FeeStepKept
<1> QED
  BY <1>3, <1>4, <1>5, <1>6

\* Every step of a request about fees keeps the invariant.
LEMMA FeeNextKept == CachesInv /\ FeeNext => CachesInv'
  BY CachesAssumption, FeeStarts, DefaultStarts, FeeSteps, FeeEnds, Zenon DEF FeeNext


----------------------------------------------------------------------------
(* The steps about rate limits *)

\* What steps about limits leave alone.
LimitFrame == UNCHANGED <<apiKeys, userFees, defaultFees, apiKeyCache, userFeeCache>>

\* A request about a limit has its type.
LEMMA LimitRequest ==
  ASSUME NEW op \in {"limitLoad", "limitStore", "limitSet"}, NEW u \in Users,
         NEW v \in Limits \cup {None}
  PROVE  [op |-> op, about |-> LimitOf(u), user |-> None, val |-> v] \in Request
<1>1. LimitOf(u) \in {"limit"} \X Users
  BY DEF LimitOf
<1> QED
  BY <1>1, Zenon DEF Request

\* A step about the rate limit of user u, which leaves it the row and the entry given.
LimitStep(r, u, n, row, entry) ==
    /\ Starts(r, LimitOf(u)) \/ (cacheReq[r].about = LimitOf(u) /\ UNCHANGED raced)
    /\ cacheReq' = [cacheReq EXCEPT ![r] = n]
    /\ rateLimits' = [rateLimits EXCEPT ![u] = row]
    /\ rateLimitCache' = [rateLimitCache EXCEPT ![u] = entry]
    /\ LimitFrame

\* A step about the limit of one user keeps the invariant.
LEMMA LimitStepKept ==
  ASSUME CachesInv, NEW r \in Requests, NEW u \in Users, NEW n, NEW row \in Limits \cup {None},
         NEW entry \in Limits \cup {None, NotCached}, LimitStep(r, u, n, row, entry),
         \/ n = Idle
         \/ \E op \in {"limitLoad", "limitStore", "limitSet"}, v \in Limits \cup {None} :
              /\ n = [op |-> op, about |-> LimitOf(u), user |-> None, val |-> v]
              /\ op # "limitLoad" => v = row,
         LimitOf(u) \notin raced' =>
            entry \in {NotCached, row} \/ (n # Idle /\ n.op = "limitSet")
  PROVE  CachesInv'
<1>1. n = Idle \/ n.about = LimitOf(u)
  OBVIOUS
<1>2. StepOf(r, LimitOf(u)) /\ LimitFrame
  BY <1>1, Zenon DEF StepOf, LimitStep
<1>3. CachesTypeOK
  BY Zenon DEF CachesInv
<1>4. n \in Request /\ n.op \notin {"store", "added"}
  BY LimitRequest DEF Idle, Request
<1>5. /\ cacheReq' \in [Requests -> Request] /\ cacheReq'[r] = n
      /\ \A q \in Requests \ {r} : cacheReq'[q] = cacheReq[q]
  BY <1>3, <1>4, Zenon DEF CachesTypeOK, LimitStep
<1>6. /\ rateLimits' \in [Users -> Limits \cup {None}] /\ rateLimits'[u] = row
      /\ rateLimitCache' \in [Users -> Limits \cup {None, NotCached}] /\ rateLimitCache'[u] = entry
      /\ \A w \in Users \ {u} : rateLimits'[w] = rateLimits[w] /\ rateLimitCache'[w] = rateLimitCache[w]
  BY <1>3, Zenon DEF CachesTypeOK, LimitStep
<1>7. CachesTypeOK'
  BY <1>2, <1>3, <1>5, <1>6, Zenon DEF CachesTypeOK, LimitFrame
<1>8. KeyKnown'
  BY <1>2, <1>4, <1>5, Zenon DEF KeyKnown, Id, CachesInv, LimitFrame
<1>9. ASSUME LimitOf(u) \notin raced' PROVE LimitSound(u)'
  <2>1. \A q \in Requests : cacheReq'[q].about = LimitOf(u) => q = r /\ n # Idle
    <3>1. LimitOf(u) # Nothing /\ Idle.about = Nothing
      BY SubjectsDiffer DEF Idle
    <3>2. \A q \in Requests \ {r} : cacheReq[q].about # LimitOf(u)
      BY <1>2, <1>9, <3>1, StepAlone DEF CachesInv
    <3> QED
      BY <1>5, <3>1, <3>2, Zenon
  <2>2. \A q \in Requests :
           cacheReq'[q].about = LimitOf(u) /\ cacheReq'[q].op \in {"limitStore", "limitSet"}
           => cacheReq'[q].val = rateLimits'[u]
    BY <2>1, <1>5, <1>6
  <2>3. \/ rateLimitCache'[u] \in {NotCached, rateLimits'[u]}
        \/ \E q \in Requests : cacheReq'[q].about = LimitOf(u) /\ cacheReq'[q].op = "limitSet"
    BY <1>1, <1>5, <1>6, <1>9, Zenon
  <2> QED
    BY <2>2, <2>3, Zenon DEF LimitSound
<1>10. ASSUME NEW w \in Users \ {u}, LimitOf(w) \notin raced' PROVE LimitSound(w)'
  <2>1. LimitOf(u) # Nothing /\ LimitOf(w) # Nothing /\ LimitOf(w) # LimitOf(u)
    BY SubjectsDiffer
  <2>2. /\ LimitOf(w) \notin raced
        /\ \A q \in Requests : (cacheReq[q].about = LimitOf(w) \/ cacheReq'[q].about = LimitOf(w))
                               => cacheReq'[q] = cacheReq[q]
    BY <1>2, <1>10, <2>1, StepAlone DEF CachesInv
  <2>3. LimitSound(w)
    BY <2>2, Zenon DEF CachesInv, LimitInv
  <2> QED
    BY <2>2, <2>3, <1>6 DEF LimitSound
<1>11. /\ LimitOf(u) # Nothing
       /\ \A k \in Keys : KeyOf(k) # LimitOf(u)
       /\ \A a \in Assets : FeesOf(a) # LimitOf(u)
  BY SubjectsDiffer
<1>12. Alone'
  BY <1>2, <1>11, StepAlone, Zenon DEF CachesInv
<1>13. KeyInv'
  BY <1>2, <1>11, KeysKept, Zenon DEF LimitFrame
<1>14. FeeInv'
  BY <1>2, <1>11, FeesKept, Zenon DEF LimitFrame
<1> QED
  BY <1>7, <1>8, <1>9, <1>10, <1>12, <1>13, <1>14, Zenon DEF CachesInv, LimitInv

\* Every step of a request about a limit is such a step.
LEMMA LimitNextKept == CachesInv /\ LimitNext => CachesInv'
<1> SUFFICES ASSUME CachesInv, NEW r \in Requests,
                    \/ \E u \in Users : LimitMiss(r, u) \/ \E l \in Limits : SetRateLimit(r, u, l)
                    \/ LimitLoad(r) \/ LimitStore(r) \/ LimitFails(r) \/ SetRateLimitCaches(r)
             PROVE  CachesInv'
  BY DEF LimitNext
<1>1. /\ rateLimits \in [Users -> Limits \cup {None}]
      /\ rateLimitCache \in [Users -> Limits \cup {None, NotCached}]
      /\ \A u \in Users : /\ rateLimits = [rateLimits EXCEPT ![u] = rateLimits[u]]
                          /\ rateLimitCache = [rateLimitCache EXCEPT ![u] = rateLimitCache[u]]
  BY Zenon DEF CachesInv, CachesTypeOK
<1>2. ASSUME NEW u \in Users, Starts(r, LimitOf(u)), LimitOf(u) \notin raced'
      PROVE  rateLimitCache[u] \in {NotCached, rateLimits[u]}
  <2>1. LimitOf(u) \notin raced /\ \A q \in Requests : cacheReq[q].about # LimitOf(u)
    BY <1>2, Zenon DEF Starts
  <2> QED
    BY <2>1, Zenon DEF CachesInv, LimitInv, LimitSound
<1>3. ASSUME NEW u \in Users, LimitMiss(r, u) PROVE CachesInv'
  <2> DEFINE n == [op |-> "limitLoad", about |-> LimitOf(u), user |-> None, val |-> None]
  <2>1. LimitStep(r, u, n, rateLimits[u], rateLimitCache[u])
    BY <1>1, <1>3, Zenon DEF LimitMiss, LimitStep, LimitFrame, Goto, db, cache
  <2>2. LimitOf(u) \notin raced' => rateLimitCache[u] \in {NotCached, rateLimits[u]}
    BY <1>2, <1>3, Zenon DEF LimitMiss
  <2> QED
    BY <2>1, <2>2, <1>1, LimitStepKept, Zenon
<1>4. ASSUME NEW u \in Users, NEW l \in Limits, SetRateLimit(r, u, l) PROVE CachesInv'
  <2> DEFINE n == [op |-> "limitSet", about |-> LimitOf(u), user |-> None, val |-> l]
  <2>1. LimitStep(r, u, n, l, rateLimitCache[u])
    BY <1>1, <1>4, Zenon DEF SetRateLimit, LimitStep, LimitFrame, Goto, cache
  <2>2. n # Idle /\ n.op = "limitSet"
    BY Zenon DEF Idle
  <2> QED
    BY <2>1, <2>2, <1>1, LimitStepKept, Zenon
<1>5. ASSUME LimitLoad(r) \/ LimitStore(r) \/ LimitFails(r) \/ SetRateLimitCaches(r)
      PROVE  CachesInv'
  <2>1. PICK u \in Users : /\ u = Id(r) /\ cacheReq[r].about = LimitOf(u) /\ UNCHANGED raced
                           /\ cacheReq[r].val \in Limits \cup {None}
    BY <1>5, RequestTypes, Zenon DEF CachesInv, LimitLoad, LimitStore, LimitFails, SetRateLimitCaches,
       Continues
  <2>2. ASSUME LimitOf(u) \notin raced
        PROVE  /\ cacheReq[r].op # "limitSet" => rateLimitCache[u] \in {NotCached, rateLimits[u]}
               /\ cacheReq[r].op \in {"limitStore", "limitSet"} => cacheReq[r].val = rateLimits[u]
    <3>1. \A q \in Requests : cacheReq[q].about = LimitOf(u) => q = r
      BY <2>1, <2>2, SubjectsDiffer DEF CachesInv, Alone
    <3> QED
      BY <2>1, <2>2, <3>1, Zenon DEF CachesInv, LimitInv, LimitSound
  <2>3. CASE LimitLoad(r)
    <3> DEFINE n == [op |-> "limitStore", about |-> LimitOf(u), user |-> None, val |-> rateLimits[u]]
    <3>1. LimitStep(r, u, n, rateLimits[u], rateLimitCache[u])
      BY <1>1, <2>1, <2>3, Zenon DEF LimitLoad, LimitStep, LimitFrame, Goto, db, cache
    <3>2. LimitOf(u) \notin raced' => rateLimitCache[u] \in {NotCached, rateLimits[u]}
      BY <2>1, <2>2, <2>3, Zenon DEF LimitLoad, Continues
    <3> QED
      BY <3>1, <3>2, <1>1, LimitStepKept, Zenon
  <2>4. CASE LimitFails(r)
    <3>1. LimitStep(r, u, Idle, rateLimits[u], rateLimitCache[u])
      BY <1>1, <2>1, <2>4, Zenon DEF LimitFails, LimitStep, LimitFrame, Ends, db, cache
    <3>2. LimitOf(u) \notin raced' => rateLimitCache[u] \in {NotCached, rateLimits[u]}
      BY <2>1, <2>2, <2>4, Zenon DEF LimitFails, Continues
    <3> QED
      BY <3>1, <3>2, <1>1, LimitStepKept, Zenon
  <2>5. CASE LimitStore(r) \/ SetRateLimitCaches(r)
    <3>1. LimitStep(r, u, Idle, rateLimits[u], cacheReq[r].val)
      BY <1>1, <2>1, <2>5, Zenon
         DEF LimitStore, SetRateLimitCaches, CacheRateLimit, LimitStep, LimitFrame, Ends, db
    <3>2. LimitOf(u) \notin raced' => cacheReq[r].val = rateLimits[u]
      BY <2>1, <2>2, <2>5, Zenon DEF LimitStore, SetRateLimitCaches, Continues
    <3> QED
      BY <3>1, <3>2, <1>1, <2>1, LimitStepKept, Zenon
  <2> QED
    BY <1>5, <2>3, <2>4, <2>5
<1> QED
  BY <1>3, <1>4, <1>5

----------------------------------------------------------------------------
\* The caches are empty at first.
LEMMA CachesStart == CachesInit => CachesInv
<1> SUFFICES ASSUME CachesInit PROVE CachesInv
  OBVIOUS
<1>1. CachesTypeOK
  BY DEF CachesInit, CachesTypeOK, NoFees, Request
<1>2. \A r \in Requests : cacheReq[r].about = Nothing /\ cacheReq[r].op = "idle"
  BY Zenon DEF CachesInit, Idle
<1>3. Alone /\ KeyKnown
  BY <1>2, Zenon DEF Alone, KeyKnown, CachesInit
<1>4. KeyInv /\ LimitInv
  BY <1>2, SubjectsDiffer, Zenon DEF CachesInit, KeyInv, KeySound, LimitInv, LimitSound
<1>5. FeeInv
  BY <1>2, SubjectsDiffer, Zenon DEF CachesInit, FeeInv, FeeSound, NoFees
<1> QED
  BY <1>1, <1>3, <1>4, <1>5 DEF CachesInv

\* A restart empties the caches.
LEMMA RestartKept == CachesInv /\ Restart => CachesInv'
<1> SUFFICES ASSUME CachesInv, Restart PROVE CachesInv'
  OBVIOUS
<1>1. CachesTypeOK'
  BY Zenon DEF Restart, CachesInv, CachesTypeOK, NoFees, Request, db
<1>2. \A r \in Requests : cacheReq'[r].about = Nothing /\ cacheReq'[r].op = "idle"
  BY DEF Restart, Idle
<1>3. Alone' /\ KeyKnown'
  BY <1>2 DEF Alone, KeyKnown, Restart
<1>4. KeyInv' /\ LimitInv'
  BY <1>2, SubjectsDiffer, Zenon DEF Restart, KeyInv, KeySound, LimitInv, LimitSound
<1>5. FeeInv'
  BY <1>2, SubjectsDiffer, Zenon DEF Restart, FeeInv, FeeSound, NoFees
<1> QED
  BY <1>1, <1>3, <1>4, <1>5 DEF CachesInv

\* For every number of keys, users, assets and requests, whatever requests
\* overlap, fail or are cut off by a restart: the caches answer with the database
\* for what no two requests are about at once, and authorise only keys that were
\* added (get_api_key_entry, get_user_fee, get_rate_limit and the management
\* handlers).
THEOREM CachesCurrent == CachesSpec => []CachesAreCurrent
<1>1. CachesInv /\ [CachesNext]_cacheVars => CachesInv'
  <2> SUFFICES ASSUME CachesInv, [CachesNext]_cacheVars PROVE CachesInv'
    OBVIOUS
  <2>1. CASE UNCHANGED cacheVars
    BY <2>1 DEF cacheVars, CachesInv, CachesTypeOK, Alone, KeyKnown, KeyInv, KeySound, FeeInv,
       FeeSound, LimitInv, LimitSound, EffectiveFee, Id
  <2> QED
    BY <2>1, KeyNextKept, FeeNextKept, LimitNextKept, RestartKept DEF CachesNext
<1>2. CachesInv => CachesAreCurrent
  <2> SUFFICES ASSUME CachesInv PROVE CachesAreCurrent
    OBVIOUS
  <2>1. ASSUME NEW k \in Keys, KeyOf(k) \notin raced, Settled(KeyOf(k))
        PROVE  apiKeyCache[k] \in {None, apiKeys[k]}
    BY <2>1, Zenon DEF CachesInv, KeyInv, KeySound, Settled
  <2>2. ASSUME NEW u \in Users, NEW a \in Assets, FeesOf(a) \notin raced, Settled(FeesOf(a))
        PROVE  userFeeCache[u][a] \in {NotCached, EffectiveFee(u, a)}
    BY <2>2, Zenon DEF CachesInv, FeeInv, FeeSound, Settled
  <2>3. ASSUME NEW u \in Users, LimitOf(u) \notin raced, Settled(LimitOf(u))
        PROVE  rateLimitCache[u] \in {NotCached, rateLimits[u]}
    BY <2>3, Zenon DEF CachesInv, LimitInv, LimitSound, Settled
  <2> QED
    BY <2>1, <2>2, <2>3, Zenon DEF CachesAreCurrent, CachesInv, KeyKnown
<1> QED
  BY CachesStart, <1>1, <1>2, PTL DEF CachesSpec
===================================================================================
