---- MODULE Dealer ----
(***************************************************************************)
(* The dealer pairs the two parties of a request by its id, under one mutex *)
(* (renegade-dealer/src/dealer.rs). A party calls over HTTP and waits on a  *)
(* channel whose receiver dies with the call (main.rs). A panic while the   *)
(* mutex is held poisons it: every later lock().unwrap() panics as well.    *)
(***************************************************************************)
EXTENDS Naturals, FiniteSets

CONSTANTS
    Calls,    \* HTTP calls
    Request,  \* per call: the id, the party and the body it sends
    HangUps,  \* may a caller disconnect while it waits?
    None

Parties == {0, 1}
Ids == {Request[c].id : c \in Calls}

ASSUME DealerAssumption == HangUps \in BOOLEAN /\ None \notin Calls

VARIABLES
    client,    \* per call: where the caller is
    job,       \* per call: "none", "queued", "open" or "done"
    open,      \* Dealer.open_requests: per id, the call that waits for its pair
    poisoned,  \* the mutex is poisoned
    partner    \* per call: the call it was dealt with

vars == <<client, job, open, poisoned, partner>>

TypeOK ==
    /\ client \in [Calls -> {"idle", "waiting", "gone", "dealt", "refused", "failed"}]
    /\ job \in [Calls -> {"none", "queued", "open", "done"}]
    /\ open \in [Ids -> Calls \cup {None}]
    /\ poisoned \in BOOLEAN
    /\ partner \in [Calls -> Calls \cup {None}]

Init ==
    /\ client = [c \in Calls |-> "idle"]
    /\ job = [c \in Calls |-> "none"]
    /\ open = [i \in Ids |-> None]
    /\ poisoned = FALSE
    /\ partner = [c \in Calls |-> None]

----------------------------------------------------------------------------

\* validate_request: of its checks the party id is modelled.
Valid(c) == Request[c].party \in Parties

\* handle_req queues a job with the channel the caller waits on.
Submit(c) ==
    /\ client[c] = "idle"
    /\ IF Valid(c)
         THEN /\ client' = [client EXCEPT ![c] = "waiting"]
              /\ job' = [job EXCEPT ![c] = "queued"]
         ELSE /\ client' = [client EXCEPT ![c] = "refused"]
              /\ UNCHANGED job
    /\ UNCHANGED <<open, poisoned, partner>>

\* The connection is closed: the handler and its receiver are dropped.
HangUp(c) ==
    /\ HangUps /\ client[c] = "waiting"
    /\ client' = [client EXCEPT ![c] = "gone"]
    /\ UNCHANGED <<job, open, poisoned, partner>>

Alive(c) == client[c] = "waiting"

\* The answer each caller gets; a caller whose channel is dropped sees an error.
Answer(answers) ==
    client' = [c \in Calls |-> IF c \in DOMAIN answers /\ Alive(c)
                                 THEN answers[c] ELSE client[c]]

\* The job of c finds the mutex poisoned.
HandlePoisoned(c) ==
    /\ job[c] = "queued" /\ poisoned
    /\ job' = [job EXCEPT ![c] = "done"]
    /\ Answer([d \in {c} |-> "failed"])
    /\ UNCHANGED <<open, poisoned, partner>>

\* The first of a pair is kept.
HandleFirst(c) ==
    /\ job[c] = "queued" /\ ~poisoned /\ open[Request[c].id] = None
    /\ job' = [job EXCEPT ![c] = "open"]
    /\ open' = [open EXCEPT ![Request[c].id] = c]
    /\ UNCHANGED <<client, poisoned, partner>>

\* The job of c takes e, the one that is open, out of the map.
Take(c, e) ==
    /\ job[c] = "queued" /\ ~poisoned /\ open[Request[c].id] = e /\ e # None
    /\ job' = [job EXCEPT ![c] = "done", ![e] = "done"]
    /\ open' = [open EXCEPT ![Request[c].id] = None]

SameBody(c, e) == Request[c].body = Request[e].body

\* assert_eq! fails: both jobs are dropped.
HandleMismatch(c, e) ==
    /\ Take(c, e)
    /\ ~SameBody(c, e)
    /\ Answer([d \in {c, e} |-> "failed"])
    /\ poisoned' = TRUE
    /\ UNCHANGED partner

RefuseNewcomerOnly(c, e) ==
    /\ Take(c, e)
    /\ SameBody(c, e) /\ Request[c].party = Request[e].party
    /\ Answer([d \in {c} |-> "refused"])
    /\ poisoned' = ~Alive(c)
    /\ UNCHANGED partner

\* Both parties are refused, the newcomer first. A send to a caller that is
\* gone panics, and what was not sent by then is dropped.
HandleDuplicate(c, e) ==
    /\ Take(c, e)
    /\ SameBody(c, e) /\ Request[c].party = Request[e].party
    /\ Answer([d \in {c, e} |-> IF d = c \/ Alive(c) THEN "refused" ELSE "failed"])
    /\ poisoned' = ~(Alive(c) /\ Alive(e))
    /\ UNCHANGED partner

HandlePairNewcomerFirst(c, e) ==
    /\ Take(c, e)
    /\ SameBody(c, e) /\ Request[c].party # Request[e].party
    /\ Answer([d \in {c, e} |-> "dealt"])
    /\ poisoned' = ~(Alive(c) /\ Alive(e))
    /\ partner' = IF Alive(e) THEN [partner EXCEPT ![c] = e, ![e] = c] ELSE partner

\* handle_ready_pair: the shares are sent to the open one, then to the newcomer.
HandlePair(c, e) ==
    /\ Take(c, e)
    /\ SameBody(c, e) /\ Request[c].party # Request[e].party
    /\ Answer([d \in {c, e} |-> IF d = e \/ Alive(e) THEN "dealt" ELSE "failed"])
    /\ poisoned' = ~(Alive(c) /\ Alive(e))
    /\ partner' = IF Alive(e) THEN [partner EXCEPT ![c] = e, ![e] = c] ELSE partner

Handle(c) ==
    \/ HandlePoisoned(c) \/ HandleFirst(c)
    \/ \E e \in Calls : \/ HandleMismatch(c, e) \/ HandleDuplicate(c, e)
                        \/ HandlePair(c, e)

Next == \E c \in Calls : Submit(c) \/ HangUp(c) \/ Handle(c)

Spec == Init /\ [][Next]_vars

\* run spawns a task for every job it receives.
FairSpec == Spec /\ \A c \in Calls : WF_vars(Handle(c))

----------------------------------------------------------------------------

\* Correlated randomness goes to the two parties of one request: whoever is
\* dealt has one partner, the other party of the same id with the same body,
\* who has the other half unless they hung up.
DealtInPairs ==
    \A c \in Calls : client[c] = "dealt" =>
        LET d == partner[c]
        IN  /\ d \in Calls /\ partner[d] = c
            /\ client[d] \in {"dealt", "gone"}
            /\ Request[d].id = Request[c].id /\ Request[d].body = Request[c].body
            /\ {Request[c].party, Request[d].party} = Parties

Counterparts(c) ==
    {d \in Calls : Request[d].id = Request[c].id /\ Request[d].party # Request[c].party}

\* Two parties that wait for each other do not wait for ever.
PairServed ==
    \A c \in Calls : \A d \in Counterparts(c) :
        (Alive(c) /\ Alive(d)) ~> ~(Alive(c) /\ Alive(d))

----------------------------------------------------------------------------
(* What is dealt: additive shares of values and of their MACs under a key   *)
(* that is shared in the same way. Scalars are the integers modulo the      *)
(* prime P. The shares of one pair are drawn together and have variables of *)
(* their own.                                                               *)

CONSTANT P

ASSUME PAssumption == P \in Nat \ {0, 1}

Scalar == 0..(P - 1)

Add(a, b) == IF a + b < P THEN a + b ELSE (a + b) - P
Sub(a, b) == IF b <= a THEN a - b ELSE (a + P) - b
Mul(a, b) == (a * b) % P
MulInverse(a) == CHOOSE b \in Scalar : Mul(a, b) = 1

\* P is prime.
ASSUME FieldAssumption == \A a \in Scalar \ {0} : \E b \in Scalar : Mul(a, b) = 1

VARIABLES
    kind,  \* what was generated last; "none" before
    key,   \* the two shares of the MAC key
    one,   \* the response of the first party: a tuple of shares
    two,   \* that of the second party
    masks  \* the masks told to the parties in the clear

shareVars == <<kind, key, one, two, masks>>

SecondShareUnkeyed(v, k, r, m) == [val |-> Sub(v, r), mac |-> Sub(v, m)]

\* gen_authenticated_secret_shares: v and its MAC, shared with r and m.
FirstShare(r, m) == [val |-> r, mac |-> m]
SecondShare(v, k, r, m) == [val |-> Sub(v, r), mac |-> Sub(Mul(v, k), m)]

MacKey == Add(key[1], key[2])

\* handle_ready_pair draws the key and one share of it.
DrawKey ==
    /\ kind = "none" /\ one = <<>> /\ two = <<>> /\ masks = <<>>
    /\ \E k, s \in Scalar : key = <<s, Sub(k, s)>>

\* The responses for the tuple vs of values, with any randomness. The second
\* party has the share of vs[i] at the place at[i].
Deal(name, vs, at) ==
    /\ kind' = name
    /\ \E rs, qs \in [DOMAIN vs -> Scalar] :
        /\ one' = [i \in DOMAIN vs |-> FirstShare(rs[i], qs[i])]
        /\ two' = [i \in DOMAIN vs |->
                    SecondShare(vs[at[i]], MacKey, rs[at[i]], qs[at[i]])]
    /\ UNCHANGED key

GenRandomBits ==
    /\ kind = "none"
    /\ \E b \in {0, 1} : Deal("bits", <<b>>, << 1 >>)
    /\ UNCHANGED masks

GenRandomValues ==
    /\ kind = "none"
    /\ \E v \in Scalar : Deal("values", <<v>>, << 1 >>)
    /\ UNCHANGED masks

\* Each party is told its own mask, and has the share of its own mask first.
GenInputMasks ==
    /\ kind = "none"
    /\ \E u, v \in Scalar : Deal("masks", <<u, v>>, <<2, 1>>) /\ masks' = <<u, v>>

GenInversePairs ==
    /\ kind = "none"
    /\ \E r \in Scalar \ {0} : Deal("inverses", <<r, MulInverse(r)>>, <<1, 2>>)
    /\ UNCHANGED masks

GenTriplesOfSum ==
    /\ kind = "none"
    /\ \E a, b \in Scalar : Deal("triples", <<a, b, Add(a, b)>>, <<1, 2, 3>>)
    /\ UNCHANGED masks

GenTriples ==
    /\ kind = "none"
    /\ \E a, b \in Scalar : Deal("triples", <<a, b, Mul(a, b)>>, <<1, 2, 3>>)
    /\ UNCHANGED masks

DealNext == \/ GenRandomBits \/ GenRandomValues \/ GenInputMasks
        \/ GenInversePairs \/ GenTriples

DealSpec == DrawKey /\ [][DealNext]_shareVars

----------------------------------------------------------------------------

\* Where the second party keeps its share of the first one's i-th value.
Place(i) == IF kind = "masks" THEN 3 - i ELSE i

\* What the parties get when they add their shares of it.
Opened(i) == Add(one[i].val, two[Place(i)].val)
OpenedMac(i) == Add(one[i].mac, two[Place(i)].mac)

\* Every opened value passes the MAC check under the sum of the key shares.
MacsVerify == \A i \in DOMAIN one : OpenedMac(i) = Mul(Opened(i), MacKey)

\* The opened values are correlated as the offline phase needs them: bits are
\* bits, a party's mask is the shared one, pairs are inverse, triples multiply.
Correlated ==
    /\ kind = "bits" => Opened(1) \in {0, 1}
    /\ kind = "masks" => <<Opened(1), Opened(2)>> = masks
    /\ kind = "inverses" => Mul(Opened(1), Opened(2)) = 1
    /\ kind = "triples" => Opened(3) = Mul(Opened(1), Opened(2))

\* What the two responses of one pair hold, put together by the parties, passes
\* the MAC check and has the correlation that was asked for, whatever the
\* dealer drew (gen_random_bits ... gen_triples).
SharesCorrelated == MacsVerify /\ Correlated
====
