---------------------------- MODULE WalletHistory ----------------------------
(***************************************************************************)
(* The gas wallet pool with history variables that tell when its handlers, *)
(* which take no lock, act on a row that changed since they read it.  The  *)
(* steps are those of GasWallets.                                          *)
(***************************************************************************)
EXTENDS GasWallets

VARIABLES
    seen,       \* the owner of its wallet as a register request last read or wrote it
    outdated,   \* wallets that a request wrote, or returned the key of, although the
                \* row had changed since it was read; and wallets set by hand
    crowded     \* peers that had two registrations in progress at once

historyVars == <<seen, outdated, crowded>>
poolVars == <<vars, historyVars>>

Owner(row) == [status |-> row.status, peer |-> row.peer]

PoolInit ==
    /\ Init
    /\ seen = [r \in Registers |-> {}]
    /\ outdated = {}
    /\ crowded = {}

\* Request r knows the row of its wallet as it is after the step.
Reads(r) == seen' = [seen EXCEPT ![r] = {Owner(gasWallets'[w]) : w \in reg'[r].wallet}]

\* The wallet of request r, when its owner is no longer the one the request read.
StaleWallet(r) == {w \in reg[r].wallet : seen[r] # {Owner(gasWallets[w])}}

\* Wallet w, when a report changes its row and had read another one.
StaleReport(t, w) ==
    {v \in {w} : rep[t].snap[v] # gasWallets[v] /\ gasWallets'[v] # gasWallets[v]}

RegisterStep(r) ==
    \/ \E p \in Peers :
          /\ RegisterLookup(r, p) /\ Reads(r)
          /\ crowded' = crowded \cup
                {q \in {p} : \E s \in Registers : reg[s].pc # "idle" /\ reg[s].peer = q}
          /\ UNCHANGED outdated
    \/ /\ RegisterAllocate(r) \/ RegisterFails(r)
       /\ Reads(r)
       /\ UNCHANGED <<outdated, crowded>>
    \/ /\ RegisterActivate(r) \/ RegisterReturn(r)
       /\ Reads(r)
       /\ outdated' = outdated \cup StaleWallet(r)
       /\ UNCHANGED crowded
    \/ /\ RegisterGetSecret(r)
       /\ seen' = [seen EXCEPT ![r] = IF reg'[r].wallet = {} THEN {} ELSE @]
       /\ UNCHANGED <<outdated, crowded>>

ReportStep(t) ==
    \/ \E w \in Wallets :
          /\ ReportWallet(t, w)
          /\ outdated' = outdated \cup StaleReport(t, w)
          /\ UNCHANGED <<seen, crowded>>
    \/ /\ \/ \E peers \in SUBSET alive : ReportSnapshot(t, peers)
          \/ ReportDone(t) \/ ReportFails(t)
       /\ UNCHANGED historyVars

AdminStep(w) ==
    /\ SetStatus(w)
    /\ outdated' = outdated \cup {w}
    /\ UNCHANGED <<seen, crowded>>

OtherStep ==
    /\ \/ \E w \in Wallets : AddGasWallet(w) \/ StoreSecret(w) \/ StoreSecretFails(w)
       \/ Tick
       \/ \E p \in Peers : PeerStops(p)
    /\ UNCHANGED historyVars

PoolNext ==
    \/ \E r \in Registers : RegisterStep(r)
    \/ \E t \in Reports : ReportStep(t)
    \/ \E w \in Wallets : AdminStep(w)
    \/ OtherStep

PoolSpec == PoolInit /\ [][PoolNext]_poolVars

-----------------------------------------------------------------------------
(* Properties *)

\* A live row of the table names p.
Owns(p, w) == Live(gasWallets[w]) /\ gasWallets[w].peer = p

\* register_gas_wallet is "idempotent per peer-id": however registrations, reports and
\* admin updates overlap, a peer owns two live wallets only if two of its own
\* registrations were in progress at once, or one of the wallets was written by a
\* request that had read another row, or by hand.
OneWalletEach ==
    \A p \in Peers \ crowded : \A v, w \in Wallets \ outdated : Owns(p, v) /\ Owns(p, w) => v = w

\* A key that was handed out belongs to the peer the table names, until a report
\* returns the wallet to the pool, unless the wallet was written, or its key returned,
\* by a request that had read another row, or it was set by hand.
KeyOfOwner == \A w \in Wallets \ outdated : \A p \in issued[w] : Owns(p, w)

\* "a freshly-activated `Active` wallet is held": within the grace period a wallet is
\* taken from its peer only by a request that had read another row, or by hand.
GraceKept ==
    [][\A w \in Wallets :
          gasWallets[w].status = "active" /\ gasWallets[w].age < Grace /\ w \notin outdated'
          => Owner(gasWallets'[w]) = Owner(gasWallets[w])]_poolVars
=============================================================================
