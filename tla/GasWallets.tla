------------------------------ MODULE GasWallets ------------------------------
(***************************************************************************)
(* The gas wallet pool of the funds manager: the `gas_wallets` table, the  *)
(* secrets manager entries holding the wallets' keys, and the handlers     *)
(* that create wallets, register a wallet for a relayer peer, and apply    *)
(* the periodic report of active peers.  Every database statement and      *)
(* every secrets manager call is a step of its own, because the handlers   *)
(* run as concurrent requests and take no lock.                            *)
(***************************************************************************)
EXTENDS Naturals, FiniteSets

CONSTANTS
    Wallets,    \* addresses of gas wallets
    Peers,      \* relayer peer ids
    Registers,  \* concurrent register requests
    Reports,    \* concurrent report requests
    Grace,      \* GAS_WALLET_RECLAIM_GRACE, in ticks
    NoPeer,     \* NULL in the peer_id column
    Admin       \* whether the admin sets wallet statuses by hand

ASSUME GasWalletsAssumption ==
    /\ NoPeer \notin Peers
    /\ Grace \in Nat \ {0}
    /\ Registers \cap Reports = {}
    /\ Admin \in BOOLEAN

VARIABLES
    gasWallets, \* the table; the status "absent" stands for "no such row"
    secrets,    \* wallets whose key is stored in the secrets manager
    creating,   \* wallets inserted in the table whose key is not yet stored
    reg,        \* register requests in progress
    rep,        \* report requests in progress
    issued,     \* peers that were handed the wallet's key since it left the pool
    alive       \* peers whose relayer process still runs

vars == <<gasWallets, secrets, creating, reg, rep, issued, alive>>

Status == {"absent", "active", "pending", "inactive"}

\* `age` is the time since activated_at, saturating at Grace; a wallet that
\* was never activated has no activation time and counts as past the grace.
Row == [status : Status, peer : Peers \cup {NoPeer}, age : 0..Grace]

NoRow == [status |-> "absent", peer |-> NoPeer, age |-> Grace]

NewRow == [status |-> "inactive", peer |-> NoPeer, age |-> Grace]

IdleReg == [pc |-> "idle", peer |-> NoPeer, wallet |-> {}]

IdleRep == [pc |-> "idle", peers |-> {}, todo |-> {},
            snap |-> [w \in Wallets |-> NoRow]]

Init ==
    /\ gasWallets = [w \in Wallets |-> NoRow]
    /\ secrets = {}
    /\ creating = {}
    /\ reg = [r \in Registers |-> IdleReg]
    /\ rep = [t \in Reports |-> IdleRep]
    /\ issued = [w \in Wallets |-> {}]
    /\ alive = Peers

-----------------------------------------------------------------------------
(* The statements on the table *)

Live(row) == row.status \in {"active", "pending"}

ActiveFor(p) ==
    {w \in Wallets : gasWallets[w].status = "active" /\ gasWallets[w].peer = p}

LiveFor(p) == {w \in Wallets : Live(gasWallets[w]) /\ gasWallets[w].peer = p}

FindInactiveOrPending ==
    {w \in Wallets : gasWallets[w].status \in {"inactive", "pending"}}

FindInactive == {w \in Wallets : gasWallets[w].status = "inactive"}

\* The first live row ordered by status: an active one if there is one.
FindLive(p) ==
    LET active == {w \in LiveFor(p) : gasWallets[w].status = "active"}
    IN  IF active # {} THEN active ELSE LiveFor(p)

Exists(w) == gasWallets[w].status # "absent"

MarkActive(w, p) ==
    gasWallets' = [gasWallets EXCEPT ![w] =
                     [status |-> "active", peer |-> p, age |-> 0]]

MarkPending(w) ==
    gasWallets' = [gasWallets EXCEPT ![w].status = "pending"]

MarkInactive(w) ==
    gasWallets' = [gasWallets EXCEPT ![w].status = "inactive", ![w].peer = NoPeer]

-----------------------------------------------------------------------------
(* create_gas_wallet *)

\* The row is inserted first and is in the pool from then on.
AddGasWallet(w) ==
    /\ ~Exists(w)
    /\ gasWallets' = [gasWallets EXCEPT ![w] = NewRow]
    /\ creating' = creating \cup {w}
    /\ UNCHANGED <<secrets, reg, rep, issued, alive>>

StoreSecret(w) ==
    /\ w \in creating
    /\ secrets' = secrets \cup {w}
    /\ creating' = creating \ {w}
    /\ UNCHANGED <<gasWallets, reg, rep, issued, alive>>

\* The secrets manager refuses, or the process stops: the row stays.
StoreSecretFails(w) ==
    /\ w \in creating
    /\ creating' = creating \ {w}
    /\ UNCHANGED <<gasWallets, secrets, reg, rep, issued, alive>>

-----------------------------------------------------------------------------
(* register_gas_wallet *)

RegGoto(r, pc, p, ws) == reg' = [reg EXCEPT ![r] = [pc |-> pc, peer |-> p, wallet |-> ws]]

\* The first statement looks for a live wallet of the peer.
RegisterLookup(r, p) ==
    /\ reg[r].pc = "idle"
    /\ p \in alive
    /\ \/ \E w \in FindLive(p) :
             IF gasWallets[w].status # "active"
             THEN RegGoto(r, "activate", p, {w})
             ELSE RegGoto(r, "secret", p, {w})
       \/ LiveFor(p) = {} /\ RegGoto(r, "allocate", p, {})
    /\ UNCHANGED <<gasWallets, secrets, creating, rep, issued, alive>>

\* The first inactive row; an empty pool fails the request.
RegisterAllocate(r) ==
    /\ reg[r].pc = "allocate"
    /\ \/ \E w \in FindInactive : RegGoto(r, "activate", reg[r].peer, {w})
       \/ FindInactive = {} /\ RegGoto(r, "idle", NoPeer, {})
    /\ UNCHANGED <<gasWallets, secrets, creating, rep, issued, alive>>

RegisterActivate(r) ==
    /\ reg[r].pc = "activate"
    /\ \E w \in reg[r].wallet :
          /\ MarkActive(w, reg[r].peer)
          /\ RegGoto(r, "secret", reg[r].peer, {w})
    /\ UNCHANGED <<secrets, creating, rep, issued, alive>>

\* Reads the key; a wallet whose key was never stored fails the request.
RegisterGetSecret(r) ==
    /\ reg[r].pc = "secret"
    /\ \/ reg[r].wallet \subseteq secrets /\ RegGoto(r, "refill", reg[r].peer, reg[r].wallet)
       \/ ~(reg[r].wallet \subseteq secrets) /\ RegGoto(r, "idle", NoPeer, {})
    /\ UNCHANGED <<gasWallets, secrets, creating, rep, issued, alive>>

\* The top-up of all wallets succeeded: the key is returned to the peer.
RegisterReturn(r) ==
    /\ reg[r].pc = "refill"
    /\ issued' = [w \in Wallets |-> IF w \in reg[r].wallet
                                    THEN issued[w] \cup {reg[r].peer} ELSE issued[w]]
    /\ RegGoto(r, "idle", NoPeer, {})
    /\ UNCHANGED <<gasWallets, secrets, creating, rep, alive>>

\* Any statement, secret read or transfer of the request may return an error,
\* and a crash drops it: what it already wrote stays.
RegisterFails(r) ==
    /\ reg[r].pc # "idle"
    /\ RegGoto(r, "idle", NoPeer, {})
    /\ UNCHANGED <<gasWallets, secrets, creating, rep, issued, alive>>

-----------------------------------------------------------------------------
(* record_active_gas_wallet *)

ReportActionNoGrace(row, peerActive) ==
    IF peerActive
    THEN IF row.status = "pending" THEN "Activate" ELSE "None"
    ELSE CASE row.status = "active"  -> "MarkPending"
           [] row.status = "pending" -> "MarkInactive"
           [] OTHER -> "None"

ReportActionKeepsPending(row, peerActive) ==
    IF peerActive
    THEN IF row.status = "pending" THEN "Activate" ELSE "None"
    ELSE IF row.status = "active" /\ row.age = Grace THEN "MarkPending" ELSE "None"

ReportAction(row, peerActive) ==
    IF peerActive
    THEN IF row.status = "pending" THEN "Activate" ELSE "None"
    ELSE CASE row.status = "active"  -> IF row.age < Grace THEN "None" ELSE "MarkPending"
           [] row.status = "pending" -> "MarkInactive"
           [] OTHER -> "None"

\* The report reads all rows at once; the relayer's list of active peers may
\* miss peers that are still booting.
ReportSnapshot(t, peers) ==
    /\ rep[t].pc = "idle"
    /\ rep' = [rep EXCEPT ![t] = [pc |-> "apply", peers |-> peers,
                                  todo |-> {w \in Wallets : Exists(w)},
                                  snap |-> gasWallets]]
    /\ UNCHANGED <<gasWallets, secrets, creating, reg, issued, alive>>

\* One wallet of the snapshot, decided on the row as it was read.
ReportWallet(t, w) ==
    LET row == rep[t].snap[w]
        act == IF row.peer = NoPeer THEN "None"
               ELSE ReportAction(row, row.peer \in rep[t].peers)
    IN  /\ rep[t].pc = "apply"
        /\ w \in rep[t].todo
        /\ \/ act = "None" /\ UNCHANGED <<gasWallets, issued>>
           \/ act = "Activate" /\ MarkActive(w, row.peer) /\ UNCHANGED issued
           \/ act = "MarkPending" /\ MarkPending(w) /\ UNCHANGED issued
           \/ /\ act = "MarkInactive"
              /\ MarkInactive(w)
              /\ issued' = [issued EXCEPT ![w] = {}]
        /\ rep' = [rep EXCEPT ![t].todo = @ \ {w}, ![t].snap[w] = NoRow]
        /\ UNCHANGED <<secrets, creating, reg, alive>>

ReportDone(t) ==
    /\ rep[t].pc = "apply"
    /\ rep[t].todo = {}
    /\ rep' = [rep EXCEPT ![t] = IdleRep]
    /\ UNCHANGED <<gasWallets, secrets, creating, reg, issued, alive>>

\* A failed statement ends the report; the wallets not yet visited wait for
\* the next one.
ReportFails(t) ==
    /\ rep[t].pc = "apply"
    /\ rep[t].todo # {}
    /\ rep' = [rep EXCEPT ![t] = IdleRep]
    /\ UNCHANGED <<gasWallets, secrets, creating, reg, issued, alive>>

-----------------------------------------------------------------------------
(* set_gas_wallet_status_handler: one update of the request *)

SetStatus(w) ==
    /\ Admin
    /\ Exists(w)
    /\ \/ \E p \in alive : MarkActive(w, p) /\ UNCHANGED issued
       \/ MarkPending(w) /\ UNCHANGED issued
       \/ MarkInactive(w) /\ issued' = [issued EXCEPT ![w] = {}]
    /\ UNCHANGED <<secrets, creating, reg, rep, alive>>

-----------------------------------------------------------------------------
(* The environment *)

Older(row) == [row EXCEPT !.age = IF @ < Grace THEN @ + 1 ELSE @]

\* Time passes for the rows and for the copies the reports hold.
Tick ==
    /\ gasWallets' = [w \in Wallets |-> Older(gasWallets[w])]
    /\ rep' = [t \in Reports |-> [rep[t] EXCEPT !.snap = [w \in Wallets |-> Older(@[w])]]]
    /\ UNCHANGED <<secrets, creating, reg, issued, alive>>

\* A relayer process ends for good: after a reboot it has a new peer id.
PeerStops(p) ==
    /\ p \in alive
    /\ alive' = alive \ {p}
    /\ UNCHANGED <<gasWallets, secrets, creating, reg, rep, issued>>

Next ==
    \/ \E w \in Wallets : AddGasWallet(w) \/ StoreSecret(w) \/ StoreSecretFails(w)
    \/ \E r \in Registers, p \in Peers : RegisterLookup(r, p)
    \/ \E r \in Registers :
          \/ RegisterAllocate(r) \/ RegisterActivate(r) \/ RegisterGetSecret(r)
          \/ RegisterReturn(r) \/ RegisterFails(r)
    \/ \E t \in Reports : \E peers \in SUBSET alive : ReportSnapshot(t, peers)
    \/ \E t \in Reports, w \in Wallets : ReportWallet(t, w)
    \/ \E t \in Reports : ReportDone(t) \/ ReportFails(t)
    \/ \E w \in Wallets : SetStatus(w)
    \/ Tick
    \/ \E p \in Peers : PeerStops(p)

Spec == Init /\ [][Next]_vars

\* The relayer reports on a timer, requests that run make progress, and no
\* statement fails forever.
Fairness ==
    /\ WF_vars(Tick)
    /\ \A t \in Reports :
          /\ SF_vars(\E peers \in SUBSET alive : ReportSnapshot(t, peers))
          /\ WF_vars(ReportDone(t))
          /\ \A w \in Wallets : SF_vars(ReportWallet(t, w))
    /\ \A r \in Registers :
          WF_vars(RegisterAllocate(r) \/ RegisterActivate(r) \/ RegisterGetSecret(r)
                  \/ RegisterReturn(r) \/ RegisterFails(r))

FairSpec == Spec /\ Fairness

-----------------------------------------------------------------------------
(* Properties *)

RegState == {IdleReg} \cup
    [pc : {"allocate", "activate", "secret", "refill"}, peer : Peers, wallet : SUBSET Wallets]

RepState == [pc : {"idle", "apply"}, peers : SUBSET Peers, todo : SUBSET Wallets,
             snap : [Wallets -> Row]]

\* The type of the table, of the secrets manager and of the requests.
TypeOK ==
    /\ gasWallets \in [Wallets -> Row]
    /\ secrets \subseteq Wallets
    /\ creating \subseteq Wallets
    /\ reg \in [Registers -> RegState]
    /\ rep \in [Reports -> RepState]
    /\ issued \in [Wallets -> SUBSET Peers]
    /\ alive \subseteq Peers

\* register_gas_wallet is "idempotent per peer-id": a peer never owns two
\* live wallets.
OneLiveWalletPerPeer ==
    \A v, w \in Wallets :
        /\ Live(gasWallets[v]) /\ Live(gasWallets[w])
        /\ gasWallets[v].peer = gasWallets[w].peer
        => v = w

\* A wallet of a relayer that stopped for good is eventually taken from it,
\* whatever registrations overlap with the reports.
ReclaimsStoppedPeers ==
    \A p \in Peers, w \in Wallets : p \notin alive ~> [](gasWallets[w].peer # p)
=============================================================================
