------------------------------- MODULE WalletProofs -------------------------------
(*********************************************************************************)
(* The gas wallet pool keeps its types and its promises, for any sets of         *)
(* wallets, peers and overlapping requests, but for the wallets that a request   *)
(* wrote after the row had changed.  Neither OneWalletEach nor KeyOfOwner is     *)
(* inductive alone: what a registration has read and not yet acted on must be    *)
(* known too, which is RegisterSound.                                            *)
(*                                                                               *)
(* The transactions of a hot wallet are reported as what happened.  The          *)
(* invariant counts, for each retry, a transaction of another request that took  *)
(* the nonce (Crowding), ties what moved to the place of the request             *)
(* (Reporting), and keeps the allowance it checked until another request uses    *)
(* it (Covered).                                                                 *)
(*********************************************************************************)
EXTENDS WalletHistory, HotWalletTx, TLAPS

--------------------------------------------------------------------------------
(* The gas wallet pool *)

\* The rows the handlers build are rows, and time changes only the age.
LEMMA RowTypes ==
    /\ NoRow \in Row
    /\ NewRow \in Row
    /\ \A row \in Row : /\ Older(row) \in Row
                        /\ Older(row).status = row.status
                        /\ Older(row).peer = row.peer
  BY GasWalletsAssumption DEF NoRow, NewRow, Row, Status, Older

\* A request that is not running has a state of the right type.
LEMMA IdleTypes == IdleReg \in RegState /\ IdleRep \in RepState
  BY RowTypes, Zenon DEF IdleReg, IdleRep, RegState, RepState

\* The updates of one row keep the type of the table.
LEMMA ActiveType ==
    ASSUME gasWallets \in [Wallets -> Row], NEW w \in Wallets,
           NEW p \in Peers \cup {NoPeer}, MarkActive(w, p)
    PROVE  gasWallets' \in [Wallets -> Row]
<1>1. [status |-> "active", peer |-> p, age |-> 0] \in Row
  BY GasWalletsAssumption DEF Row, Status
<1> QED
  BY <1>1 DEF MarkActive

\* mark_gas_wallet_pending keeps the type of the table.
LEMMA PendingType ==
    ASSUME gasWallets \in [Wallets -> Row], NEW w \in Wallets, MarkPending(w)
    PROVE  gasWallets' \in [Wallets -> Row]
<1>1. [gasWallets[w] EXCEPT !.status = "pending"] \in Row
  BY DEF Row, Status
<1>2. gasWallets' = [gasWallets EXCEPT ![w] = [gasWallets[w] EXCEPT !.status = "pending"]]
  BY Zenon DEF MarkPending
<1> QED
  BY <1>1, <1>2

\* mark_gas_wallet_inactive keeps the type of the table.
LEMMA InactiveType ==
    ASSUME gasWallets \in [Wallets -> Row], NEW w \in Wallets, MarkInactive(w)
    PROVE  gasWallets' \in [Wallets -> Row]
<1> DEFINE freed == [gasWallets[w] EXCEPT !.status = "inactive", !.peer = NoPeer]
<1>1. freed \in Row
  BY Zenon DEF Row, Status
<1>2. gasWallets' = [gasWallets EXCEPT ![w] = freed]
  BY Zenon DEF MarkInactive
<1> HIDE DEF freed
<1> QED
  BY <1>1, <1>2

\* What is left of report t after it visited w.
Rest(t, w) == [rep[t] EXCEPT !.todo = @ \ {w}, !.snap[w] = NoRow]

\* Report t after a tick.
Aged(t) == [rep[t] EXCEPT !.snap = [w \in Wallets |-> Older(@[w])]]

\* Visiting a wallet leaves the report in a state of the right type.
LEMMA ReportVisits ==
    ASSUME rep \in [Reports -> RepState], NEW t \in Reports, NEW w \in Wallets,
           ReportWallet(t, w)
    PROVE  rep' = [rep EXCEPT ![t] = Rest(t, w)] /\ Rest(t, w) \in RepState
<1>1. Rest(t, w) \in RepState
  BY RowTypes, Zenon DEF RepState, Rest
<1>2. rep' = [rep EXCEPT ![t] = Rest(t, w)]
  BY Zenon DEF ReportWallet, Rest
<1> QED
  BY <1>1, <1>2

\* Every step keeps the types.
LEMMA NextTypes == TypeOK /\ [Next]_vars => TypeOK'
<1> SUFFICES ASSUME TypeOK, [Next]_vars PROVE TypeOK'
  OBVIOUS
<1> USE DEF TypeOK
<1>1. ASSUME NEW w \in Wallets, AddGasWallet(w) PROVE TypeOK'
  BY <1>1, RowTypes, Zenon DEF AddGasWallet
<1>2. ASSUME NEW w \in Wallets, StoreSecret(w) \/ StoreSecretFails(w) PROVE TypeOK'
  BY <1>2, Zenon DEF StoreSecret, StoreSecretFails
<1>3. ASSUME NEW r \in Registers, NEW p \in Peers, RegisterLookup(r, p) PROVE TypeOK'
  BY <1>3 DEF RegisterLookup, RegGoto, FindLive, LiveFor, RegState, IdleReg
<1>4. ASSUME NEW r \in Registers, RegisterAllocate(r) PROVE TypeOK'
  BY <1>4 DEF RegisterAllocate, RegGoto, FindInactive, RegState, IdleReg
<1>5. ASSUME NEW r \in Registers, RegisterActivate(r) PROVE TypeOK'
  BY <1>5, GasWalletsAssumption
     DEF RegisterActivate, RegGoto, MarkActive, RegState, IdleReg, Row, Status
<1>6. ASSUME NEW r \in Registers, RegisterGetSecret(r) \/ RegisterFails(r) PROVE TypeOK'
  BY <1>6 DEF RegisterGetSecret, RegisterFails, RegGoto, RegState, IdleReg
<1>7. ASSUME NEW r \in Registers, RegisterReturn(r) PROVE TypeOK'
  BY <1>7 DEF RegisterReturn, RegGoto, RegState, IdleReg
<1>8. ASSUME NEW t \in Reports, NEW peers \in SUBSET alive, ReportSnapshot(t, peers)
      PROVE TypeOK'
  BY <1>8, Zenon DEF ReportSnapshot, RepState
<1>9. ASSUME NEW t \in Reports, NEW w \in Wallets, ReportWallet(t, w) PROVE TypeOK'
  <2> DEFINE row == rep[t].snap[w]
  <2>0. /\ UNCHANGED <<secrets, creating, reg, alive>>
        /\ \/ UNCHANGED <<gasWallets, issued>>
           \/ MarkActive(w, row.peer) /\ UNCHANGED issued
           \/ MarkPending(w) /\ UNCHANGED issued
           \/ MarkInactive(w) /\ issued' = [issued EXCEPT ![w] = {}]
    BY <1>9, Zenon DEF ReportWallet
  <2>1. gasWallets' \in [Wallets -> Row] /\ issued' \in [Wallets -> SUBSET Peers]
    <3>1. row.peer \in Peers \cup {NoPeer}
      BY DEF RepState, Row
    <3> HIDE DEF row, TypeOK
    <3> QED
      BY <2>0, <3>1, ActiveType, PendingType, InactiveType, Zenon DEF TypeOK
  <2>2. rep' \in [Reports -> RepState]
    BY <1>9, ReportVisits
  <2> QED
    BY <2>0, <2>1, <2>2, Zenon
<1>10. ASSUME NEW t \in Reports, ReportDone(t) \/ ReportFails(t) PROVE TypeOK'
  BY <1>10, IdleTypes, Zenon DEF ReportDone, ReportFails
<1>11. ASSUME NEW w \in Wallets, SetStatus(w) PROVE TypeOK'
  BY <1>11, ActiveType, PendingType, InactiveType, Zenon DEF SetStatus
<1>12. CASE Tick
  <2>1. gasWallets' \in [Wallets -> Row]
    BY <1>12, RowTypes, Zenon DEF Tick
  <2>2. ASSUME NEW t \in Reports PROVE Aged(t) \in RepState
    <3>1. [w \in Wallets |-> Older(rep[t].snap[w])] \in [Wallets -> Row]
      BY RowTypes DEF RepState
    <3> QED
      BY <3>1, Zenon DEF RepState, Aged
  <2>3. rep' = [t \in Reports |-> Aged(t)]
    BY <1>12, Zenon DEF Tick, Aged
  <2>4. rep' \in [Reports -> RepState]
    BY <2>2, <2>3
  <2> QED
    BY <1>12, <2>1, <2>4, Zenon DEF Tick
<1>13. ASSUME NEW p \in Peers, PeerStops(p) PROVE TypeOK'
  BY <1>13 DEF PeerStops
<1>14. CASE UNCHANGED vars
  BY <1>14, Zenon DEF vars
<1> QED
  BY <1>1, <1>2, <1>3, <1>4, <1>5, <1>6, <1>7, <1>8, <1>9, <1>10, <1>11, <1>12,
     <1>13, <1>14 DEF Next

\* Every request, whatever it overlaps, keeps the table and the requests'
\* state well formed.
THEOREM TypeCorrect == Spec => []TypeOK
<1>1. Init => TypeOK
  BY RowTypes, IdleTypes DEF Init, TypeOK
<1> QED
  BY <1>1, NextTypes, PTL DEF Spec

-----------------------------------------------------------------------------

\* What a registration holds: the wallet it read or wrote, and, for a peer with one
\* registration at a time, all that the peer owns but for outdated wallets.
RegisterSound(r) ==
    LET p == reg[r].peer IN
    /\ reg[r].pc = "allocate" => reg[r].wallet = {}
    /\ reg[r].pc = "activate" =>
          \E w \in Wallets :
             /\ reg[r].wallet = {w}
             /\ \/ \E q \in Peers \cup {NoPeer} : seen[r] = {[status |-> "inactive", peer |-> q]}
                \/ seen[r] = {[status |-> "pending", peer |-> p]}
    /\ reg[r].pc \in {"secret", "refill"} =>
          \E w \in Wallets :
             reg[r].wallet = {w} /\ seen[r] = {[status |-> "active", peer |-> p]}
    /\ reg[r].pc \in {"allocate", "activate"} /\ p \notin crowded /\ reg[r].wallet \cap outdated = {}
          => \A v \in Wallets \ outdated : Owns(p, v) => v \in reg[r].wallet
    /\ \A s \in Registers \ {r} :
          reg[r].pc # "idle" /\ reg[s].pc # "idle" /\ reg[s].peer = p => p \in crowded

PoolInv ==
    /\ outdated \subseteq Wallets
    /\ seen \in [Registers -> SUBSET [status : Status, peer : Peers \cup {NoPeer}]]
    /\ \A r \in Registers : RegisterSound(r)
    /\ OneWalletEach
    /\ KeyOfOwner

\* The steps of the pool are those of GasWallets.
LEMMA PoolSteps == [PoolNext]_poolVars => [Next]_vars
  BY Zenon DEF PoolNext, poolVars, Next, RegisterStep, ReportStep, AdminStep, OtherStep

\* The empty pool satisfies the invariant.
LEMMA PoolStart == PoolInit => TypeOK /\ PoolInv
<1> SUFFICES ASSUME PoolInit PROVE TypeOK /\ PoolInv
  OBVIOUS
<1>1. TypeOK
  BY RowTypes, IdleTypes DEF PoolInit, Init, TypeOK
<1>2. ASSUME NEW r \in Registers PROVE RegisterSound(r)
  BY Zenon DEF PoolInit, Init, RegisterSound, IdleReg
<1>3. OneWalletEach /\ KeyOfOwner
  BY DEF PoolInit, Init, OneWalletEach, KeyOfOwner, Owns, Live, NoRow
<1> QED
  BY <1>1, <1>2, <1>3 DEF PoolInv, PoolInit

\* A request that knows a row as it is knows its status and its peer.
LEMMA SameOwner ==
    ASSUME NEW row, NEW a, NEW q, {Owner(row)} = {[status |-> a, peer |-> q]}
    PROVE  row.status = a /\ row.peer = q
<1>1. Owner(row) = [status |-> a, peer |-> q]
  OBVIOUS
<1> QED
  BY <1>1 DEF Owner

\* What makes a registration sound stays so under the steps of others.
LEMMA OthersSound ==
    ASSUME TypeOK, PoolInv, NEW s \in Registers, reg'[s] = reg[s], seen'[s] = seen[s],
           outdated \subseteq outdated', crowded \subseteq crowded',
           reg[s].pc # "idle" /\ reg[s].peer \notin crowded'
              => \A v \in Wallets \ outdated' : Owns(reg[s].peer, v)' => Owns(reg[s].peer, v),
           \A q \in Registers \ {s} :
              reg[s].pc # "idle" /\ reg'[q].pc # "idle" /\ reg'[q].peer = reg[s].peer =>
                 \/ reg[q].pc # "idle" /\ reg[q].peer = reg[s].peer
                 \/ reg[s].peer \in crowded'
    PROVE  RegisterSound(s)'
<1>1. RegisterSound(s)
  BY Zenon DEF PoolInv
<1>2. /\ reg'[s].pc = "allocate" => reg'[s].wallet = {}
      /\ reg'[s].pc = "activate" =>
            \E w \in Wallets :
               /\ reg'[s].wallet = {w}
               /\ \/ \E q \in Peers \cup {NoPeer} : seen'[s] = {[status |-> "inactive", peer |-> q]}
                  \/ seen'[s] = {[status |-> "pending", peer |-> reg'[s].peer]}
      /\ reg'[s].pc \in {"secret", "refill"} =>
            \E w \in Wallets :
               reg'[s].wallet = {w} /\ seen'[s] = {[status |-> "active", peer |-> reg'[s].peer]}
  BY <1>1, Zenon DEF RegisterSound
<1>3. ASSUME reg'[s].pc \in {"allocate", "activate"}, reg'[s].peer \notin crowded',
             reg'[s].wallet \cap outdated' = {},
             NEW v \in Wallets \ outdated', Owns(reg[s].peer, v)'
      PROVE  v \in reg'[s].wallet
  <2>1. reg[s].pc # "idle" /\ reg[s].pc \in {"allocate", "activate"}
    BY <1>3, Zenon
  <2>2. v \in Wallets \ outdated /\ Owns(reg[s].peer, v)
    BY <1>3, <2>1, Zenon
  <2>3. reg[s].peer \notin crowded /\ reg[s].wallet \cap outdated = {}
    BY <1>3, Zenon
  <2> QED
    BY <1>1, <2>1, <2>2, <2>3, Zenon DEF RegisterSound
<1>4. ASSUME NEW q \in Registers \ {s}, reg'[s].pc # "idle", reg'[q].pc # "idle",
             reg'[q].peer = reg'[s].peer
      PROVE  reg'[s].peer \in crowded'
  BY <1>1, <1>4, Zenon DEF RegisterSound
<1> QED
  BY <1>2, <1>3, <1>4, Zenon DEF RegisterSound

\* A step of no registration that changes owners only of outdated wallets, or to
\* nobody with the key taken back, preserves the invariant.
LEMMA RowStep ==
    ASSUME TypeOK, PoolInv, UNCHANGED <<reg, seen, crowded>>,
           outdated \subseteq outdated', outdated' \subseteq Wallets,
           \A v \in Wallets \ outdated' :
              /\ \A p \in Peers : Owns(p, v)' => Owns(p, v)
              /\ issued'[v] \subseteq issued[v]
              /\ \A p \in issued'[v] : Owns(p, v) => Owns(p, v)'
    PROVE  PoolInv'
<1>1. \A r \in Registers : reg[r].pc # "idle" => reg[r].peer \in Peers
  BY DEF TypeOK, RegState, IdleReg
<1>2. ASSUME NEW r \in Registers PROVE RegisterSound(r)'
  BY <1>1, OthersSound, Zenon
<1>3. OneWalletEach'
  BY Zenon DEF PoolInv, OneWalletEach
<1>4. KeyOfOwner'
  BY Zenon DEF PoolInv, KeyOfOwner
<1> QED
  BY <1>2, <1>3, <1>4, Zenon DEF PoolInv

\* Creating wallets, the passage of time and the end of a peer preserve the invariant.
LEMMA OtherKeeps ==
    ASSUME TypeOK, PoolInv, OtherStep
    PROVE  PoolInv'
<1>0. UNCHANGED <<reg, issued, seen, outdated, crowded>>
  BY Zenon DEF OtherStep, historyVars, AddGasWallet, StoreSecret, StoreSecretFails, Tick, PeerStops
<1>1. \A v \in Wallets, p \in Peers : Owns(p, v)' <=> Owns(p, v)
  <2>1. ASSUME NEW w \in Wallets, AddGasWallet(w)
        PROVE  \A v \in Wallets, p \in Peers : Owns(p, v)' <=> Owns(p, v)
    BY <2>1, Zenon DEF TypeOK, AddGasWallet, Exists, Owns, Live, NewRow
  <2>2. CASE Tick
    BY <2>2, RowTypes, Zenon DEF TypeOK, Tick, Owns, Live
  <2>3. CASE UNCHANGED gasWallets
    BY <2>3 DEF Owns
  <2> QED
    BY <2>1, <2>2, <2>3, Zenon DEF OtherStep, StoreSecret, StoreSecretFails, PeerStops
<1>2. outdated \subseteq Wallets /\ \A v \in Wallets : issued[v] \subseteq Peers
  BY DEF PoolInv, TypeOK
<1> QED
  BY <1>0, <1>1, <1>2, RowStep, Zenon

\* What a report writes, when the row is still as the report read it.
LEMMA ReportEffect ==
    ASSUME TypeOK, NEW t \in Reports, NEW w \in Wallets, ReportWallet(t, w),
           rep[t].snap[w] = gasWallets[w]
    PROVE  \/ gasWallets'[w] = gasWallets[w] /\ issued'[w] = issued[w]
           \/ /\ gasWallets[w].status = "pending"
              /\ gasWallets'[w].status = "active"
              /\ gasWallets'[w].peer = gasWallets[w].peer
              /\ issued'[w] = issued[w]
           \/ /\ gasWallets[w].status = "active" /\ ~(gasWallets[w].age < Grace)
              /\ gasWallets'[w].status = "pending"
              /\ gasWallets'[w].peer = gasWallets[w].peer
              /\ issued'[w] = issued[w]
           \/ /\ gasWallets[w].status = "pending"
              /\ gasWallets'[w].status = "inactive"
              /\ issued'[w] = {}
<1> USE DEF TypeOK
<1> DEFINE row == gasWallets[w]
           act == ReportAction(row, row.peer \in rep[t].peers)
<1>1. row \in Row
  OBVIOUS
<1>2. \/ UNCHANGED <<gasWallets, issued>>
      \/ act = "Activate" /\ MarkActive(w, row.peer) /\ UNCHANGED issued
      \/ act = "MarkPending" /\ MarkPending(w) /\ UNCHANGED issued
      \/ act = "MarkInactive" /\ MarkInactive(w) /\ issued' = [issued EXCEPT ![w] = {}]
  BY Zenon DEF ReportWallet
<1>3. /\ act = "Activate" => row.status = "pending"
      /\ act = "MarkPending" => row.status = "active" /\ ~(row.age < Grace)
      /\ act = "MarkInactive" => row.status = "pending"
  BY Zenon DEF ReportAction
<1> HIDE DEF act
<1> QED
  BY <1>1, <1>2, <1>3 DEF MarkActive, MarkPending, MarkInactive, Row

\* Whatever a report writes, it writes to one row.
LEMMA ReportRow ==
    ASSUME TypeOK, NEW t \in Reports, NEW w \in Wallets, ReportWallet(t, w)
    PROVE  /\ \A v \in Wallets \ {w} : gasWallets'[v] = gasWallets[v] /\ issued'[v] = issued[v]
           /\ issued'[w] = issued[w] \/ issued'[w] = {}
<1>1. \/ UNCHANGED <<gasWallets, issued>>
      \/ MarkActive(w, rep[t].snap[w].peer) /\ UNCHANGED issued
      \/ MarkPending(w) /\ UNCHANGED issued
      \/ MarkInactive(w) /\ issued' = [issued EXCEPT ![w] = {}]
  BY Zenon DEF ReportWallet
<1> QED
  BY <1>1, Zenon DEF TypeOK, MarkActive, MarkPending, MarkInactive

\* Reports preserve the invariant.
LEMMA ReportKeeps ==
    ASSUME TypeOK, PoolInv, NEW t \in Reports, ReportStep(t)
    PROVE  PoolInv'
<1>p. outdated \subseteq Wallets
  BY DEF PoolInv
<1>1. ASSUME NEW w \in Wallets, ReportWallet(t, w), outdated' = outdated \cup StaleReport(t, w),
             UNCHANGED <<seen, crowded>>
      PROVE  PoolInv'
  <2>1. UNCHANGED reg
    BY <1>1, Zenon DEF ReportWallet
  <2>2. outdated \subseteq outdated' /\ outdated' \subseteq Wallets
    BY <1>p, <1>1, Zenon DEF StaleReport
  <2>3. ASSUME NEW v \in Wallets \ outdated'
        PROVE  /\ \A p \in Peers : Owns(p, v)' => Owns(p, v)
               /\ issued'[v] \subseteq issued[v]
               /\ \A p \in issued'[v] : Owns(p, v) => Owns(p, v)'
    <3>1. CASE v # w
      BY <1>1, <3>1, ReportRow DEF Owns
    <3>2. CASE v = w /\ gasWallets'[w] = gasWallets[w]
      BY <1>1, <3>2, ReportRow, Zenon DEF Owns
    <3>3. CASE v = w /\ gasWallets'[w] # gasWallets[w]
      <4>1. rep[t].snap[w] = gasWallets[w]
        BY <1>1, <2>3, <3>3, Zenon DEF StaleReport
      <4> QED
        BY <1>1, <3>3, <4>1, ReportEffect, Zenon DEF Owns, Live
    <3> QED
      BY <3>1, <3>2, <3>3, Zenon
  <2> QED
    BY <1>1, <2>1, <2>2, <2>3, RowStep, Zenon
<1>2. ASSUME UNCHANGED historyVars,
             \/ \E peers \in SUBSET alive : ReportSnapshot(t, peers)
             \/ ReportDone(t) \/ ReportFails(t)
      PROVE  PoolInv'
  <2>1. UNCHANGED <<reg, gasWallets, issued, seen, outdated, crowded>>
    BY <1>2, Zenon DEF historyVars, ReportSnapshot, ReportDone, ReportFails
  <2> QED
    BY <1>p, <2>1, RowStep, Zenon DEF Owns
<1> QED
  BY <1>1, <1>2, Zenon DEF ReportStep

\* An update by hand preserves the invariant.
LEMMA AdminKeeps ==
    ASSUME TypeOK, PoolInv, NEW w \in Wallets, AdminStep(w)
    PROVE  PoolInv'
<1>1. UNCHANGED <<reg, seen, crowded>> /\ outdated' = outdated \cup {w}
  BY Zenon DEF AdminStep, SetStatus
<1>2. \A v \in Wallets \ {w} : gasWallets'[v] = gasWallets[v] /\ issued'[v] = issued[v]
  BY Zenon DEF TypeOK, AdminStep, SetStatus, MarkActive, MarkPending, MarkInactive
<1>3. outdated \subseteq Wallets
  BY DEF PoolInv
<1> QED
  BY <1>1, <1>2, <1>3, RowStep, Zenon DEF Owns

\* A registration that moves on replaces its own state and no other one.
LEMMA GotoFacts ==
    ASSUME TypeOK, NEW r \in Registers, NEW pc, NEW p, NEW ws, RegGoto(r, pc, p, ws)
    PROVE  /\ reg'[r].pc = pc /\ reg'[r].peer = p /\ reg'[r].wallet = ws
           /\ \A q \in Registers \ {r} : reg'[q] = reg[q]
<1>1. reg \in [Registers -> RegState]
  BY DEF TypeOK
<1>2. /\ reg'[r] = [pc |-> pc, peer |-> p, wallet |-> ws]
      /\ \A q \in Registers \ {r} : reg'[q] = reg[q]
  BY <1>1 DEF RegGoto
<1> QED
  BY <1>2

\* What a registration knows after it read or wrote the row of its wallet.
LEMMA ReadFacts ==
    ASSUME PoolInv, NEW r \in Registers, Reads(r)
    PROVE  /\ seen'[r] = {Owner(gasWallets'[w]) : w \in reg'[r].wallet}
           /\ \A q \in Registers \ {r} : seen'[q] = seen[q]
  BY Zenon DEF PoolInv, Reads

\* A step of a registration that changes no row preserves the invariant when the
\* registration is sound after it, and it competes with no other one of its peer.
LEMMA RegisterKeeps ==
    ASSUME TypeOK, TypeOK', PoolInv, NEW r \in Registers, UNCHANGED gasWallets,
           \A q \in Registers \ {r} : reg'[q] = reg[q] /\ seen'[q] = seen[q],
           seen' \in [Registers -> SUBSET [status : Status, peer : Peers \cup {NoPeer}]],
           outdated \subseteq outdated', outdated' \subseteq Wallets, crowded \subseteq crowded',
           \A q \in Registers \ {r} :
              reg'[r].pc # "idle" /\ reg[q].pc # "idle" /\ reg[q].peer = reg'[r].peer =>
                 \/ reg[r].pc # "idle" /\ reg[r].peer = reg'[r].peer
                 \/ reg'[r].peer \in crowded',
           RegisterSound(r)', KeyOfOwner'
    PROVE  PoolInv'
<1>1. ASSUME NEW s \in Registers \ {r} PROVE RegisterSound(s)'
  <2>1. \A v \in Wallets : Owns(reg[s].peer, v)' => Owns(reg[s].peer, v)
    BY Zenon DEF Owns
  <2>2. \A q \in Registers \ {s} :
           reg[s].pc # "idle" /\ reg'[q].pc # "idle" /\ reg'[q].peer = reg[s].peer =>
              \/ reg[q].pc # "idle" /\ reg[q].peer = reg[s].peer
              \/ reg[s].peer \in crowded'
    BY Zenon
  <2> QED
    BY <2>1, <2>2, OthersSound, Zenon
<1>2. OneWalletEach'
  BY DEF PoolInv, OneWalletEach, Owns
<1> QED
  BY <1>1, <1>2, Zenon DEF PoolInv

\* What a registration knows is the owner of a row.
LEMMA SeenTypes ==
    ASSUME TypeOK', PoolInv, NEW r \in Registers, Reads(r)
    PROVE  seen' \in [Registers -> SUBSET [status : Status, peer : Peers \cup {NoPeer}]]
<1> DEFINE Owners == [status : Status, peer : Peers \cup {NoPeer}]
<1>1. reg'[r].wallet \subseteq Wallets
  BY DEF TypeOK, RegState, IdleReg
<1>2. \A w \in Wallets : Owner(gasWallets'[w]) \in Owners
  BY Zenon DEF TypeOK, Row, Owner
<1>3. {Owner(gasWallets'[w]) : w \in reg'[r].wallet} \in SUBSET Owners
  BY <1>1, <1>2, Zenon
<1>4. seen \in [Registers -> SUBSET Owners]
  BY DEF PoolInv
<1> HIDE DEF Owners
<1>5. seen' \in [Registers -> SUBSET Owners]
  BY <1>3, <1>4 DEF Reads
<1> QED
  BY <1>5 DEF Owners

\* A registration that has ended is sound.
LEMMA IdleIsSound ==
    ASSUME NEW r \in Registers, reg'[r].pc = "idle"
    PROVE  RegisterSound(r)'
  BY Zenon DEF RegisterSound

\* Keys stay with their owners while neither the table nor a key changes hands.
LEMMA KeysKept ==
    ASSUME PoolInv, UNCHANGED <<gasWallets, issued>>, outdated \subseteq outdated'
    PROVE  KeyOfOwner'
  BY DEF PoolInv, KeyOfOwner, Owns

\* A registration that ends without handing out a key preserves the invariant.
LEMMA EndKeeps ==
    ASSUME TypeOK, TypeOK', PoolInv, NEW r \in Registers, RegGoto(r, "idle", NoPeer, {}),
           UNCHANGED <<gasWallets, issued, outdated, crowded>>,
           seen' = [seen EXCEPT ![r] = {}]
    PROVE  PoolInv'
<1>1. reg'[r].pc = "idle" /\ \A q \in Registers \ {r} : reg'[q] = reg[q]
  BY GotoFacts
<1>2. /\ seen' \in [Registers -> SUBSET [status : Status, peer : Peers \cup {NoPeer}]]
      /\ \A q \in Registers \ {r} : seen'[q] = seen[q]
      /\ outdated \subseteq Wallets
  BY DEF PoolInv
<1>3. RegisterSound(r)' /\ KeyOfOwner'
  BY <1>1, IdleIsSound, KeysKept
<1> QED
  BY <1>1, <1>2, <1>3, RegisterKeeps, Zenon

\* Looking up the live wallet of the peer preserves the invariant.
LEMMA LookupKeeps ==
    ASSUME TypeOK, TypeOK', PoolInv, NEW r \in Registers, NEW p \in Peers,
           RegisterLookup(r, p), Reads(r), UNCHANGED outdated,
           crowded' = crowded \cup
              {q \in {p} : \E s \in Registers : reg[s].pc # "idle" /\ reg[s].peer = q}
    PROVE  PoolInv'
<1>1. UNCHANGED <<gasWallets, issued>> /\ reg[r].pc = "idle" /\ outdated \subseteq Wallets
  BY Zenon DEF RegisterLookup, PoolInv
<1>2. /\ crowded \subseteq crowded'
      /\ \A q \in Registers : reg[q].pc # "idle" /\ reg[q].peer = p => p \in crowded'
  BY Zenon
<1>3. \/ LiveFor(p) = {} /\ RegGoto(r, "allocate", p, {})
      \/ \E w \in FindLive(p) : gasWallets[w].status # "active" /\ RegGoto(r, "activate", p, {w})
      \/ \E w \in FindLive(p) : gasWallets[w].status = "active" /\ RegGoto(r, "secret", p, {w})
  BY Zenon DEF RegisterLookup
<1>4. reg'[r].peer = p /\ \A q \in Registers \ {r} : reg'[q] = reg[q]
  <2>1. PICK pc, ws : RegGoto(r, pc, p, ws)
    BY <1>3, Zenon
  <2> QED
    BY <2>1, GotoFacts
<1>5. ASSUME NEW s \in Registers \ {r}, reg'[s].pc # "idle", reg'[s].peer = p
      PROVE  p \in crowded'
  BY <1>2, <1>4, <1>5, Zenon
<1>6. ASSUME LiveFor(p) = {}, RegGoto(r, "allocate", p, {})
      PROVE  RegisterSound(r)'
  <2>1. reg'[r].pc = "allocate" /\ reg'[r].wallet = {}
    BY <1>6, GotoFacts
  <2>2. \A v \in Wallets : ~Owns(p, v)'
    BY <1>1, <1>6, Zenon DEF LiveFor, Owns
  <2>3. /\ reg'[r].pc # "activate" /\ reg'[r].pc \notin {"secret", "refill"}
        /\ \A v \in Wallets \ outdated' : Owns(reg[r].peer, v)' => v \in reg'[r].wallet
    BY <1>4, <2>1, <2>2, Zenon
  <2> QED
    BY <1>4, <1>5, <2>1, <2>3, Zenon DEF RegisterSound
<1>7. ASSUME NEW w \in FindLive(p)
      PROVE  /\ w \in Wallets /\ Owns(p, w) /\ Owns(p, w)'
             /\ gasWallets[w].status # "active" => gasWallets[w].status = "pending"
  BY <1>1, Zenon DEF FindLive, LiveFor, Live, Owns
<1>8. ASSUME NEW w \in FindLive(p), gasWallets[w].status # "active",
             RegGoto(r, "activate", p, {w})
      PROVE  RegisterSound(r)'
  <2>1. reg'[r].pc = "activate" /\ reg'[r].wallet = {w}
    BY <1>8, GotoFacts
  <2>2. seen'[r] = {Owner(gasWallets[w])}
    BY <1>1, <2>1, ReadFacts
  <2>3. Owner(gasWallets[w]) = [status |-> "pending", peer |-> p]
    BY <1>7, <1>8, Zenon DEF Owner, Owns
  <2>4. ASSUME p \notin crowded', w \notin outdated', NEW v \in Wallets \ outdated', Owns(p, v)'
        PROVE  v = w
    BY <1>1, <1>2, <1>7, <2>4 DEF PoolInv, OneWalletEach, Owns
  <2> QED
    BY <1>4, <1>5, <1>7, <2>1, <2>2, <2>3, <2>4, Zenon DEF RegisterSound
<1>9. ASSUME NEW w \in FindLive(p), gasWallets[w].status = "active", RegGoto(r, "secret", p, {w})
      PROVE  RegisterSound(r)'
  <2>1. reg'[r].pc = "secret" /\ reg'[r].wallet = {w}
    BY <1>9, GotoFacts
  <2>2. seen'[r] = {Owner(gasWallets[w])}
    BY <1>1, <2>1, ReadFacts
  <2>3. Owner(gasWallets[w]) = [status |-> "active", peer |-> p]
    BY <1>7, <1>9, Zenon DEF Owner, Owns
  <2> QED
    BY <1>4, <1>5, <1>7, <2>1, <2>2, <2>3, Zenon DEF RegisterSound
<1>10. RegisterSound(r)'
  BY <1>3, <1>6, <1>8, <1>9, Zenon
<1>11. KeyOfOwner' /\ \A q \in Registers \ {r} : seen'[q] = seen[q]
  BY <1>1, KeysKept, ReadFacts, Zenon
<1> QED
  BY <1>1, <1>2, <1>4, <1>10, <1>11, RegisterKeeps, SeenTypes, Zenon

\* Picking an inactive wallet preserves the invariant.
LEMMA AllocateKeeps ==
    ASSUME TypeOK, TypeOK', PoolInv, NEW r \in Registers, RegisterAllocate(r), Reads(r),
           UNCHANGED <<outdated, crowded>>
    PROVE  PoolInv'
<1>1. UNCHANGED <<gasWallets, issued>> /\ reg[r].pc = "allocate" /\ outdated \subseteq Wallets
  BY Zenon DEF RegisterAllocate, PoolInv
<1>2. CASE RegGoto(r, "idle", NoPeer, {})
  <2>1. seen' = [seen EXCEPT ![r] = {}]
    <3>1. reg'[r].wallet = {}
      BY <1>2, GotoFacts
    <3>2. {Owner(gasWallets'[w]) : w \in reg'[r].wallet} = {}
      BY <3>1
    <3> QED
      BY <1>2, <3>2, Zenon DEF Reads
  <2> QED
    BY <1>1, <1>2, <2>1, EndKeeps, Zenon
<1>3. ASSUME NEW w \in FindInactive, RegGoto(r, "activate", reg[r].peer, {w})
      PROVE  PoolInv'
  <2>1. /\ reg'[r].pc = "activate" /\ reg'[r].peer = reg[r].peer /\ reg'[r].wallet = {w}
        /\ \A q \in Registers \ {r} : reg'[q] = reg[q]
    BY <1>3, GotoFacts, Zenon
  <2>2. seen'[r] = {Owner(gasWallets[w])} /\ \A q \in Registers \ {r} : seen'[q] = seen[q]
    BY <1>1, <2>1, ReadFacts
  <2>3. w \in Wallets /\ gasWallets[w].status = "inactive"
    BY DEF FindInactive
  <2>4. /\ Owner(gasWallets[w]) = [status |-> "inactive", peer |-> gasWallets[w].peer]
        /\ gasWallets[w].peer \in Peers \cup {NoPeer}
    BY <2>3, Zenon DEF Owner, TypeOK, Row
  <2>5. RegisterSound(r)
    BY DEF PoolInv
  <2>6. ASSUME reg[r].peer \notin crowded, NEW v \in Wallets \ outdated, Owns(reg[r].peer, v)'
        PROVE  FALSE
    <3>1. Owns(reg[r].peer, v)
      BY <1>1, <2>1, <2>6, Zenon DEF Owns
    <3> QED
      BY <1>1, <2>5, <2>6, <3>1, Zenon DEF RegisterSound
  <2>7. ASSUME NEW s \in Registers \ {r}, reg'[s].pc # "idle", reg'[s].peer = reg[r].peer
        PROVE  reg[r].peer \in crowded
    BY <1>1, <2>1, <2>5, <2>7, Zenon DEF RegisterSound
  <2>8. RegisterSound(r)'
    BY <2>1, <2>2, <2>3, <2>4, <2>6, <2>7, Zenon DEF RegisterSound
  <2>9. KeyOfOwner'
    BY <1>1, KeysKept
  <2> QED
    BY <1>1, <2>1, <2>2, <2>8, <2>9, RegisterKeeps, SeenTypes, Zenon
<1> QED
  BY <1>2, <1>3, Zenon DEF RegisterAllocate

\* Reading the key preserves the invariant.
LEMMA SecretKeeps ==
    ASSUME TypeOK, TypeOK', PoolInv, NEW r \in Registers, RegisterGetSecret(r),
           seen' = [seen EXCEPT ![r] = IF reg'[r].wallet = {} THEN {} ELSE @],
           UNCHANGED <<outdated, crowded>>
    PROVE  PoolInv'
<1>1. /\ UNCHANGED <<gasWallets, issued>> /\ reg[r].pc = "secret" /\ outdated \subseteq Wallets
      /\ seen \in [Registers -> SUBSET [status : Status, peer : Peers \cup {NoPeer}]]
  BY Zenon DEF RegisterGetSecret, PoolInv
<1>2. CASE RegGoto(r, "idle", NoPeer, {})
  <2>1. seen' = [seen EXCEPT ![r] = {}]
    <3>1. reg'[r].wallet = {}
      BY <1>2, GotoFacts
    <3> QED
      BY <3>1
  <2> QED
    BY <1>1, <1>2, <2>1, EndKeeps, Zenon
<1>3. CASE RegGoto(r, "refill", reg[r].peer, reg[r].wallet)
  <2>1. /\ reg'[r].pc = "refill" /\ reg'[r].peer = reg[r].peer /\ reg'[r].wallet = reg[r].wallet
        /\ \A q \in Registers \ {r} : reg'[q] = reg[q]
    BY <1>3, GotoFacts, Zenon
  <2>2. RegisterSound(r)
    BY DEF PoolInv
  <2>3. PICK w \in Wallets : /\ reg[r].wallet = {w}
                             /\ seen[r] = {[status |-> "active", peer |-> reg[r].peer]}
    BY <1>1, <2>2, Zenon DEF RegisterSound
  <2>4. seen' = seen
    BY <1>1, <2>1, <2>3, Zenon
  <2>5. RegisterSound(r)'
    BY <1>1, <2>1, <2>2, <2>3, <2>4, Zenon DEF RegisterSound
  <2>6. KeyOfOwner'
    BY <1>1, KeysKept
  <2> QED
    BY <1>1, <2>1, <2>4, <2>5, <2>6, RegisterKeeps, Zenon
<1> QED
  BY <1>2, <1>3, Zenon DEF RegisterGetSecret

\* A wallet that is not outdated after its key is used still has the owner read.
LEMMA StillOwned ==
    ASSUME NEW r \in Registers, NEW w, reg[r].wallet = {w},
           outdated' = outdated \cup StaleWallet(r), w \notin outdated'
    PROVE  w \notin outdated /\ seen[r] = {Owner(gasWallets[w])}
  BY DEF StaleWallet

\* Handing the key to the peer preserves the invariant.
LEMMA ReturnKeeps ==
    ASSUME TypeOK, TypeOK', PoolInv, NEW r \in Registers, RegisterReturn(r), Reads(r),
           outdated' = outdated \cup StaleWallet(r), UNCHANGED crowded
    PROVE  PoolInv'
<1>1. UNCHANGED gasWallets /\ reg[r].pc = "refill" /\ outdated \subseteq Wallets
  BY Zenon DEF RegisterReturn, PoolInv
<1>2. reg'[r].pc = "idle" /\ \A q \in Registers \ {r} : reg'[q] = reg[q]
  BY GotoFacts, Zenon DEF RegisterReturn
<1>3. PICK w \in Wallets : /\ reg[r].wallet = {w}
                           /\ seen[r] = {[status |-> "active", peer |-> reg[r].peer]}
  BY <1>1, Zenon DEF PoolInv, RegisterSound
<1>4. /\ issued'[w] = issued[w] \cup {reg[r].peer}
      /\ \A v \in Wallets \ {w} : issued'[v] = issued[v]
  BY <1>3, Zenon DEF RegisterReturn
<1>5. w \notin outdated' => Owns(reg[r].peer, w)
  <2> SUFFICES ASSUME w \notin outdated' PROVE Owns(reg[r].peer, w)
    OBVIOUS
  <2>1. {Owner(gasWallets[w])} = {[status |-> "active", peer |-> reg[r].peer]}
    BY <1>3, StillOwned, Zenon
  <2> QED
    BY <2>1, SameOwner, Zenon DEF Owns, Live
<1>6. outdated \subseteq outdated' /\ outdated' \subseteq Wallets
  BY <1>1, <1>3, Zenon DEF StaleWallet
<1>7. KeyOfOwner'
  <2> SUFFICES ASSUME NEW v \in Wallets, v \notin outdated', NEW p \in issued'[v]
               PROVE  Owns(p, v)
    BY <1>1 DEF KeyOfOwner, Owns
  <2>1. CASE v = w /\ p = reg[r].peer
    BY <1>5, <2>1
  <2>2. CASE ~(v = w /\ p = reg[r].peer)
    BY <1>4, <1>6, <2>2, Zenon DEF PoolInv, KeyOfOwner
  <2> QED
    BY <2>1, <2>2
<1>8. \A q \in Registers \ {r} : seen'[q] = seen[q]
  BY ReadFacts
<1> QED
  BY <1>1, <1>2, <1>6, <1>7, <1>8, IdleIsSound, RegisterKeeps, SeenTypes

\* Marking the wallet active preserves the invariant.
LEMMA ActivateKeeps ==
    ASSUME TypeOK, TypeOK', PoolInv, NEW r \in Registers, RegisterActivate(r), Reads(r),
           outdated' = outdated \cup StaleWallet(r), UNCHANGED crowded
    PROVE  PoolInv'
<1> DEFINE p == reg[r].peer
<1>s. RegisterSound(r) /\ outdated \subseteq Wallets
  BY DEF PoolInv
<1>1. PICK w \in Wallets :
         /\ reg[r].wallet = {w}
         /\ \/ \E q \in Peers \cup {NoPeer} : seen[r] = {[status |-> "inactive", peer |-> q]}
            \/ seen[r] = {[status |-> "pending", peer |-> p]}
  BY <1>s, Zenon DEF RegisterActivate, RegisterSound
<1>2. /\ MarkActive(w, p) /\ RegGoto(r, "secret", p, {w})
      /\ UNCHANGED issued /\ reg[r].pc = "activate"
  BY <1>1, Zenon DEF RegisterActivate
<1>3. /\ gasWallets'[w].status = "active" /\ gasWallets'[w].peer = p
      /\ \A v \in Wallets \ {w} : gasWallets'[v] = gasWallets[v]
  BY <1>2, Zenon DEF TypeOK, MarkActive
<1>4. /\ reg'[r].pc = "secret" /\ reg'[r].peer = p /\ reg'[r].wallet = {w}
      /\ \A q \in Registers \ {r} : reg'[q] = reg[q]
  BY <1>2, GotoFacts, Zenon
<1>5. /\ seen'[r] = {[status |-> "active", peer |-> p]}
      /\ \A q \in Registers \ {r} : seen'[q] = seen[q]
  BY <1>3, <1>4, ReadFacts DEF Owner
<1>6. outdated \subseteq outdated' /\ outdated' \subseteq Wallets
  BY <1>s, <1>1, Zenon DEF StaleWallet
<1> HIDE DEF p
<1>o. w \notin outdated' =>
        w \notin outdated /\ (~Live(gasWallets[w]) \/ gasWallets[w].peer = p)
  <2> SUFFICES ASSUME w \notin outdated'
               PROVE  w \notin outdated /\ (~Live(gasWallets[w]) \/ gasWallets[w].peer = p)
    OBVIOUS
  <2>1. w \notin outdated /\ seen[r] = {Owner(gasWallets[w])}
    BY <1>1, StillOwned, Zenon
  <2>2. CASE \E q \in Peers \cup {NoPeer} : seen[r] = {[status |-> "inactive", peer |-> q]}
    <3>1. PICK q : {Owner(gasWallets[w])} = {[status |-> "inactive", peer |-> q]}
      BY <2>1, <2>2, Zenon
    <3>2. gasWallets[w].status = "inactive"
      BY <3>1, SameOwner, Zenon
    <3> QED
      BY <2>1, <3>2 DEF Live
  <2>3. CASE seen[r] = {[status |-> "pending", peer |-> p]}
    BY <2>1, <2>3, SameOwner, Zenon
  <2> QED
    BY <1>1, <2>1, <2>2, <2>3, Zenon
<1>7. ASSUME NEW s \in Registers \ {r}, reg[s].pc # "idle", reg[s].peer = p
      PROVE  p \in crowded
  BY <1>s, <1>2, <1>7, Zenon DEF RegisterSound, p
<1>8. RegisterSound(r)'
  BY <1>4, <1>5, <1>7, Zenon DEF RegisterSound
<1>9. ASSUME NEW s \in Registers \ {r} PROVE RegisterSound(s)'
  <2>1. ASSUME reg[s].pc # "idle", reg[s].peer \notin crowded, NEW v \in Wallets \ outdated',
               Owns(reg[s].peer, v)'
        PROVE  Owns(reg[s].peer, v)
    <3>1. reg[s].peer # p
      BY <1>7, <2>1, Zenon
    <3> QED
      BY <1>3, <1>4, <2>1, <3>1, Zenon DEF Owns
  <2>2. \A q \in Registers \ {s} :
           reg'[q].pc # "idle" /\ reg'[q].peer = reg[s].peer =>
              reg[q].pc # "idle" /\ reg[q].peer = reg[s].peer
    BY <1>2, <1>4, Zenon DEF p
  <2> QED
    BY <1>4, <1>5, <1>6, <2>1, <2>2, OthersSound, Zenon
<1>10. OneWalletEach'
  <2> SUFFICES ASSUME NEW q \in Peers, q \notin crowded,
                      NEW u \in Wallets, NEW v \in Wallets, u \notin outdated', v \notin outdated',
                      Owns(q, u)', Owns(q, v)'
               PROVE  u = v
    BY DEF OneWalletEach
  <2>1. ASSUME w \notin outdated', p \notin crowded, NEW x \in Wallets \ {w}, x \notin outdated'
        PROVE  ~Owns(p, x)
    BY <1>s, <1>1, <1>2, <1>6, <1>o, <2>1 DEF RegisterSound, p
  <2>2. \A x \in Wallets \ {w} : Owns(q, x)' => Owns(q, x)
    BY <1>3, Zenon DEF Owns
  <2>3. Owns(q, w)' => q = p
    BY <1>3, Zenon DEF Owns
  <2>4. CASE u = w /\ v # w
    BY <2>1, <2>2, <2>3, <2>4
  <2>5. CASE u # w /\ v = w
    BY <2>1, <2>2, <2>3, <2>5
  <2>6. CASE u # w /\ v # w
    BY <1>6, <2>2, <2>6, Zenon DEF PoolInv, OneWalletEach
  <2> QED
    BY <2>4, <2>5, <2>6
<1>11. KeyOfOwner'
  <2> SUFFICES ASSUME NEW v \in Wallets, v \notin outdated', NEW q \in issued[v]
               PROVE  Owns(q, v)'
    BY <1>2 DEF KeyOfOwner
  <2>1. Owns(q, v)
    BY <1>6 DEF PoolInv, KeyOfOwner
  <2>2. CASE v = w
    BY <1>3, <1>o, <2>1, <2>2, Zenon DEF Owns, Live
  <2>3. CASE v # w
    BY <1>3, <2>1, <2>3 DEF Owns
  <2> QED
    BY <2>2, <2>3
<1> QED
  BY <1>6, <1>8, <1>9, <1>10, <1>11, SeenTypes, Zenon DEF PoolInv

\* Every step preserves the invariant.
LEMMA PoolKeeps ==
    ASSUME TypeOK, TypeOK', PoolInv, [PoolNext]_poolVars
    PROVE  PoolInv'
<1>1. ASSUME NEW r \in Registers, RegisterStep(r) PROVE PoolInv'
  <2>1. ASSUME RegisterFails(r), Reads(r), UNCHANGED <<outdated, crowded>> PROVE PoolInv'
    <3>1. RegGoto(r, "idle", NoPeer, {}) /\ UNCHANGED <<gasWallets, issued>>
      BY <2>1 DEF RegisterFails
    <3>2. seen' = [seen EXCEPT ![r] = {}]
      <4>1. reg'[r].wallet = {}
        BY <2>1, <3>1, GotoFacts
      <4>2. {Owner(gasWallets'[w]) : w \in reg'[r].wallet} = {}
        BY <4>1
      <4> QED
        BY <2>1, <4>2, Zenon DEF Reads
    <3> QED
      BY <2>1, <3>1, <3>2, EndKeeps, Zenon
  <2> QED
    BY <1>1, <2>1, LookupKeeps, AllocateKeeps, SecretKeeps, ReturnKeeps, ActivateKeeps, Zenon
    DEF RegisterStep
<1>2. ASSUME NEW t \in Reports, ReportStep(t) PROVE PoolInv'
  BY <1>2, ReportKeeps
<1>3. ASSUME NEW w \in Wallets, AdminStep(w) PROVE PoolInv'
  BY <1>3, AdminKeeps
<1>4. CASE OtherStep
  BY <1>4, OtherKeeps
<1>5. CASE UNCHANGED poolVars
  <2>1. UNCHANGED <<reg, gasWallets, issued, seen, outdated, crowded>>
    BY <1>5 DEF poolVars, vars, historyVars
  <2> QED
    BY <2>1, RowStep, Zenon DEF Owns, PoolInv
<1> QED
  BY <1>1, <1>2, <1>3, <1>4, <1>5, Zenon DEF PoolNext

\* The types and the invariant hold always.
LEMMA PoolAlways == PoolSpec => [](TypeOK /\ PoolInv)
<1>1. TypeOK /\ PoolInv /\ [PoolNext]_poolVars => TypeOK' /\ PoolInv'
  BY PoolSteps, NextTypes, PoolKeeps
<1> QED
  BY <1>1, PoolStart, PTL DEF PoolSpec

\* register_gas_wallet is idempotent per peer id, whatever overlaps: a peer owns two
\* live wallets only if two of its own registrations were in progress at once, or one
\* of the wallets was written by a request that had read another row, or by hand.
THEOREM RegisterIdempotent == PoolSpec => []OneWalletEach
<1>1. PoolInv => OneWalletEach
  BY DEF PoolInv
<1> QED
  BY <1>1, PoolAlways, PTL

\* A key handed out by register_gas_wallet is held by the owner of the row only,
\* until a report returns the wallet to the pool, unless the wallet was written, or its
\* key returned, by a request that had read another row, or the wallet was set by hand.
THEOREM KeyHeldByOwner == PoolSpec => []KeyOfOwner
<1>1. PoolInv => KeyOfOwner
  BY DEF PoolInv
<1> QED
  BY <1>1, PoolAlways, PTL

\* The reclaim grace of gas_wallet_report_action protects every freshly activated
\* wallet, whatever overlaps, from all but a request that had read another row, and
\* the admin.
THEOREM GraceProtects == PoolSpec => GraceKept
<1> DEFINE Held == \A w \in Wallets :
                      gasWallets[w].status = "active" /\ gasWallets[w].age < Grace /\ w \notin outdated'
                      => Owner(gasWallets'[w]) = Owner(gasWallets[w])
<1>1. ASSUME TypeOK, PoolInv, [PoolNext]_poolVars PROVE [Held]_poolVars
  <2> USE <1>1
  <2>1. ASSUME NEW w \in Wallets, AddGasWallet(w) PROVE Held
    BY <2>1, Zenon DEF TypeOK, AddGasWallet, Exists
  <2>2. ASSUME NEW r \in Registers, RegisterActivate(r), outdated' = outdated \cup StaleWallet(r)
        PROVE  Held
    <3>1. PICK w \in Wallets :
             /\ reg[r].wallet = {w}
             /\ \/ \E q \in Peers \cup {NoPeer} : seen[r] = {[status |-> "inactive", peer |-> q]}
                \/ seen[r] = {[status |-> "pending", peer |-> reg[r].peer]}
      BY <2>2, Zenon DEF PoolInv, RegisterActivate, RegisterSound
    <3>2. \A v \in Wallets \ {w} : gasWallets'[v] = gasWallets[v]
      BY <2>2, <3>1, Zenon DEF TypeOK, RegisterActivate, MarkActive
    <3>3. w \notin outdated' => gasWallets[w].status # "active"
      <4>1. w \notin outdated' => seen[r] = {Owner(gasWallets[w])}
        BY <2>2, <3>1, StillOwned, Zenon
      <4>2. ASSUME NEW a, NEW q, a # "active", seen[r] = {[status |-> a, peer |-> q]},
                   w \notin outdated'
            PROVE  gasWallets[w].status # "active"
        <5>1. {Owner(gasWallets[w])} = {[status |-> a, peer |-> q]}
          BY <4>1, <4>2
        <5> QED
          BY <4>2, <5>1, SameOwner, Zenon
      <4>3. "inactive" # "active" /\ "pending" # "active"
        OBVIOUS
      <4> QED
        BY <3>1, <4>2, <4>3, Zenon
    <3> QED
      BY <3>2, <3>3
  <2>3. ASSUME NEW t \in Reports, NEW w \in Wallets, ReportWallet(t, w),
               outdated' = outdated \cup StaleReport(t, w)
        PROVE  Held
    <3>1. \A v \in Wallets \ {w} : gasWallets'[v] = gasWallets[v]
      BY <2>3, ReportRow
    <3>2. w \notin outdated' /\ gasWallets'[w] # gasWallets[w] => rep[t].snap[w] = gasWallets[w]
      BY <2>3, Zenon DEF StaleReport
    <3>3. /\ gasWallets[w].status = "active" /\ gasWallets[w].age < Grace /\ w \notin outdated'
          => gasWallets'[w] = gasWallets[w]
      BY <2>3, <3>2, ReportEffect, Zenon
    <3> QED
      BY <3>1, <3>3
  <2>4. ASSUME NEW w \in Wallets, AdminStep(w) PROVE Held
    BY <2>4, Zenon DEF TypeOK, AdminStep, SetStatus, MarkActive, MarkPending, MarkInactive
  <2>5. CASE Tick
    BY <2>5, RowTypes, Zenon DEF TypeOK, Tick, Owner
  <2>6. CASE UNCHANGED gasWallets
    BY <2>6
  <2>7. \/ \E w \in Wallets : AddGasWallet(w) \/ AdminStep(w)
        \/ \E r \in Registers : RegisterActivate(r) /\ outdated' = outdated \cup StaleWallet(r)
        \/ \E t \in Reports, w \in Wallets :
              ReportWallet(t, w) /\ outdated' = outdated \cup StaleReport(t, w)
        \/ Tick
        \/ UNCHANGED gasWallets
    BY Zenon DEF PoolNext, poolVars, vars, RegisterStep, ReportStep, OtherStep, StoreSecret,
           StoreSecretFails, RegisterLookup, RegisterAllocate, RegisterGetSecret, RegisterReturn,
           RegisterFails, ReportSnapshot, ReportDone, ReportFails, PeerStops
  <2> HIDE DEF Held
  <2> QED
    BY <2>1, <2>2, <2>3, <2>4, <2>5, <2>6, <2>7, Zenon
<1> QED
  BY <1>1, PoolAlways, PTL DEF PoolSpec, GraceKept

--------------------------------------------------------------------------------
(* The transactions of a hot wallet *)

\* What the retries of a request have to do with the transactions of others.
Crowding(r) ==
    /\ hotPc[r] \in {"nonce", "submit"} => others[r] >= tries[r]
    /\ hotPc[r] = "submit" /\ seenNonce[r] < nonce => others[r] >= tries[r] + 1
    /\ result[r] \in {"unsent", "error"} /\ r \notin lost => others[r] >= TxMaxRetries

\* What a request moved by the time it is at a place, and what it reports.
Reporting(r) ==
    /\ result[r] # "none" => hotPc[r] = "done"
    /\ hotPc[r] \in {"allowance", "nonce", "submit"} => hotMoved[r] = 0
    /\ hotPc[r] = "receipt" =>
         hotMoved[r] = IF hotTx[r] # "approve" /\ status[r] = "success" THEN 1 ELSE 0
    /\ hotMoved[r] <= 1
    /\ result[r] # "none" /\ r \notin lost => (result[r] = "executed" <=> hotMoved[r] = 1)

\* The allowance a request saw or approved is there until another one uses it.
Covered(r) ==
    /\ hotTx[r] # "transfer" \/ hotPc[r] = "allowance" => r \in Swaps
    /\ hotPc[r] \in {"nonce", "submit"} /\ hotTx[r] = "swap" /\ r \notin disturbed
         => allowance >= SellAmount[r]
    /\ hotPc[r] = "receipt" /\ hotTx[r] = "approve" /\ r \notin disturbed
         => allowance >= SellAmount[r]
    /\ hotPc[r] = "receipt" /\ hotTx[r] # "approve" /\ status[r] # "success" => r \in disturbed
    /\ result[r] = "reverted" => r \in disturbed

HotInv ==
    /\ HotTypeOK
    /\ \A r \in HotRequests : Crowding(r) /\ Reporting(r) /\ Covered(r)

\* An amplified allowance covers what it was asked for.
LEMMA Amplified ==
    ASSUME NEW a \in Nat \ {0}, NEW b \in Nat PROVE a * b \in Nat /\ a * b >= b
  OBVIOUS

\* No request has started.
LEMMA HotStart == HotInit => HotInv
  <1> SUFFICES ASSUME HotInit PROVE HotInv
    OBVIOUS
  <1>1. HotTypeOK
    BY HotWalletAssumption DEF HotInit, HotTypeOK
  <1>2. ASSUME NEW r \in HotRequests PROVE Crowding(r) /\ Reporting(r) /\ Covered(r)
    BY HotWalletAssumption DEF HotInit, HotRequests, Crowding, Reporting, Covered
  <1> QED BY <1>1, <1>2 DEF HotInv

\* What a step of r leaves alone: the place and the results of the others.
LEMMA HotOthers ==
    ASSUME HotInv, NEW r \in HotRequests, HotStep(r), NEW s \in HotRequests, s # r
    PROVE  Crowding(s)' /\ Reporting(s)' /\ Covered(s)'
  <1>a. HotTypeOK /\ Crowding(s) /\ Reporting(s) /\ Covered(s) /\ Covered(r)
    BY DEF HotInv
  <1>1. /\ hotPc'[s] = hotPc[s] /\ hotTx'[s] = hotTx[s] /\ seenNonce'[s] = seenNonce[s]
        /\ tries'[s] = tries[s] /\ status'[s] = status[s] /\ result'[s] = result[s]
        /\ hotMoved'[s] = hotMoved[s] /\ (s \in lost' <=> s \in lost)
    BY <1>a DEF HotTypeOK, HotStep, CheckAllowance, FetchNonce, TooLow, Retry, Refused, Accepted,
         Execute, TxReceipt, Outcome, ReceiptLost, Failed, FinishTx, SendTx, HotGoto
  <1>2. CASE Accepted(r)
    <2>1. nonce' = nonce + 1 /\ others'[s] = others[s] + 1
      BY <1>2, <1>a, Zenon DEF Accepted, HotTypeOK
    <2>2. /\ s \in disturbed => s \in disturbed'
          /\ s \notin disturbed' => allowance' = allowance
      BY <1>2, Zenon DEF Accepted, Execute
    <2>3. Crowding(s)'
      BY <1>a, <1>1, <2>1, HotWalletAssumption DEF Crowding, HotTypeOK
    <2>4. Reporting(s)'
      BY <1>a, <1>1, Zenon DEF Reporting
    <2>5. Covered(s)'
      BY <1>a, <1>1, <2>2, Zenon DEF Covered
    <2> QED BY <2>3, <2>4, <2>5
  <1>3. CASE ~Accepted(r)
    <2>1. nonce' = nonce /\ allowance' = allowance /\ (s \in disturbed' <=> s \in disturbed)
      BY <1>3, Zenon DEF HotStep, CheckAllowance, FetchNonce, TooLow, Refused, TxReceipt, ReceiptLost
    <2>2. others'[s] = others[s]
      BY <1>3, <1>a, Zenon DEF HotTypeOK, HotStep, CheckAllowance, FetchNonce, TooLow, Refused, TxReceipt, 
           ReceiptLost, SendTx
    <2> QED BY <1>a, <1>1, <2>1, <2>2 DEF Crowding, Reporting, Covered
  <1> QED BY <1>2, <1>3

\* The place and the results of the request that takes the step.
LEMMA HotOwn ==
    ASSUME HotInv, NEW r \in HotRequests, HotStep(r)
    PROVE  HotTypeOK' /\ Crowding(r)' /\ Reporting(r)' /\ Covered(r)'
  <1>a. HotTypeOK
    BY DEF HotInv
  <1>b. Crowding(r) /\ Reporting(r) /\ Covered(r)
    BY DEF HotInv
  <1>d. TxMaxRetries \in Nat \ {0} /\ SellAmount \in [Swaps -> Nat] /\ Swaps \subseteq HotRequests
    BY HotWalletAssumption DEF HotRequests
  <1>1. CASE CheckAllowance(r)
    <2>1. /\ hotPc' = [hotPc EXCEPT ![r] = "nonce"] /\ tries' = [tries EXCEPT ![r] = 0]
          /\ others' = [others EXCEPT ![r] = 0] /\ disturbed' = disturbed \ {r}
          /\ hotTx' = [hotTx EXCEPT ![r] = IF allowance >= SellAmount[r] THEN "swap" ELSE "approve"]
          /\ hotPc[r] = "allowance" /\ UNCHANGED <<nonce, allowance, seenNonce, status, result, hotMoved, lost>>
      BY <1>1 DEF CheckAllowance, SendTx, HotGoto, Sufficient
    <2>2. HotTypeOK'
      BY <2>1, <1>a, <1>d DEF HotTypeOK
    <2>3. Crowding(r)' /\ Reporting(r)'
      BY <2>1, <1>a, <1>b DEF HotTypeOK, Crowding, Reporting
    <2>4. Covered(r)'
      BY <2>1, <1>a, <1>b, Zenon DEF HotTypeOK, Covered, Reporting
    <2> QED BY <2>2, <2>3, <2>4
  <1>2. CASE FetchNonce(r)
    BY <1>2, <1>a, <1>b, <1>d DEF FetchNonce, HotGoto, HotTypeOK, Crowding, Reporting, Covered
  <1>3. CASE TooLow(r)
    BY <1>3, <1>a, <1>b, <1>d DEF TooLow, Retry, Failed, FinishTx, HotGoto, HotTypeOK, Crowding, Reporting, Covered
  <1>4. CASE Refused(r)
    BY <1>4, <1>a, <1>b, Zenon DEF Refused, Failed, FinishTx, HotGoto, HotTypeOK, Crowding, Reporting, Covered
  <1>5. CASE ReceiptLost(r)
    BY <1>5, <1>a, <1>b, Zenon DEF ReceiptLost, Failed, FinishTx, HotGoto, HotTypeOK, Crowding, Reporting, Covered
  <1>6. CASE TxReceipt(r)
    <2>1. CASE hotTx[r] = "approve"
      BY <2>1, <1>6, <1>a, <1>b, <1>d DEF TxReceipt, SendTx, HotGoto, HotTypeOK, Crowding, Reporting, Covered
    <2>2. CASE hotTx[r] # "approve"
      BY <2>2, <1>6, <1>a, <1>b, <1>d DEF TxReceipt, Outcome, FinishTx, HotGoto, HotTypeOK, Crowding, Reporting, Covered
    <2> QED BY <2>1, <2>2
  <1>7. CASE Accepted(r)
    <2>1. /\ hotPc[r] = "submit" /\ hotPc' = [hotPc EXCEPT ![r] = "receipt"] /\ nonce' = nonce + 1
          /\ others'[r] = others[r] /\ others' \in [HotRequests -> Nat]
          /\ UNCHANGED <<hotTx, seenNonce, tries, result, lost>>
      BY <1>7, <1>a DEF Accepted, HotGoto, HotTypeOK
    <2>2. /\ allowance' \in Nat /\ disturbed' \subseteq HotRequests
          /\ r \in disturbed' <=> r \in disturbed
          /\ hotTx[r] = "approve" => allowance' >= SellAmount[r]
      BY <1>7, <1>a, <1>b, <1>d, Amplified, HotWalletAssumption DEF Accepted, Execute, HotTypeOK, Covered
    <2> DEFINE ok == hotTx[r] = "swap" => allowance >= SellAmount[r]
    <2>8. hotMoved[r] = 0
      BY <1>b, <2>1 DEF Reporting
    <2>9. /\ status' = [status EXCEPT ![r] = IF ok THEN "success" ELSE "failure"]
          /\ hotMoved' = [hotMoved EXCEPT ![r] = IF hotTx[r] # "approve" /\ ok THEN @ + 1 ELSE @]
      BY <1>7, Zenon DEF Accepted, Execute
    <2>10. hotMoved' = [hotMoved EXCEPT ![r] = IF hotTx[r] # "approve" /\ ok THEN 1 ELSE 0]
      BY <2>8, <2>9
    <2>4. HotTypeOK'
      BY <1>a, <2>1, <2>2, <2>9, <2>10 DEF HotTypeOK
    <2>5. Crowding(r)' /\ Reporting(r)'
      BY <1>a, <1>b, <2>1, <2>9, <2>10 DEF HotTypeOK, Crowding, Reporting
    <2>6. Covered(r)'
      BY <1>a, <1>b, <1>d, <2>1, <2>2, <2>9, Zenon DEF HotTypeOK, Covered
    <2> QED BY <2>4, <2>5, <2>6
  <1> QED BY <1>1, <1>2, <1>3, <1>4, <1>5, <1>6, <1>7, Zenon DEF HotStep

\* Every step of a request keeps the invariant.
LEMMA HotKept == HotInv /\ [HotNext]_hotVars => HotInv'
  <1>1. ASSUME HotInv, NEW r \in HotRequests, HotStep(r) PROVE HotInv'
    BY <1>1, HotOwn, HotOthers DEF HotInv
  <1>2. ASSUME HotInv, UNCHANGED hotVars PROVE HotInv'
    BY <1>2 DEF HotInv, hotVars, HotTypeOK, Crowding, Reporting, Covered
  <1> QED BY <1>1, <1>2 DEF HotNext

\* For every number of requests, every retry limit and every allowance: funds move
\* once at most, a swap is reported as executed exactly if it took place, is given
\* up only after as many transactions of others as there are tries, and reverts
\* only if another request used its allowance (send_tx_with_retry,
\* approve_erc20_allowance).
THEOREM HotTxAsReported == HotSpec => []SwapTxAsReported
  <1>1. HotInv => SwapTxAsReported
    BY Zenon DEF HotInv, HotTypeOK, Crowding, Reporting, Covered, SwapTxAsReported, MovedOnce, GivenUpOnlyWhenCrowded,
       ReportedAsHappened, RevertsOnlyIfDisturbed
  <1> QED BY HotStart, HotKept, <1>1, PTL DEF HotSpec
===================================================================================
