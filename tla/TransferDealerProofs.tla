--------------------------- MODULE TransferDealerProofs ---------------------------
(*********************************************************************************)
(* Answers of the custody transfers and of the MPC dealer.                       *)
(*                                                                               *)
(* A transfer is reported as what happened.  TransfersAsReported is not inductive*)
(* alone: a request sends its transaction from one place that it never returns to*)
(* (SentOnce), what it moved is settled by that transaction (MovedByTx), and it  *)
(* answers once the transaction is settled (Answered).                           *)
(*                                                                               *)
(* For any calls to the dealer, in any order and with any of them hanging up,    *)
(* correlated randomness is dealt only to the two parties of one request; and    *)
(* over every prime field, for all of the dealer's randomness, the shares open   *)
(* to what was shared.                                                           *)
(*********************************************************************************)
EXTENDS CustodyTransfers, Dealer, TLAPS

--------------------------------------------------------------------------------
(* The custody transfers *)

\* The transfers that are one transaction of a hot wallet.
OnChain(r) == Kind[r] \in {"withdraw", "gas", "tovault"}

Places == {"idle", "read", "lookup", "check", "topup", "fill", "submit", "wait", "index",
           "create", "poll", "ok", "err"}

RequestTypes ==
    /\ reqPc \in [Requests -> Places]
    /\ tx \in [Requests -> {"none", "pending", "mined", "reverted"}]
    /\ fb \in [Requests -> {"none", "pending", "confirming", "completed", "failed"}]
    /\ need = [r \in Requests |-> need[r]]
    /\ moved \in [Requests -> Nat]

\* A transaction is sent from one place of the request, which it does not come
\* back to.
SentOnce(r) ==
    /\ OnChain(r) => fb[r] = "none" /\ reqPc[r] \notin {"read", "topup", "index", "create", "poll"}
    /\ Kind[r] \in {"tohot", "sign"} =>
         tx[r] = "none" /\ reqPc[r] \notin {"topup", "fill", "submit", "wait", "index"}
    /\ reqPc[r] \in {"idle", "read", "lookup", "check", "topup", "fill", "submit"} =>
         tx[r] = "none" /\ fb[r] = "none"
    /\ reqPc[r] \in {"wait", "index", "create"} => fb[r] = "none"
    /\ OnChain(r) /\ (reqPc[r] \in {"check", "fill", "submit"} \/ tx[r] = "pending") =>
         need[r] = RoundDown(Amount[r])

\* What a request moved is settled by its transaction.
MovedByTx(r) ==
    moved[r] = IF OnChain(r) THEN IF tx[r] = "mined" THEN RoundDown(Amount[r]) ELSE 0
               ELSE IF Kind[r] # "sign" /\ fb[r] \in {"confirming", "completed"} THEN VaultAmount(r)
               ELSE 0

\* An answer is given once the transaction is settled, or was never sent.
Answered(r) ==
    /\ reqPc[r] = "ok" => IF OnChain(r) THEN tx[r] \in {"mined", "reverted"} ELSE Succeeded(r)
    /\ reqPc[r] = "err" /\ r \notin unsure =>
         IF OnChain(r) THEN tx[r] = "none" ELSE Kind[r] = "sign" \/ fb[r] \in {"none", "failed"}

RequestInv(r) == SentOnce(r) /\ MovedByTx(r) /\ Answered(r)

TransferInv == RequestTypes /\ \A r \in Requests : RequestInv(r)

\* Rounding keeps an amount an amount.
LEMMA RoundedAmounts ==
    ASSUME NEW n \in Nat PROVE RoundDown(n) \in Nat /\ RoundUp(n) \in Nat
  <1>1. Unit \in Nat /\ Unit > 0
    BY CustodyAssumption
  <1>2. \A m \in Nat : m \div Unit \in Nat
    BY <1>1
  <1>3. \A a, b \in Nat : a * b \in Nat
    OBVIOUS
  <1>4. \A m \in Nat : RoundDown(m) \in Nat
    BY <1>1, <1>2, <1>3 DEF RoundDown
  <1>5. n + Unit - 1 \in Nat
    BY <1>1
  <1> QED BY <1>4, <1>5 DEF RoundUp

\* What a request is to move is an amount.
LEMMA AmountsOwed ==
    ASSUME NEW r \in Requests
    PROVE  RoundDown(Amount[r]) \in Nat /\ VaultAmount(r) \in Nat
  BY RoundedAmounts, CustodyAssumption DEF VaultAmount

\* No request has started.
LEMMA TransferStart == TransferInit => TransferInv
  <1> SUFFICES ASSUME TransferInit PROVE TransferInv
    OBVIOUS
  <1>1. RequestTypes
    BY Zenon DEF TransferInit, RequestTypes, Places
  <1>2. ASSUME NEW r \in Requests PROVE RequestInv(r)
    <2>1. reqPc[r] = "idle" /\ tx[r] = "none" /\ fb[r] = "none" /\ moved[r] = 0
      BY Zenon DEF TransferInit
    <2> QED BY <2>1, Zenon DEF RequestInv, SentOnce, MovedByTx, Answered, OnChain
  <1> QED BY <1>1, <1>2 DEF TransferInv

\* The step of a request is about its own transactions.
LEMMA OtherRequests ==
    ASSUME RequestTypes, NEW r \in Requests, NEW s \in Requests, s # r, RequestInv(s),
           StartTransfer(r) \/ Progress(r) \/ Environment(r) \/ LoseReceipt(r) \/ CallFails(r)
    PROVE  RequestInv(s)'
  <1>1. reqPc'[s] = reqPc[s] /\ need'[s] = need[s]
    BY Zenon DEF RequestTypes, StartTransfer, Progress, Environment, LoseReceipt, CallFails, ReadVault, FetchMetadata,
       Lookup, CheckFunds, CheckWallet, CheckVault, CheckHyper, CheckTopUp, Fill, SubmitTransfer, RetryNonce, Receipt, Indexed,
       CreateTransaction, Poll, Mine, VaultTransfer, VaultComplete, TransferGoto, Enter, reqVars
  <1>2. tx'[s] = tx[s] /\ fb'[s] = fb[s]
    BY Zenon DEF RequestTypes, StartTransfer, Progress, Environment, LoseReceipt, CallFails, ReadVault, FetchMetadata,
       Lookup, CheckFunds, CheckWallet, CheckVault, CheckHyper, CheckTopUp, Fill, SubmitTransfer, Receipt, Indexed,
       CreateTransaction, Poll, Mine, VaultTransfer, VaultComplete
  <1>3. moved'[s] = moved[s] /\ (s \in unsure' <=> s \in unsure)
    BY Zenon DEF RequestTypes, StartTransfer, Progress, Environment, LoseReceipt, CallFails, ReadVault, FetchMetadata,
       Lookup, CheckFunds, CheckWallet, CheckVault, CheckHyper, CheckTopUp, Fill, SubmitTransfer, Receipt, Indexed,
       CreateTransaction, Poll, Mine, VaultTransfer, VaultComplete
  <1> QED BY <1>1, <1>2, <1>3, Zenon DEF RequestInv, SentOnce, MovedByTx, Answered, Succeeded

\* A request goes on or fails before it has sent anything.
LEMMA GoesOn ==
    ASSUME RequestTypes, NEW r \in Requests, RequestInv(r),
           \/ StartTransfer(r) \/ ReadVault(r) \/ FetchMetadata(r) \/ Lookup(r)
           \/ CheckFunds(r) \/ Fill(r)
    PROVE  RequestTypes' /\ RequestInv(r)'
  <1> USE DEF RequestInv
  <1>k. Kind[r] \in {"withdraw", "gas", "tovault", "tohot", "hyper", "sign"}
    BY CustodyAssumption, Zenon
  <1>u. UNCHANGED <<tx, fb, moved, unsure>>
    BY Zenon DEF StartTransfer, ReadVault, FetchMetadata, Lookup, CheckFunds, CheckWallet, CheckVault, CheckHyper, 
       CheckTopUp, Fill
  <1>m. MovedByTx(r)'
    BY <1>u, Zenon DEF MovedByTx
  <1>1. CASE StartTransfer(r)
    BY <1>1, <1>k, <1>u, <1>m, Zenon DEF StartTransfer, TransferGoto, Enter, RequestTypes, Places, SentOnce, Answered, OnChain
  <1>2. CASE ReadVault(r)
    BY <1>2, <1>k, <1>u, <1>m, Zenon DEF ReadVault, TransferGoto, Enter, RequestTypes, Places, SentOnce, Answered, OnChain
  <1>3. CASE FetchMetadata(r)
    BY <1>3, <1>u, <1>m, Zenon DEF FetchMetadata, reqVars, RequestTypes, SentOnce, Answered, Succeeded
  <1>4. CASE Lookup(r)
    BY <1>4, <1>k, <1>u, <1>m DEF Lookup, AfterLookup, Enter, RequestTypes, Places, SentOnce, Answered, OnChain
  <1>5. CASE CheckFunds(r)
    <2>1. CASE CheckHyper(r)
      BY <2>1, <1>k, <1>u, <1>m DEF CheckHyper, Enter, RequestTypes, Places, SentOnce, Answered, OnChain
    <2>2. CASE CheckWallet(r)
      BY <2>2, <1>k, <1>u, <1>m, Zenon DEF CheckWallet, TransferGoto, Enter, RequestTypes, Places, SentOnce, Answered, OnChain
    <2>3. CASE CheckVault(r)
      BY <2>3, <1>k, <1>u, <1>m, Zenon DEF CheckVault, TransferGoto, Enter, RequestTypes, Places, SentOnce, Answered, OnChain
    <2>4. CASE CheckTopUp(r)
      BY <2>4, <1>k, <1>u, <1>m, Zenon DEF CheckTopUp, TransferGoto, Enter, RequestTypes, Places, SentOnce, Answered, OnChain
    <2> QED BY <1>5, <2>1, <2>2, <2>3, <2>4, Zenon DEF CheckFunds
  <1>6. CASE Fill(r)
    BY <1>6, <1>k, <1>u, <1>m DEF Fill, Enter, RequestTypes, Places, SentOnce, Answered, OnChain
  <1> QED BY <1>1, <1>2, <1>3, <1>4, <1>5, <1>6, Zenon

\* A request sends its transaction, and waits for it or gives up.
LEMMA SendsAndWaits ==
    ASSUME RequestTypes, NEW r \in Requests, RequestInv(r),
           \/ SubmitTransfer(r) \/ Receipt(r) \/ Indexed(r) \/ CreateTransaction(r) \/ Poll(r)
           \/ LoseReceipt(r) \/ CallFails(r)
    PROVE  RequestTypes' /\ RequestInv(r)'
  <1> USE DEF RequestInv
  <1>k. Kind[r] \in {"withdraw", "gas", "tovault", "tohot", "hyper", "sign"}
    BY CustodyAssumption, Zenon
  <1>1. CASE SubmitTransfer(r)
    <2>1. CASE UNCHANGED tx
      <3>1. /\ \E place \in {"fill", "err"} : reqPc' = [reqPc EXCEPT ![r] = place]
            /\ reqPc[r] = "submit" /\ UNCHANGED <<need, fb, moved, unsure>>
        BY <1>1, <2>1, Zenon DEF SubmitTransfer, RetryNonce, TransferGoto, Enter, RequestTypes, SentOnce
      <3>2. RequestTypes' /\ reqPc'[r] \in {"fill", "err"} /\ tx[r] = "none" /\ fb[r] = "none"
        BY <2>1, <3>1 DEF RequestTypes, Places, SentOnce
      <3> QED BY <1>k, <2>1, <3>1, <3>2, Zenon DEF SentOnce, MovedByTx, Answered, OnChain
    <2>2. CASE tx' = [tx EXCEPT ![r] = "pending"] /\ reqPc' = [reqPc EXCEPT ![r] = "wait"]
      BY <1>1, <1>k, <2>2, Zenon DEF SubmitTransfer, TransferGoto, RetryNonce, RequestTypes, Places, SentOnce, MovedByTx, Answered, OnChain
    <2> QED BY <1>1, <2>1, <2>2, Zenon DEF SubmitTransfer, TransferGoto, Enter
  <1>2. CASE Receipt(r)
    BY <1>2, <1>k, Zenon DEF Receipt, AfterTopUp, TransferGoto, Enter, RequestTypes, Places, SentOnce, MovedByTx, Answered, OnChain
  <1>3. CASE Indexed(r)
    BY <1>3, <1>k DEF Indexed, TransferGoto, Enter, RequestTypes, Places, SentOnce, MovedByTx, Answered, OnChain
  <1>4. CASE CreateTransaction(r)
    BY <1>4, <1>k, Zenon DEF CreateTransaction, Enter, RequestTypes, Places, SentOnce, MovedByTx, Answered, OnChain
  <1>5. CASE Poll(r)
    BY <1>5, <1>k DEF Poll, TransferGoto, Enter, RequestTypes, Places, SentOnce, MovedByTx, Answered, Succeeded, OnChain
  <1>6. CASE LoseReceipt(r)
    BY <1>6, <1>k, Zenon DEF LoseReceipt, TransferGoto, Enter, RequestTypes, Places, SentOnce, MovedByTx, Answered, OnChain
  <1>7. CASE CallFails(r)
    BY <1>7, <1>k, Zenon DEF CallFails, TransferGoto, Enter, RequestTypes, Places, SentOnce, MovedByTx, Answered, OnChain
  <1> QED BY <1>1, <1>2, <1>3, <1>4, <1>5, <1>6, <1>7, Zenon

\* The chain or Fireblocks settles a transaction, once.
LEMMA Settles ==
    ASSUME RequestTypes, NEW r \in Requests, RequestInv(r), Environment(r)
    PROVE  RequestTypes' /\ RequestInv(r)'
  <1> USE DEF RequestInv
  <1>k. Kind[r] \in {"withdraw", "gas", "tovault", "tohot", "hyper", "sign"}
    BY CustodyAssumption
  <1>a. RoundDown(Amount[r]) \in Nat /\ VaultAmount(r) \in Nat
    BY AmountsOwed
  <1>1. CASE Mine(r)
    <2>1. tx[r] = "pending" /\ UNCHANGED <<reqPc, need, fb, unsure>>
      BY <1>1, Zenon DEF Mine, reqVars
    <2>2. \/ tx' = [tx EXCEPT ![r] = "reverted"] /\ moved' = moved
          \/ tx' = [tx EXCEPT ![r] = "mined"] /\ Kind[r] = "hyper" /\ moved' = moved
          \/ /\ tx' = [tx EXCEPT ![r] = "mined"] /\ Kind[r] # "hyper"
             /\ moved' = [moved EXCEPT ![r] = moved[r] + need[r]]
      BY <1>1, Zenon DEF Mine
    <2>3. OnChain(r) => moved[r] = 0 /\ moved[r] + need[r] = RoundDown(Amount[r])
      <3>1. OnChain(r) => moved[r] = 0 /\ need[r] = RoundDown(Amount[r])
        BY <2>1, Zenon DEF SentOnce, MovedByTx
      <3> QED BY <3>1, <1>a
    <2>4. Kind[r] # "hyper" => OnChain(r)
      BY <2>1, <1>k, Zenon DEF OnChain, SentOnce
    <2>5. \/ tx' = [tx EXCEPT ![r] = "reverted"] /\ moved' = moved
          \/ tx' = [tx EXCEPT ![r] = "mined"] /\ Kind[r] = "hyper" /\ moved' = moved
          \/ /\ tx' = [tx EXCEPT ![r] = "mined"] /\ Kind[r] # "hyper"
             /\ moved' = [moved EXCEPT ![r] = RoundDown(Amount[r])]
      BY <2>2, <2>3, <2>4, Zenon
    <2>6. RequestTypes'
      BY <1>a, <2>1, <2>5 DEF RequestTypes
    <2>7. MovedByTx(r)'
      BY <1>a, <1>k, <2>1, <2>3, <2>4, <2>5, Zenon DEF RequestTypes, MovedByTx, OnChain
    <2>8. SentOnce(r)' /\ Answered(r)'
      BY <1>k, <2>1, <2>4, <2>5, Zenon DEF RequestTypes, SentOnce, Answered, OnChain, Succeeded
    <2> QED BY <2>6, <2>7, <2>8
  <1>2. CASE VaultTransfer(r)
    <2>1. fb[r] = "pending" /\ Kind[r] # "sign" /\ UNCHANGED <<reqPc, need, tx, unsure>>
      BY <1>2, Zenon DEF VaultTransfer, reqVars
    <2>2. ~OnChain(r) /\ moved[r] = 0
      BY <2>1, Zenon DEF SentOnce, MovedByTx
    <2>3. \/ fb' = [fb EXCEPT ![r] = "failed"] /\ moved' = moved
          \/ fb' = [fb EXCEPT ![r] = "confirming"] /\ moved' = [moved EXCEPT ![r] = @ + VaultAmount(r)]
      BY <1>2, Zenon DEF VaultTransfer
    <2>4. \/ fb' = [fb EXCEPT ![r] = "failed"] /\ moved' = moved
          \/ fb' = [fb EXCEPT ![r] = "confirming"] /\ moved' = [moved EXCEPT ![r] = VaultAmount(r)]
      BY <2>2, <2>3, <1>a
    <2>5. RequestTypes'
      BY <1>a, <2>1, <2>4 DEF RequestTypes
    <2>6. MovedByTx(r)'
      BY <1>a, <2>1, <2>2, <2>4, Zenon DEF RequestTypes, MovedByTx, OnChain
    <2>7. SentOnce(r)' /\ Answered(r)'
      BY <1>k, <2>1, <2>2, <2>4, Zenon DEF RequestTypes, SentOnce, Answered, OnChain, Succeeded
    <2> QED BY <2>5, <2>6, <2>7
  <1>3. CASE VaultComplete(r)
    BY <1>3, <1>k DEF VaultComplete, reqVars, RequestTypes, SentOnce, MovedByTx, Answered, OnChain, Succeeded
  <1> QED BY <1>1, <1>2, <1>3, Zenon DEF Environment

\* Every step of a request, the chain or Fireblocks keeps the invariant.
LEMMA TransferKept == TransferInv /\ [TransferNext]_transferVars => TransferInv'
  <1>1. ASSUME TransferInv, NEW r \in Requests,
               StartTransfer(r) \/ Progress(r) \/ Environment(r) \/ LoseReceipt(r) \/ CallFails(r)
        PROVE  TransferInv'
    <2>1. RequestTypes /\ \A s \in Requests : RequestInv(s)
      BY <1>1 DEF TransferInv
    <2>2. RequestTypes' /\ RequestInv(r)'
      BY <1>1, <2>1, GoesOn, SendsAndWaits, Settles, Zenon DEF Progress
    <2>3. ASSUME NEW s \in Requests, s # r PROVE RequestInv(s)'
      BY <1>1, <2>1, <2>3, OtherRequests, Zenon
    <2> QED BY <2>2, <2>3 DEF TransferInv
  <1>2. ASSUME TransferInv, UNCHANGED transferVars PROVE TransferInv'
    BY <1>2 DEF TransferInv, transferVars, reqVars, RequestTypes, RequestInv, SentOnce, MovedByTx, Answered, Succeeded
  <1> QED BY <1>1, <1>2 DEF TransferNext

\* For every set of requests, every amount and unit, with overlap, faults, lost
\* receipts and late answers: success means the whole amount moved, an error that
\* nothing did, and nothing moves twice (withdraw_from_hot_wallet,
\* transfer_from_vault, withdraw_to_hyperliquid, poll_fireblocks_transaction).
THEOREM TransfersAreReported == TransferSpec => []TransfersAsReported
  <1>1. TransferInv => TransfersAsReported
    <2> SUFFICES ASSUME TransferInv, NEW r \in Requests
                 PROVE  /\ reqPc[r] = "ok" => /\ (moved[r] = Owed(r) \/ tx[r] = "reverted")
                                              /\ (Kind[r] = "sign" => fb[r] = "completed")
                        /\ moved[r] <= Owed(r)
                        /\ r \notin unsure /\ reqPc[r] = "err" => moved[r] = 0
      BY Zenon DEF TransfersAsReported, SuccessMeansMoved, AtMostOnce, ErrorMeansUnmoved
    <2>1. SentOnce(r) /\ MovedByTx(r) /\ Answered(r)
      BY DEF TransferInv, RequestInv
    <2>2. Kind[r] \in {"withdraw", "gas", "tovault", "tohot", "hyper", "sign"}
      BY CustodyAssumption
    <2> QED BY <2>1, <2>2, AmountsOwed DEF SentOnce, MovedByTx, Answered, Owed, OnChain, Succeeded
  <1> QED BY TransferStart, TransferKept, <1>1, PTL DEF TransferSpec

--------------------------------------------------------------------------------
(* The dealer *)

\* DealtInPairs, with the parties only told apart.
Linked ==
    \A c \in Calls : client[c] = "dealt" =>
        /\ partner[c] \in Calls /\ partner[partner[c]] = c
        /\ client[partner[c]] \in {"dealt", "gone"}
        /\ Request[partner[c]].id = Request[c].id
        /\ Request[partner[c]].body = Request[c].body
        /\ Request[partner[c]].party # Request[c].party

\* A job belongs to a valid call; the map holds open jobs under their own id;
\* a call that has not been handled has no partner and no answer.
JobsSound ==
    /\ \A c \in Calls : job[c] # "none" => Valid(c)
    /\ \A c \in Calls : client[c] \in {"waiting", "dealt", "gone"} => Valid(c)
    /\ \A c \in Calls : client[c] = "idle" => job[c] = "none"
    /\ \A c \in Calls : job[c] \in {"queued", "open"} => client[c] \in {"waiting", "gone"}
    /\ \A i \in Ids : open[i] # None =>
            /\ open[i] \in Calls /\ job[open[i]] = "open"
            /\ Request[open[i]].id = i
    /\ \A c \in Calls : job[c] \in {"none", "queued", "open"} =>
            partner[c] = None /\ client[c] # "dealt"
    /\ \A c \in Calls : partner[c] # None =>
            partner[c] \in Calls /\ job[partner[c]] = "done"

IInv == TypeOK /\ JobsSound /\ Linked

\* No call has arrived.
LEMMA InitSound == Init => IInv
  BY DealerAssumption, Zenon DEF Init, IInv, TypeOK, JobsSound, Linked, Ids

\* A call arrives.
LEMMA SubmitSound ==
  ASSUME IInv, NEW c \in Calls, Submit(c)
  PROVE  IInv'
<1>1. TypeOK'
  BY DEF IInv, TypeOK, Submit
<1>2. JobsSound'
  BY DEF IInv, TypeOK, JobsSound, Submit, Valid
<1>3. Linked'
  BY DEF IInv, TypeOK, JobsSound, Linked, Submit
<1> QED
  BY <1>1, <1>2, <1>3 DEF IInv

\* A client hangs up.
LEMMA HangUpSound ==
  ASSUME IInv, NEW c \in Calls, HangUp(c)
  PROVE  IInv'
<1>1. TypeOK'
  BY Zenon DEF IInv, TypeOK, HangUp
<1>2. JobsSound'
  BY DEF IInv, TypeOK, JobsSound, HangUp, Valid
<1>3. Linked'
  BY DEF IInv, TypeOK, JobsSound, Linked, HangUp
<1> QED
  BY <1>1, <1>2, <1>3 DEF IInv

\* A call meets a poisoned mutex and is refused.
LEMMA HandlePoisonedSound ==
  ASSUME IInv, NEW c \in Calls, HandlePoisoned(c)
  PROVE  IInv'
<1>1. TypeOK'
  BY Zenon DEF IInv, TypeOK, HandlePoisoned, Answer, Alive
<1>2. JobsSound'
  BY DEF IInv, TypeOK, JobsSound, HandlePoisoned, Answer, Alive, Valid
<1>3. Linked'
  BY Zenon DEF IInv, TypeOK, JobsSound, Linked, HandlePoisoned, Answer, Alive
<1> QED
  BY <1>1, <1>2, <1>3 DEF IInv

\* The first party of a request is stored.
LEMMA HandleFirstSound ==
  ASSUME IInv, NEW c \in Calls, HandleFirst(c)
  PROVE  IInv'
<1>0. Request[c].id \in Ids
  BY Zenon DEF Ids
<1>1. TypeOK'
  BY <1>0, Zenon DEF IInv, TypeOK, HandleFirst
<1>2. JobsSound'
  BY <1>0 DEF IInv, TypeOK, JobsSound, HandleFirst, Valid
<1>3. Linked'
  BY Zenon DEF IInv, TypeOK, JobsSound, Linked, HandleFirst
<1> QED
  BY <1>1, <1>2, <1>3 DEF IInv

\* What taking e out of the map for c establishes.
LEMMA TakeFacts ==
  ASSUME IInv, NEW c \in Calls, NEW e \in Calls, Take(c, e)
  PROVE  /\ c # e /\ Valid(c) /\ Valid(e)
         /\ Request[e].id = Request[c].id
         /\ job[c] = "queued" /\ job[e] = "open"
         /\ partner[c] = None /\ partner[e] = None
         /\ client[c] # "dealt" /\ client[e] # "dealt"
         /\ client[c] \in {"waiting", "gone"} /\ client[e] \in {"waiting", "gone"}
         /\ job' \in [Calls -> {"none", "queued", "open", "done"}]
         /\ open' \in [Ids -> Calls \cup {None}]
         /\ job'[c] = "done" /\ job'[e] = "done"
         /\ \A d \in Calls : d # c /\ d # e => job'[d] = job[d]
         /\ \A i \in Ids : open'[i] # None =>
                /\ open'[i] \in Calls /\ job'[open'[i]] = "open"
                /\ Request[open'[i]].id = i
<1>1. Request[c].id \in Ids /\ Request[e].id \in Ids
  BY Zenon DEF Ids
<1> QED
  BY <1>1 DEF IInv, TypeOK, JobsSound, Take

\* A step that takes a pair out of the map and deals to neither.
LEMMA NotDealtSound ==
  ASSUME IInv, NEW c \in Calls, NEW e \in Calls, Take(c, e),
         client' \in [Calls -> {"idle", "waiting", "gone", "dealt", "refused", "failed"}],
         \A d \in Calls : client'[d] = client[d] \/ client'[d] \in {"refused", "failed"},
         \A d \in Calls : client[d] \in {"dealt", "gone"} => client'[d] = client[d],
         \A d \in Calls : d # c /\ d # e => client'[d] = client[d],
         poisoned' \in BOOLEAN, partner' = partner
  PROVE  IInv'
<1>1. TypeOK'
  BY TakeFacts, Zenon DEF IInv, TypeOK
<1>2. JobsSound'
  <2>1. \A d \in Calls : /\ job'[d] # "none" => Valid(d)
                         /\ client'[d] \in {"waiting", "dealt", "gone"} => Valid(d)
                         /\ client'[d] = "idle" => job'[d] = "none"
    BY TakeFacts DEF IInv, JobsSound
  <2>2. \A d \in Calls : job'[d] \in {"none", "queued", "open"} =>
            partner'[d] = None /\ client'[d] # "dealt"
    BY TakeFacts DEF IInv, JobsSound
  <2>3. \A d \in Calls : job'[d] \in {"queued", "open"} => client'[d] \in {"waiting", "gone"}
    BY TakeFacts DEF IInv, JobsSound
  <2>4. \A d \in Calls : partner'[d] # None =>
            partner'[d] \in Calls /\ job'[partner'[d]] = "done"
    BY TakeFacts DEF IInv, JobsSound
  <2>5. \A i \in Ids : open'[i] # None =>
            /\ open'[i] \in Calls /\ job'[open'[i]] = "open"
            /\ Request[open'[i]].id = i
    BY TakeFacts, Zenon
  <2> QED
    BY <2>1, <2>2, <2>3, <2>4, <2>5, Zenon DEF JobsSound, Valid
<1>3. Linked'
  BY DEF IInv, TypeOK, JobsSound, Linked
<1> QED
  BY <1>1, <1>2, <1>3, Zenon DEF IInv

\* The second party asks for something else: neither is dealt to.
LEMMA HandleMismatchSound ==
  ASSUME IInv, NEW c \in Calls, NEW e \in Calls, HandleMismatch(c, e)
  PROVE  IInv'
<1>1. Take(c, e)
  BY DEF HandleMismatch
<1>2. client' \in [Calls -> {"idle", "waiting", "gone", "dealt", "refused", "failed"}]
  BY Zenon DEF IInv, TypeOK, HandleMismatch, Answer, Alive
<1>3. \A d \in Calls : client'[d] = client[d] \/ client'[d] \in {"refused", "failed"}
  BY Zenon DEF HandleMismatch, Answer, Alive
<1>4. \A d \in Calls : /\ client[d] \in {"dealt", "gone"} => client'[d] = client[d]
                       /\ d # c /\ d # e => client'[d] = client[d]
  BY Zenon DEF HandleMismatch, Answer, Alive
<1>5. poisoned' \in BOOLEAN /\ partner' = partner
  BY DEF HandleMismatch
<1> QED
  BY <1>1, <1>2, <1>3, <1>4, <1>5, NotDealtSound

\* The second call is from the same party.
LEMMA HandleDuplicateSound ==
  ASSUME IInv, NEW c \in Calls, NEW e \in Calls, HandleDuplicate(c, e)
  PROVE  IInv'
<1>1. Take(c, e)
  BY Zenon DEF HandleDuplicate
<1>2. client' \in [Calls -> {"idle", "waiting", "gone", "dealt", "refused", "failed"}]
  BY Zenon DEF IInv, TypeOK, HandleDuplicate, Answer, Alive
<1>3. \A d \in Calls : client'[d] = client[d] \/ client'[d] \in {"refused", "failed"}
  BY Zenon DEF HandleDuplicate, Answer, Alive
<1>4. \A d \in Calls : /\ client[d] \in {"dealt", "gone"} => client'[d] = client[d]
                       /\ d # c /\ d # e => client'[d] = client[d]
  BY Zenon DEF HandleDuplicate, Answer, Alive
<1>5. poisoned' \in BOOLEAN /\ partner' = partner
  BY Zenon DEF HandleDuplicate
<1> QED
  BY <1>1, <1>2, <1>3, <1>4, <1>5, NotDealtSound

\* The open call was still there: both get their half, or the newcomer is gone.
LEMMA PairDealtSound ==
  ASSUME IInv, NEW c \in Calls, NEW e \in Calls, HandlePair(c, e), Alive(e)
  PROVE  IInv'
<1>1. Take(c, e) /\ SameBody(c, e) /\ Request[c].party # Request[e].party
  BY Zenon DEF HandlePair
<1>2. /\ client' \in [Calls -> {"idle", "waiting", "gone", "dealt", "refused", "failed"}]
      /\ client'[e] = "dealt"
      /\ client'[c] = IF client[c] = "waiting" THEN "dealt" ELSE client[c]
      /\ \A d \in Calls : d # c /\ d # e => client'[d] = client[d]
  BY Zenon DEF IInv, TypeOK, HandlePair, Answer, Alive
<1>3. /\ partner' \in [Calls -> Calls \cup {None}]
      /\ partner'[c] = e /\ partner'[e] = c
      /\ \A d \in Calls : d # c /\ d # e => partner'[d] = partner[d]
  BY <1>1, TakeFacts DEF IInv, TypeOK, HandlePair
<1>4. poisoned' \in BOOLEAN
  BY Zenon DEF HandlePair
<1>5. TypeOK'
  BY <1>1, <1>2, <1>3, <1>4, TakeFacts, Zenon DEF TypeOK
<1>6. JobsSound'
  <2>1. ASSUME NEW d \in Calls
        PROVE  /\ job'[d] # "none" => Valid(d)
               /\ client'[d] \in {"waiting", "dealt", "gone"} => Valid(d)
               /\ client'[d] = "idle" => job'[d] = "none"
               /\ job'[d] \in {"none", "queued", "open"} => partner'[d] = None /\ client'[d] # "dealt"
               /\ job'[d] \in {"queued", "open"} => client'[d] \in {"waiting", "gone"}
               /\ partner'[d] # None => partner'[d] \in Calls /\ job'[partner'[d]] = "done"
    <3>1. CASE d \in {c, e}
      BY <3>1, <1>1, <1>2, <1>3, TakeFacts
    <3>2. CASE d \notin {c, e}
      <4>1. job'[d] = job[d] /\ client'[d] = client[d] /\ partner'[d] = partner[d]
        BY <3>2, <1>1, <1>2, <1>3, TakeFacts
      <4>2. partner[d] # None => partner[d] \in Calls /\ job'[partner[d]] = "done"
        BY <1>1, TakeFacts DEF IInv, JobsSound
      <4> QED BY <4>1, <4>2 DEF IInv, JobsSound
    <3> QED BY <3>1, <3>2, Zenon
  <2>2. \A i \in Ids : open'[i] # None =>
            /\ open'[i] \in Calls /\ job'[open'[i]] = "open"
            /\ Request[open'[i]].id = i
    BY <1>1, TakeFacts, Zenon
  <2> QED
    BY <2>1, <2>2, Zenon DEF JobsSound, Valid
<1>7. client'[c] \in {"dealt", "gone"}
  BY <1>1, <1>2, TakeFacts
<1>8. Linked'
  <2> SUFFICES ASSUME NEW d \in Calls, client'[d] = "dealt"
               PROVE  /\ partner'[d] \in Calls /\ partner'[partner'[d]] = d
                      /\ client'[partner'[d]] \in {"dealt", "gone"}
                      /\ Request[partner'[d]].id = Request[d].id
                      /\ Request[partner'[d]].body = Request[d].body
                      /\ Request[partner'[d]].party # Request[d].party
    BY Zenon DEF Linked
  <2>1. CASE d = c
    BY <2>1, <1>1, <1>2, <1>3, TakeFacts, Zenon DEF SameBody
  <2>2. CASE d = e
    BY <2>2, <1>1, <1>2, <1>3, <1>7, TakeFacts DEF SameBody
  <2>3. CASE d # c /\ d # e
    <3>1. partner[d] # c /\ partner[d] # e
      <4>1. client[d] = "dealt"
        BY <2>3, <1>2
      <4>2. partner[partner[d]] = d
        BY <4>1, Zenon DEF IInv, Linked
      <4>3. partner[c] = None /\ partner[e] = None
        BY <1>1, TakeFacts, Zenon
      <4> QED
        BY <4>2, <4>3, DealerAssumption
    <3> QED
      BY <3>1, <2>3, <1>2, <1>3 DEF IInv, Linked
  <2> QED
    BY <2>1, <2>2, <2>3, Zenon
<1> QED
  BY <1>5, <1>6, <1>8 DEF IInv

\* The open call was gone: the newcomer's channel is dropped.
LEMMA PairLostSound ==
  ASSUME IInv, NEW c \in Calls, NEW e \in Calls, HandlePair(c, e), ~Alive(e)
  PROVE  IInv'
<1>1. Take(c, e)
  BY Zenon DEF HandlePair
<1>2. client' \in [Calls -> {"idle", "waiting", "gone", "dealt", "refused", "failed"}]
  BY Zenon DEF IInv, TypeOK, HandlePair, Answer, Alive
<1>3. \A d \in Calls : client'[d] = client[d] \/ client'[d] \in {"refused", "failed"}
  BY Zenon DEF HandlePair, Answer, Alive
<1>4. \A d \in Calls : /\ client[d] \in {"dealt", "gone"} => client'[d] = client[d]
                       /\ d # c /\ d # e => client'[d] = client[d]
  BY Zenon DEF HandlePair, Answer, Alive
<1>5. poisoned' \in BOOLEAN /\ partner' = partner
  BY DEF HandlePair
<1> QED
  BY <1>1, <1>2, <1>3, <1>4, <1>5, NotDealtSound

\* Every step keeps the invariant.
LEMMA NextSound == IInv /\ [Next]_vars => IInv'
<1> SUFFICES ASSUME IInv, [Next]_vars PROVE IInv'
  OBVIOUS
<1>1. CASE UNCHANGED vars
  BY <1>1 DEF vars, IInv, TypeOK, JobsSound, Linked, Valid
<1>2. CASE \E c \in Calls : Submit(c) \/ HangUp(c)
  BY <1>2, SubmitSound, HangUpSound
<1>3. CASE \E c \in Calls : Handle(c)
  <2> PICK c \in Calls : Handle(c)
    BY <1>3
  <2>1. CASE HandlePoisoned(c) \/ HandleFirst(c)
    BY <2>1, HandlePoisonedSound, HandleFirstSound
  <2>2. ASSUME NEW e \in Calls, HandleMismatch(c, e) \/ HandleDuplicate(c, e)
        PROVE  IInv'
    BY <2>2, HandleMismatchSound, HandleDuplicateSound
  <2>3. ASSUME NEW e \in Calls, HandlePair(c, e)
        PROVE  IInv'
    BY <2>3, PairDealtSound, PairLostSound
  <2> QED
    BY <2>1, <2>2, <2>3 DEF Handle
<1> QED
  BY <1>1, <1>2, <1>3 DEF Next

\* The invariant is stronger than DealtInPairs.
LEMMA LinkedInPairs == IInv => DealtInPairs
<1> SUFFICES ASSUME IInv, NEW c \in Calls, client[c] = "dealt"
             PROVE  LET d == partner[c]
                    IN  /\ d \in Calls /\ partner[d] = c
                        /\ client[d] \in {"dealt", "gone"}
                        /\ Request[d].id = Request[c].id
                        /\ Request[d].body = Request[c].body
                        /\ {Request[c].party, Request[d].party} = Parties
  BY Zenon DEF DealtInPairs
<1>1. partner[c] \in Calls /\ Request[partner[c]].party # Request[c].party
  BY Zenon DEF IInv, Linked
<1>2. Valid(c) /\ Valid(partner[c])
  BY <1>1, Zenon DEF IInv, JobsSound, Linked
<1>3. {Request[c].party, Request[partner[c]].party} = Parties
  BY <1>1, <1>2, Zenon DEF Valid, Parties
<1> QED
  BY <1>3, Zenon DEF IInv, Linked

\* Whatever calls arrive, repeat, disagree or hang up, and however the poisoned
\* mutex makes jobs fail, a dealt call and its partner are the two parties of
\* one request (handle_request, handle_ready_pair).
THEOREM DealsPairs == Spec => []DealtInPairs
<1>1. Init => IInv
  BY InitSound
<1>2. IInv /\ [Next]_vars => IInv'
  BY NextSound
<1>3. IInv => DealtInPairs
  BY LinkedInPairs
<1> QED
  BY <1>1, <1>2, <1>3, PTL DEF Spec



\* The field is closed under subtraction.
LEMMA SubType ==
  ASSUME NEW v \in Scalar, NEW r \in Scalar
  PROVE  Sub(v, r) \in Scalar
  BY PAssumption DEF Sub, Scalar

\* gen_secret_shares: the two shares of a value add up to it.
LEMMA SharesOpen ==
  ASSUME NEW v \in Scalar, NEW r \in Scalar
  PROVE  Add(r, Sub(v, r)) = v
  BY PAssumption DEF Add, Sub, Scalar

\* The field is closed under addition.
LEMMA AddType ==
  ASSUME NEW a \in Scalar, NEW b \in Scalar
  PROVE  Add(a, b) \in Scalar
  BY PAssumption DEF Add, Scalar

\* The field is closed under multiplication.
LEMMA MulType ==
  ASSUME NEW a \in Scalar, NEW b \in Scalar
  PROVE  Mul(a, b) \in Scalar
<1>1. a * b \in Nat /\ P \in Nat /\ P > 0
  BY PAssumption DEF Scalar
<1> DEFINE m == a * b
<1>2. m % P \in 0..(P - 1)
  <2> HIDE DEF m
  <2>1. m \in Nat
    BY <1>1 DEF m
  <2> QED
    BY <2>1, <1>1
<1> QED
  BY <1>2 DEF Mul, Scalar

\* A nonzero element of a prime field has an inverse.
LEMMA InverseIs ==
  ASSUME NEW a \in Scalar \ {0}
  PROVE  MulInverse(a) \in Scalar /\ Mul(a, MulInverse(a)) = 1
<1>1. \E b \in Scalar : Mul(a, b) = 1
  BY FieldAssumption
<1> QED
  BY <1>1 DEF MulInverse

KeyType == key \in Scalar \X Scalar

\* The MAC key is a field element.
LEMMA MacKeyType == KeyType => MacKey \in Scalar
  BY AddType DEF KeyType, MacKey

\* One call of gen_authenticated_secret_shares: each value dealt, and its MAC,
\* is the sum of what the two parties hold of it.
LEMMA DealOpens ==
  ASSUME KeyType, NEW n \in 1..3, NEW vs \in [1..n -> Scalar],
         NEW at \in [1..n -> 1..n], NEW name,
         \A i \in 1..n : at[at[i]] = i,
         Deal(name, vs, at)
  PROVE  /\ DOMAIN one' = 1..n
         /\ \A i \in 1..n : /\ Add(one'[i].val, two'[at[i]].val) = vs[i]
                            /\ Add(one'[i].mac, two'[at[i]].mac) = Mul(vs[i], MacKey)
<1>1. PICK rs \in [DOMAIN vs -> Scalar], qs \in [DOMAIN vs -> Scalar] :
        /\ one' = [i \in DOMAIN vs |-> FirstShare(rs[i], qs[i])]
        /\ two' = [i \in DOMAIN vs |->
                    SecondShare(vs[at[i]], MacKey, rs[at[i]], qs[at[i]])]
  BY Zenon DEF Deal
<1>2. \A i \in 1..n : one'[i] = FirstShare(rs[i], qs[i])
  BY <1>1, Zenon
<1>3. \A i \in 1..n : two'[at[i]] = SecondShare(vs[i], MacKey, rs[i], qs[i])
  BY <1>1, Zenon
<1>4. ASSUME NEW i \in 1..n
      PROVE  /\ Add(one'[i].val, two'[at[i]].val) = vs[i]
             /\ Add(one'[i].mac, two'[at[i]].mac) = Mul(vs[i], MacKey)
  <2>1. vs[i] \in Scalar /\ rs[i] \in Scalar /\ qs[i] \in Scalar
    OBVIOUS
  <2>2. Mul(vs[i], MacKey) \in Scalar
    BY <2>1, MulType, MacKeyType, Zenon
  <2>3. /\ one'[i].val = rs[i] /\ one'[i].mac = qs[i]
        /\ two'[at[i]].val = Sub(vs[i], rs[i])
        /\ two'[at[i]].mac = Sub(Mul(vs[i], MacKey), qs[i])
    <3>1. one'[i] = [val |-> rs[i], mac |-> qs[i]]
      BY <1>2, Zenon DEF FirstShare
    <3>2. two'[at[i]] = [val |-> Sub(vs[i], rs[i]), mac |-> Sub(Mul(vs[i], MacKey), qs[i])]
      BY <1>3, Zenon DEF SecondShare
    <3> QED
      BY <3>1, <3>2
  <2> QED
    BY <2>1, <2>2, <2>3, SharesOpen
<1> QED
  BY <1>1, <1>4, Zenon

SInv == KeyType /\ (kind = "none" => one = <<>>) /\ MacsVerify /\ Correlated

\* The shares of the MAC key open to it.
LEMMA InitShares == DrawKey => SInv
<1> SUFFICES ASSUME DrawKey PROVE SInv
  OBVIOUS
<1>1. KeyType
  BY SubType DEF DrawKey, KeyType
<1>2. kind = "none" /\ one = <<>>
  BY DEF DrawKey
<1>3. MacsVerify
  BY <1>2 DEF MacsVerify
<1> QED
  BY <1>1, <1>2, <1>3 DEF SInv, Correlated

\* A batch whose two responses are in the same order.
LEMMA SameOrder ==
  ASSUME KeyType, NEW n \in 1..3, NEW vs \in [1..n -> Scalar],
         NEW at \in [1..n -> 1..n], \A i \in 1..n : at[i] = i,
         NEW name, name # "masks", Deal(name, vs, at)
  PROVE  /\ KeyType' /\ MacsVerify' /\ kind' = name
         /\ \A i \in 1..n : Opened(i)' = vs[i]
<1>1. kind' = name /\ key' = key
  BY Zenon DEF Deal
<1>2. /\ DOMAIN one' = 1..n
      /\ \A i \in 1..n : /\ Add(one'[i].val, two'[at[i]].val) = vs[i]
                         /\ Add(one'[i].mac, two'[at[i]].mac) = Mul(vs[i], MacKey)
  BY DealOpens, Zenon
<1>3. MacKey' = MacKey
  BY <1>1 DEF MacKey
<1>4. \A i \in 1..n : Opened(i)' = vs[i] /\ OpenedMac(i)' = Mul(vs[i], MacKey)
  BY <1>1, <1>2, Zenon DEF Opened, OpenedMac, Place
<1>5. MacsVerify'
  BY <1>2, <1>3, <1>4, Zenon DEF MacsVerify
<1> QED
  BY <1>1, <1>4, <1>5, Zenon DEF KeyType

\* Random bits open to bits.
LEMMA BitsShares == SInv /\ GenRandomBits => SInv'
<1> SUFFICES ASSUME SInv, NEW b \in {0, 1}, Deal("bits", <<b>>, << 1 >>)
             PROVE  SInv'
  BY DEF GenRandomBits
<1>1. /\ <<b>> \in [1..1 -> Scalar] /\ << 1 >> \in [1..1 -> 1..1]
      /\ \A i \in 1..1 : << 1 >>[i] = i
  BY PAssumption DEF Scalar
<1>2. KeyType' /\ MacsVerify' /\ kind' = "bits" /\ \A i \in 1..1 : Opened(i)' = <<b>>[i]
  BY <1>1, SameOrder DEF SInv
<1> QED
  BY <1>2 DEF SInv, Correlated

\* Random values open to what was drawn.
LEMMA ValuesShares == SInv /\ GenRandomValues => SInv'
<1> SUFFICES ASSUME SInv, NEW v \in Scalar, Deal("values", <<v>>, << 1 >>)
             PROVE  SInv'
  BY DEF GenRandomValues
<1>1. /\ <<v>> \in [1..1 -> Scalar] /\ << 1 >> \in [1..1 -> 1..1]
      /\ \A i \in 1..1 : << 1 >>[i] = i
  OBVIOUS
<1>2. KeyType' /\ MacsVerify' /\ kind' = "values"
  BY <1>1, SameOrder DEF SInv
<1> QED
  BY <1>2, Zenon DEF SInv, Correlated

\* Inverse pairs open to a value and its inverse.
LEMMA InversesShares == SInv /\ GenInversePairs => SInv'
<1> SUFFICES ASSUME SInv, NEW r \in Scalar \ {0},
                    Deal("inverses", <<r, MulInverse(r)>>, <<1, 2>>)
             PROVE  SInv'
  BY DEF GenInversePairs
<1> DEFINE q == MulInverse(r)
<1>0. q \in Scalar /\ Mul(r, q) = 1
  BY InverseIs
<1> HIDE DEF q
<1>1. /\ <<r, q>> \in [1..2 -> Scalar] /\ <<1, 2>> \in [1..2 -> 1..2]
      /\ \A i \in 1..2 : <<1, 2>>[i] = i
  BY <1>0
<1>2. Deal("inverses", <<r, q>>, <<1, 2>>)
  BY DEF q
<1>3. KeyType' /\ MacsVerify' /\ kind' = "inverses" /\ \A i \in 1..2 : Opened(i)' = <<r, q>>[i]
  BY <1>1, <1>2, SameOrder DEF SInv
<1> QED
  BY <1>0, <1>3 DEF SInv, Correlated

\* Triples open to two values and their product.
LEMMA TriplesShares == SInv /\ GenTriples => SInv'
<1> SUFFICES ASSUME SInv, NEW a \in Scalar, NEW b \in Scalar,
                    Deal("triples", <<a, b, Mul(a, b)>>, <<1, 2, 3>>)
             PROVE  SInv'
  BY DEF GenTriples
<1> DEFINE c == Mul(a, b)
<1>0. c \in Scalar
  BY MulType
<1>1. Deal("triples", <<a, b, c>>, <<1, 2, 3>>)
  OBVIOUS
<1> HIDE DEF c
<1>2. /\ <<a, b, c>> \in [1..3 -> Scalar] /\ <<1, 2, 3>> \in [1..3 -> 1..3]
      /\ \A i \in 1..3 : <<1, 2, 3>>[i] = i
  BY <1>0
<1>3. /\ KeyType' /\ MacsVerify' /\ kind' = "triples"
      /\ \A i \in 1..3 : Opened(i)' = <<a, b, c>>[i]
  BY <1>1, <1>2, SameOrder DEF SInv
<1>4. Opened(1)' = a /\ Opened(2)' = b /\ Opened(3)' = Mul(a, b)
  BY <1>3 DEF c
<1> QED
  BY <1>3, <1>4, Zenon DEF SInv, Correlated

\* The second party has its own mask first.
LEMMA MasksShares == SInv /\ GenInputMasks => SInv'
<1> SUFFICES ASSUME SInv, NEW u \in Scalar, NEW v \in Scalar,
                    Deal("masks", <<u, v>>, <<2, 1>>), masks' = <<u, v>>
             PROVE  SInv'
  BY DEF GenInputMasks
<1>1. /\ <<u, v>> \in [1..2 -> Scalar] /\ <<2, 1>> \in [1..2 -> 1..2]
      /\ \A i \in 1..2 : <<2, 1>>[<<2, 1>>[i]] = i
      /\ \A i \in 1..2 : <<2, 1>>[i] = 3 - i
  OBVIOUS
<1>2. kind' = "masks" /\ key' = key
  BY Zenon DEF Deal
<1>3. MacKey' = MacKey
  BY <1>2 DEF MacKey
<1>4. /\ DOMAIN one' = 1..2
      /\ \A i \in 1..2 :
            /\ Add(one'[i].val, two'[<<2, 1>>[i]].val) = <<u, v>>[i]
            /\ Add(one'[i].mac, two'[<<2, 1>>[i]].mac) = Mul(<<u, v>>[i], MacKey)
  BY <1>1, DealOpens DEF SInv
<1>5. \A i \in 1..2 : /\ Opened(i)' = <<u, v>>[i]
                     /\ OpenedMac(i)' = Mul(<<u, v>>[i], MacKey)
  BY <1>1, <1>2, <1>4, Zenon DEF Opened, OpenedMac, Place
<1>6. MacsVerify'
  BY <1>3, <1>4, <1>5, Zenon DEF MacsVerify
<1>7. <<Opened(1)', Opened(2)'>> = masks'
  BY <1>5
<1> QED
  BY <1>2, <1>6, <1>7, Zenon DEF SInv, KeyType, Correlated

\* Whatever the dealer draws, what the two parties hold opens to MAC-checked
\* values with the correlation the offline phase asks for (gen_random_bits,
\* gen_random_values, gen_input_masks, gen_inverse_pairs, gen_triples).
THEOREM SharesSound == DealSpec => []SharesCorrelated
<1>1. DrawKey => SInv
  BY InitShares
<1>2. SInv /\ [DealNext]_shareVars => SInv'
  <2> SUFFICES ASSUME SInv, [DealNext]_shareVars PROVE SInv'
    OBVIOUS
  <2>1. CASE UNCHANGED shareVars
    <3>1. KeyType' /\ (kind' = "none" => one' = <<>>)
      BY <2>1 DEF SInv, KeyType, shareVars
    <3>2. MacsVerify' /\ Correlated'
      BY <2>1, Zenon DEF SInv, shareVars, MacsVerify, Correlated, Opened, OpenedMac, Place, MacKey
    <3> QED
      BY <3>1, <3>2 DEF SInv
  <2> QED
    BY <2>1, BitsShares, ValuesShares, InversesShares, TriplesShares, MasksShares DEF DealNext
<1>3. SInv => SharesCorrelated
  BY DEF SInv, SharesCorrelated
<1> QED
  BY <1>1, <1>2, <1>3, PTL DEF DealSpec
===================================================================================
