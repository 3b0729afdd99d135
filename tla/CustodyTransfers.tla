---- MODULE CustodyTransfers ----
(***************************************************************************)
(* Moving custodied funds (funds-manager, custody_client): withdrawals     *)
(* from a hot wallet, gas withdrawals, transfers between a hot wallet and  *)
(* its Fireblocks vault, bridging USDC to Hyperliquid, and the signing of  *)
(* typed data with the Hyperliquid key.  A request checks a balance, sends *)
(* an on-chain transaction with a nonce fetched for it, or creates a       *)
(* Fireblocks transaction and polls it until a deadline.  Requests run     *)
(* concurrently on shared balances.                                        *)
(*                                                                         *)
(* Amounts asked for are in fractions of a token's smallest unit, which is *)
(* Unit of them: balances are whole units, a request need not be.          *)
(***************************************************************************)
EXTENDS Integers, FiniteSets

CONSTANTS
  Requests,    \* the requests
  Kind,        \* withdraw, gas, tovault, tohot, hyper or sign, for each request
  Amount,      \* the amount of each request
  PriceKnown,  \* requests whose mint has a price at the reporter
  ValidData,   \* sign requests for the Hyperliquid account and domain
  Funds,       \* the initial balances
  Unit,        \* fractions in a smallest unit
  MaxValue,    \* MAX_WITHDRAWAL_VALUE
  MaxGas,      \* max_gas_withdrawal_amount
  MinDeposit,  \* MIN_HYPERLIQUID_DEPOSIT_AMOUNT
  MaxRetries,  \* TX_MAX_RETRIES
  Deadline,    \* polls before the deadline of a Fireblocks transaction
  Overlap,     \* TRUE: requests may overlap
  Slow,        \* TRUE: Fireblocks may take longer than the deadline
  Rejects,     \* TRUE: Fireblocks may fail a transaction it could carry out
  CustodyFaults       \* TRUE: a call to the node or to Fireblocks may fail

ASSUME CustodyAssumption ==
  /\ Kind \in [Requests -> {"withdraw", "gas", "tovault", "tohot", "hyper", "sign"}]
  /\ Amount \in [Requests -> Nat] /\ Unit \in Nat \ {0}

Accounts == {"quoter", "gas", "vault", "hyper", "bridge", "out"}

VARIABLES
  bal,     \* balances, on chain and in the vaults
  count,   \* transactions mined of each hot wallet: its next nonce
  reqPc,   \* how far each request is
  seenBal, \* the vault balance it read
  need,    \* the value of its on-chain transaction
  slot,    \* the nonce of its on-chain transaction
  chances, \* submissions, or polls, it has left
  tx,      \* the status of its on-chain transaction
  fb,      \* the status of the Fireblocks transaction of each request
  known,   \* the Fireblocks metadata cached: vault and asset ids, deposit addresses
  moved,   \* history: how much each request moved to its final destination
  unsure   \* history: requests that ended without the outcome of their transaction

reqVars == <<reqPc, seenBal, need, slot, chances>>
transferVars == <<bal, count, reqVars, tx, fb, known, moved, unsure>>

TransferInit ==
  /\ bal = Funds
  /\ count = [w \in {"quoter", "gas"} |-> 0]
  /\ reqPc = [r \in Requests |-> "idle"]
  /\ seenBal = [r \in Requests |-> 0] /\ need = [r \in Requests |-> 0]
  /\ slot = [r \in Requests |-> 0] /\ chances = [r \in Requests |-> 0]
  /\ tx = [r \in Requests |-> "none"]
  /\ fb = [r \in Requests |-> "none"]
  /\ known = {}
  /\ moved = [r \in Requests |-> 0]
  /\ unsure = {}

Wallet(r) == IF Kind[r] = "gas" THEN "gas" ELSE "quoter"
ChainDest(r) == CASE Kind[r] \in {"withdraw", "gas"} -> "out"
                  [] Kind[r] = "tovault" -> "vault"
                  [] OTHER -> "hyper"
VaultSource(r) == IF Kind[r] = "tohot" THEN "vault" ELSE "hyper"
VaultDest(r) == IF Kind[r] = "tohot" THEN "quoter" ELSE "bridge"

Ended(r) == reqPc[r] \in {"ok", "err"}
Running(r) == reqPc[r] /= "idle" /\ ~Ended(r)
Enter(r, place) == reqPc' = [reqPc EXCEPT ![r] = place]
TransferGoto(r, place) == Enter(r, place) /\ UNCHANGED <<seenBal, need, slot, chances>>

(* parse_units drops the digits below the smallest unit. *)
RoundDown(n) == (n \div Unit) * Unit

-----------------------------------------------------------------------------
(* Mutated forms of the definitions below. *)

RoundUpDown(n) == (n \div Unit) * Unit

(* A lost receipt is taken for a transaction to send again. *)
LoseReceiptRetry(r) ==
  /\ CustodyFaults
  /\ reqPc[r] = "wait"
  /\ TransferGoto(r, "fill")
  /\ UNCHANGED <<bal, count, tx, fb, known, moved, unsure>>

(* A nonce error is retried for as long as it takes. *)
RetryNonceForever(r) == TransferGoto(r, "submit")

-----------------------------------------------------------------------------
(* Starting a request: the checks of the handlers *)

(* round_up: to the next multiple of the smallest unit. *)
RoundUp(n) == RoundDown(n + Unit - 1)

(* quoter_withdraw_handler: a withdrawal worth more than the maximum is      *)
(* refused if the price is known, and let through if it is not.              *)
AllowedWithdrawal(r) == Kind[r] = "withdraw" => ~(r \in PriceKnown /\ Amount[r] > MaxValue)

(* withdraw_gas_handler *)
AllowedGas(r) == Kind[r] = "gas" => Amount[r] <= MaxGas

(* withdraw_to_hyperliquid_handler *)
AllowedDeposit(r) == Kind[r] = "hyper" => Amount[r] >= MinDeposit

StartTransfer(r) ==
  /\ reqPc[r] = "idle"
  /\ Overlap \/ \A q \in Requests : ~Running(q)
  /\ TransferGoto(r, IF AllowedWithdrawal(r) /\ AllowedGas(r) /\ AllowedDeposit(r)
             THEN IF Kind[r] = "tohot" THEN "read" ELSE "lookup"
             ELSE "err")
  /\ UNCHANGED <<bal, count, tx, fb, known, moved, unsure>>

(* withdraw_from_fireblocks loads the vault account, its balances with it,  *)
(* before it looks up the asset.                                            *)
ReadVault(r) ==
  /\ reqPc[r] = "read"
  /\ Enter(r, "lookup")
  /\ seenBal' = [seenBal EXCEPT ![r] = bal["vault"]]
  /\ UNCHANGED <<need, slot, chances>>
  /\ UNCHANGED <<bal, count, tx, fb, known, moved, unsure>>

(* The metadata a request needs from Fireblocks. *)
Metadata(r) ==
  CASE Kind[r] \in {"withdraw", "gas"} -> {}
    [] Kind[r] = "tovault" -> {"address"}
    [] Kind[r] = "tohot" -> {"asset"}
    [] Kind[r] = "hyper" -> {"vaultid", "address", "asset"}
    [] Kind[r] = "sign" -> {"vaultid", "address"}

(* What fetching an entry also puts into the caches: the deposit address of *)
(* a mint is looked up by its asset id.                                     *)
Fetched(m) == IF m = "address" THEN {"address", "asset"} ELSE {m}

(* One entry is fetched and cached. *)
FetchMetadata(r) ==
  /\ reqPc[r] = "lookup"
  /\ \E m \in Metadata(r) \ known : known' = known \cup Fetched(m)
  /\ UNCHANGED <<bal, count, reqVars, tx, fb, moved, unsure>>

(* validate_signing_account and validate_domain *)
ValidRequest(r) == Kind[r] = "sign" => r \in ValidData

AfterLookup(r) ==
  CASE Kind[r] \in {"withdraw", "gas", "hyper"} -> "check"
    [] Kind[r] = "tovault" -> "fill"
    [] Kind[r] = "tohot" -> "check"
    [] Kind[r] = "sign" -> "create"

(* The hot wallet's row, its key and the metadata are at hand. *)
Lookup(r) ==
  /\ reqPc[r] = "lookup"
  /\ Metadata(r) \subseteq known
  /\ Enter(r, IF ValidRequest(r) THEN AfterLookup(r) ELSE "err")
  /\ need' = [need EXCEPT ![r] = RoundDown(Amount[r])]
  /\ chances' = [chances EXCEPT ![r] = MaxRetries]
  /\ UNCHANGED <<seenBal, slot>>
  /\ UNCHANGED <<bal, count, tx, fb, known, moved, unsure>>

-----------------------------------------------------------------------------
(* Balance checks *)

Enough(held, wanted) == held >= wanted

(* withdraw_from_hot_wallet and withdraw_gas: the wallet's balance. *)
CheckWallet(r) ==
  /\ reqPc[r] = "check"
  /\ Kind[r] \in {"withdraw", "gas"}
  /\ TransferGoto(r, IF Enough(bal[Wallet(r)], Amount[r]) THEN "fill" ELSE "err")
  /\ UNCHANGED <<bal, count, tx, fb, known, moved, unsure>>

(* withdraw_from_fireblocks: the available balance read with the vault. *)
CheckVault(r) ==
  /\ reqPc[r] = "check"
  /\ Kind[r] = "tohot"
  /\ TransferGoto(r, IF Enough(seenBal[r], Amount[r]) THEN "create" ELSE "err")
  /\ UNCHANGED <<bal, count, tx, fb, known, moved, unsure>>

(* What the hot wallet adds to the Hyperliquid account. *)
TopUp(amount, available) == RoundUp(RoundUp(amount) - available)

(* withdraw_to_hyperliquid: the account's available balance, and, when that *)
(* is less than the amount asked for, what the hot wallet has to add.       *)
CheckHyper(r) ==
  /\ reqPc[r] = "check"
  /\ Kind[r] = "hyper"
  /\ LET available == bal["hyper"] IN
       \/ /\ available < Amount[r]
          /\ Enter(r, "topup")
          /\ need' = [need EXCEPT ![r] = TopUp(Amount[r], available)]
       \/ /\ available >= Amount[r]
          /\ Enter(r, "create")
          /\ UNCHANGED need
  /\ UNCHANGED <<seenBal, slot, chances>>
  /\ UNCHANGED <<bal, count, tx, fb, known, moved, unsure>>

(* The quoter hot wallet's balance covers the top-up. *)
CheckTopUp(r) ==
  /\ reqPc[r] = "topup"
  /\ TransferGoto(r, IF Enough(bal["quoter"], need[r]) THEN "fill" ELSE "err")
  /\ UNCHANGED <<bal, count, tx, fb, known, moved, unsure>>

-----------------------------------------------------------------------------
(* send_tx_with_retry *)

Pending(w) == {q \in Requests : tx[q] = "pending" /\ Wallet(q) = w}

(* The provider fetches the nonce, pending transactions included, and       *)
(* estimates the gas: a transfer that would fail now is not sent.           *)
Fill(r) ==
  /\ reqPc[r] = "fill"
  /\ \/ /\ bal[Wallet(r)] >= need[r]
        /\ Enter(r, "submit")
        /\ slot' = [slot EXCEPT ![r] = count[Wallet(r)] + Cardinality(Pending(Wallet(r)))]
     \/ /\ bal[Wallet(r)] < need[r]
        /\ Enter(r, "err")
        /\ UNCHANGED slot
  /\ UNCHANGED <<seenBal, need, chances>>
  /\ UNCHANGED <<bal, count, tx, fb, known, moved, unsure>>

(* A nonce too low is fetched anew, up to the number of retries. *)
RetryNonce(r) ==
  \/ chances[r] = 1 /\ TransferGoto(r, "err")
  \/ /\ chances[r] /= 1
     /\ Enter(r, "fill")
     /\ chances' = [chances EXCEPT ![r] = @ - 1]
     /\ UNCHANGED <<seenBal, need, slot>>

(* The node takes the transaction, reports its nonce as too low, or refuses *)
(* it as a replacement of a pending one.                                    *)
SubmitTransfer(r) ==
  /\ reqPc[r] = "submit"
  /\ \/ /\ slot[r] < count[Wallet(r)]
        /\ RetryNonce(r)
        /\ UNCHANGED tx
     \/ /\ slot[r] >= count[Wallet(r)]
        /\ \E q \in Pending(Wallet(r)) : slot[q] = slot[r]
        /\ TransferGoto(r, "err")
        /\ UNCHANGED tx
     \/ /\ slot[r] >= count[Wallet(r)]
        /\ \A q \in Pending(Wallet(r)) : slot[q] /= slot[r]
        /\ tx' = [tx EXCEPT ![r] = "pending"]
        /\ TransferGoto(r, "wait")
  /\ UNCHANGED <<bal, count, fb, known, moved, unsure>>

(* The chain includes the wallet's next transaction; a transfer of more     *)
(* than the wallet holds by then reverts.                                   *)
Mine(r) ==
  /\ tx[r] = "pending"
  /\ slot[r] = count[Wallet(r)]
  /\ count' = [count EXCEPT ![Wallet(r)] = @ + 1]
  /\ LET v == need[r]
         good == bal[Wallet(r)] >= v
     IN /\ tx' = [tx EXCEPT ![r] = IF good THEN "mined" ELSE "reverted"]
        /\ bal' = IF good THEN [bal EXCEPT ![Wallet(r)] = @ - v, ![ChainDest(r)] = @ + v] ELSE bal
        /\ moved' = IF good /\ Kind[r] /= "hyper" THEN [moved EXCEPT ![r] = @ + v] ELSE moved
  /\ UNCHANGED <<reqVars, fb, known, unsure>>

(* After the top-up, poll_fireblocks_external_transaction waits until the    *)
(* transfer is indexed.                                                      *)
AfterTopUp == "index"

(* The receipt arrives with enough confirmations; its status is not read. *)
Receipt(r) ==
  /\ reqPc[r] = "wait"
  /\ tx[r] \in {"mined", "reverted"}
  /\ TransferGoto(r, IF Kind[r] = "hyper" THEN AfterTopUp ELSE "ok")
  /\ UNCHANGED <<bal, count, tx, fb, known, moved, unsure>>

(* Waiting for the receipt fails: the request ends, the transaction may not. *)
LoseReceipt(r) ==
  /\ CustodyFaults
  /\ reqPc[r] = "wait"
  /\ TransferGoto(r, "err")
  /\ unsure' = unsure \cup {r}
  /\ UNCHANGED <<bal, count, tx, fb, known, moved>>

-----------------------------------------------------------------------------
(* Fireblocks transactions *)

(* The top-up is indexed, or was not when the deadline passed.  A reverted   *)
(* transfer is indexed like any other.                                       *)
Indexed(r) ==
  /\ reqPc[r] = "index"
  /\ \/ TransferGoto(r, "create")
     \/ Slow /\ TransferGoto(r, "err")
  /\ UNCHANGED <<bal, count, tx, fb, known, moved, unsure>>

(* transfer_from_vault, or the signature request of the RPC shim. *)
CreateTransaction(r) ==
  /\ reqPc[r] = "create"
  /\ fb' = [fb EXCEPT ![r] = "pending"]
  /\ Enter(r, "poll")
  /\ chances' = [chances EXCEPT ![r] = Deadline]
  /\ UNCHANGED <<seenBal, need, slot>>
  /\ UNCHANGED <<bal, count, tx, known, moved, unsure>>

VaultAmount(r) == IF Kind[r] = "hyper" THEN RoundUp(Amount[r]) ELSE Amount[r]

(* Fireblocks carries a transfer out, or fails it: a transfer of more than   *)
(* the vault holds always fails.  A signature involves no balance.           *)
VaultTransfer(r) ==
  /\ fb[r] = "pending"
  /\ Kind[r] /= "sign"
  /\ LET v == VaultAmount(r)
         good == bal[VaultSource(r)] >= v
     IN \/ /\ good
           /\ fb' = [fb EXCEPT ![r] = "confirming"]
           /\ bal' = [bal EXCEPT ![VaultSource(r)] = @ - v, ![VaultDest(r)] = @ + v]
           /\ moved' = [moved EXCEPT ![r] = @ + v]
        \/ /\ Rejects \/ ~good
           /\ fb' = [fb EXCEPT ![r] = "failed"]
           /\ UNCHANGED <<bal, moved>>
  /\ UNCHANGED <<count, reqVars, tx, known, unsure>>

VaultComplete(r) ==
  /\ \/ fb[r] = "confirming" /\ fb' = [fb EXCEPT ![r] = "completed"]
     \/ fb[r] = "pending" /\ Kind[r] = "sign"
          /\ \E s \in {"completed"} \cup (IF Rejects THEN {"failed"} ELSE {}) : fb' = [fb EXCEPT ![r] = s]
  /\ UNCHANGED <<bal, count, reqVars, tx, known, moved, unsure>>

(* The statuses that end the polling, and those that mean success: for a     *)
(* signature only a completed one.                                           *)
Succeeded(r) ==
  IF Kind[r] = "sign" THEN fb[r] = "completed" ELSE fb[r] \in {"confirming", "completed"}

(* poll_fireblocks_transaction: a poll that finds a final status, a poll     *)
(* that does not, and the last one, after the deadline, whose answer is what *)
(* counts.                                                                   *)
Poll(r) ==
  /\ reqPc[r] = "poll"
  /\ \/ /\ fb[r] /= "pending"
        /\ TransferGoto(r, IF Succeeded(r) THEN "ok" ELSE "err")
        /\ UNCHANGED unsure
     \/ /\ fb[r] = "pending" /\ Slow /\ chances[r] > 0
        /\ chances' = [chances EXCEPT ![r] = @ - 1]
        /\ UNCHANGED <<reqPc, seenBal, need, slot, unsure>>
     \/ /\ fb[r] = "pending" /\ Slow /\ chances[r] = 0
        /\ TransferGoto(r, IF Succeeded(r) THEN "ok" ELSE "err")
        /\ unsure' = unsure \cup {r}
  /\ UNCHANGED <<bal, count, tx, fb, known, moved>>

(* A call of the request's own to the node, the database, the secrets        *)
(* manager or Fireblocks fails.  An error while polling is retried, except   *)
(* in the last poll.                                                         *)
CallFails(r) ==
  /\ CustodyFaults
  /\ \/ /\ reqPc[r] \in {"read", "lookup", "check", "topup", "fill", "submit", "index", "create"}
        /\ UNCHANGED unsure
     \/ /\ reqPc[r] = "poll" /\ chances[r] = 0
        /\ unsure' = unsure \cup {r}
  /\ TransferGoto(r, "err")
  /\ UNCHANGED <<bal, count, tx, fb, known, moved>>

-----------------------------------------------------------------------------

CheckFunds(r) == CheckWallet(r) \/ CheckVault(r) \/ CheckHyper(r) \/ CheckTopUp(r)

Progress(r) ==
  \/ ReadVault(r) \/ FetchMetadata(r) \/ Lookup(r) \/ CheckFunds(r) \/ Fill(r) \/ SubmitTransfer(r) \/ Receipt(r)
  \/ Indexed(r) \/ CreateTransaction(r) \/ Poll(r)

Environment(r) == Mine(r) \/ VaultTransfer(r) \/ VaultComplete(r)

TransferNext == \E r \in Requests : StartTransfer(r) \/ Progress(r) \/ Environment(r) \/ LoseReceipt(r) \/ CallFails(r)

(* A request goes on, the chain includes pending transactions and Fireblocks *)
(* works through its queue, in time or not.                                  *)
TransferSpec ==
  /\ TransferInit /\ [][TransferNext]_transferVars
  /\ \A r \in Requests : WF_transferVars(Progress(r)) /\ WF_transferVars(Environment(r))

-----------------------------------------------------------------------------
(* The types of the variables; balances are whole units. *)
TransferTypeOK ==
  /\ bal \in [Accounts -> Nat]
  /\ \A a \in Accounts : bal[a] % Unit = 0
  /\ count \in [{"quoter", "gas"} -> 0..Cardinality(Requests)]
  /\ known \subseteq {"vaultid", "asset", "address"}
  /\ moved \in [Requests -> Nat]
  /\ fb \in [Requests -> {"none", "pending", "confirming", "completed", "failed"}]
  /\ tx \in [Requests -> {"none", "pending", "mined", "reverted"}]
  /\ reqPc \in [Requests -> {"idle", "read", "lookup", "check", "topup", "fill", "submit", "wait", "index",
                             "create", "poll", "ok", "err"}]
  /\ need \in [Requests -> Int]

(* What a request that succeeds has to have moved. *)
Owed(r) ==
  CASE Kind[r] \in {"withdraw", "gas", "tovault"} -> RoundDown(Amount[r])
    [] Kind[r] = "sign" -> 0
    [] OTHER -> VaultAmount(r)

(* The handlers answer "Withdrawal complete": a request that is answered     *)
(* with success has moved its whole amount to where it was to go, unless its *)
(* transaction reverted, as no handler reads the status of a receipt; and a  *)
(* signature comes from a completed Fireblocks transaction.                  *)
SuccessMeansMoved ==
  \A r \in Requests :
    reqPc[r] = "ok" => /\ (moved[r] = Owed(r) \/ tx[r] = "reverted")
                        /\ (Kind[r] = "sign" => fb[r] = "completed")

(* Whatever is retried, lost, slow or concurrent, no request moves more than *)
(* its amount.                                                               *)
AtMostOnce == \A r \in Requests : moved[r] <= Owed(r)

(* transfer_from_vault answers "Transaction failed": a request answered with *)
(* an error moved nothing to its destination, and will not, unless it gave   *)
(* up on a transaction whose outcome it had not seen.                        *)
ErrorMeansUnmoved == \A r \in Requests \ unsure : reqPc[r] = "err" => moved[r] = 0

(* What a custody request is answered with is what happened: success means   *)
(* that the whole amount moved, an error that nothing did, and no request    *)
(* moves more than its amount, whatever is retried, lost, slow or concurrent.*)
TransfersAsReported == SuccessMeansMoved /\ AtMostOnce /\ ErrorMeansUnmoved

(* A transaction of a request that runs alone does not revert: the checks    *)
(* before it are enough.                                                     *)
NothingReverts == \A r \in Requests : tx[r] /= "reverted"

(* withdraw_to_hyperliquid compares the account's balance with the amount    *)
(* asked for, but bridges the amount rounded up: whenever it creates the     *)
(* bridge transaction the account covers both.                               *)
BridgeCovered ==
  \A r \in Requests :
    (Kind[r] = "hyper" /\ reqPc[r] = "create")
      => bal["hyper"] >= VaultAmount(r) /\ bal["hyper"] >= Amount[r]

(* A bridge withdrawal is safe to repeat: the hot wallet only adds what the  *)
(* account lacks, so attempts that failed after the top-up never leave more  *)
(* in the account than one withdrawal needs.                                 *)
ParkedOnce ==
  \/ bal["hyper"] <= Funds["hyper"]
  \/ \E r \in Requests : Kind[r] = "hyper" /\ bal["hyper"] <= RoundUp(Amount[r])
====
