---- MODULE HotWalletTx ----
(***************************************************************************)
(* The transactions of a hot wallet (helpers.rs, the Lifi and Bebop         *)
(* clients, the transfers of the custody client).  Requests run at the same *)
(* time and nothing orders their transactions: each fetches the account     *)
(* nonce, submits, and starts over when another one used that nonce first.  *)
(* A swap makes sure of the allowance of its venue before it sends.  The    *)
(* variables others, disturbed and lost are history: what others did while  *)
(* a request ran, and where the node was at fault.                          *)
(***************************************************************************)
EXTENDS Integers

CONSTANTS
    Swaps,       \* requests that swap through one venue
    Transfers,   \* requests that only transfer
    SellAmount,      \* what each swap sells
    Allowances,  \* the allowance there may be at the start
    TxMaxRetries,  \* TX_MAX_RETRIES
    Amplifier,   \* APPROVAL_AMPLIFIER
    LossyNode        \* may the node refuse a transaction, or its receipt not be found?

\* A retry loop runs at least once, and approves at least what is sold.
ASSUME HotWalletAssumption ==
    /\ SellAmount \in [Swaps -> Nat] /\ Allowances \subseteq Nat
    /\ TxMaxRetries \in Nat \ {0} /\ Amplifier \in Nat \ {0}
    /\ LossyNode \in BOOLEAN

HotRequests == Swaps \cup Transfers

VARIABLES
    nonce,       \* the nonce of the account
    allowance,   \* the allowance of the venue
    hotPc,          \* of each request: "allowance", "nonce", "submit", "receipt" or "done"
    hotTx,          \* the transaction it sends: "approve", "swap" or "transfer"
    seenNonce,        \* the nonce it fetched
    tries,       \* how often the nonce was too low
    status,      \* the status of its receipt
    result,      \* "none", "executed", "reverted", "unsent" or "error"
    hotMoved,       \* how often its swap or transfer took place
    others,      \* transactions of others accepted since it began to send
    disturbed,   \* requests whose allowance another one used after they checked it
    lost         \* requests the node refused, or whose receipt was not found

hotVars == <<nonce, allowance, hotPc, hotTx, seenNonce, tries, status, result, hotMoved, others, disturbed, lost>>

HotTypeOK ==
    /\ nonce \in Nat /\ allowance \in Nat
    /\ hotPc \in [HotRequests -> {"allowance", "nonce", "submit", "receipt", "done"}]
    /\ hotTx \in [HotRequests -> {"approve", "swap", "transfer"}]
    /\ seenNonce \in [HotRequests -> Nat] /\ \A r \in HotRequests : seenNonce[r] <= nonce
    /\ tries \in [HotRequests -> 0..(TxMaxRetries - 1)]
    /\ status \in [HotRequests -> {"none", "success", "failure"}]
    /\ result \in [HotRequests -> {"none", "executed", "reverted", "unsent", "error"}]
    /\ hotMoved \in [HotRequests -> Nat] /\ others \in [HotRequests -> Nat]
    /\ disturbed \subseteq HotRequests /\ lost \subseteq HotRequests

HotInit ==
    /\ nonce = 0 /\ allowance \in Allowances
    /\ hotPc = [r \in HotRequests |-> IF r \in Swaps THEN "allowance" ELSE "nonce"]
    /\ hotTx = [r \in HotRequests |-> IF r \in Swaps THEN "swap" ELSE "transfer"]
    /\ seenNonce = [r \in HotRequests |-> 0] /\ tries = [r \in HotRequests |-> 0]
    /\ status = [r \in HotRequests |-> "none"] /\ result = [r \in HotRequests |-> "none"]
    /\ hotMoved = [r \in HotRequests |-> 0] /\ others = [r \in HotRequests |-> 0]
    /\ disturbed = {} /\ lost = {}

----------------------------------------------------------------------------

HotGoto(r, l) == hotPc' = [hotPc EXCEPT ![r] = l]

\* A transaction t is sent: send_tx_with_retry is called.
SendTx(r, t) ==
    /\ hotTx' = [hotTx EXCEPT ![r] = t]
    /\ tries' = [tries EXCEPT ![r] = 0]
    /\ others' = [others EXCEPT ![r] = 0]
    /\ HotGoto(r, "nonce")

FinishTx(r, v) == HotGoto(r, "done") /\ result' = [result EXCEPT ![r] = v]

SufficientIfAny(r) == allowance > 0

\* approve_erc20_allowance approves nothing if the allowance is sufficient.
Sufficient(r) == allowance >= SellAmount[r]

CheckAllowance(r) ==
    /\ hotPc[r] = "allowance"
    /\ SendTx(r, IF Sufficient(r) THEN "swap" ELSE "approve")
    /\ disturbed' = disturbed \ {r}
    /\ UNCHANGED <<nonce, allowance, seenNonce, status, result, hotMoved, lost>>

\* The simple nonce manager asks the chain for every transaction.
FetchNonce(r) ==
    /\ hotPc[r] = "nonce"
    /\ seenNonce' = [seenNonce EXCEPT ![r] = nonce]
    /\ HotGoto(r, "submit")
    /\ UNCHANGED <<nonce, allowance, hotTx, tries, status, result, hotMoved, others, disturbed, lost>>

\* The error of a transaction: a failed approval ends the swap with an error,
\* a failed swap is a swap that was not executed.
Failed(r) == FinishTx(r, IF hotTx[r] = "swap" THEN "unsent" ELSE "error")

RetryOnce(r) ==
    IF tries[r] + 2 < TxMaxRetries
      THEN HotGoto(r, "nonce") /\ tries' = [tries EXCEPT ![r] = @ + 1] /\ UNCHANGED result
      ELSE Failed(r) /\ UNCHANGED tries

\* "nonce too low": the loop goes on, MaxRetries times in all.
Retry(r) ==
    IF tries[r] + 1 < TxMaxRetries
      THEN HotGoto(r, "nonce") /\ tries' = [tries EXCEPT ![r] = @ + 1] /\ UNCHANGED result
      ELSE Failed(r) /\ UNCHANGED tries

TooLow(r) ==
    /\ hotPc[r] = "submit" /\ seenNonce[r] < nonce
    /\ Retry(r)
    /\ UNCHANGED <<nonce, allowance, hotTx, seenNonce, status, hotMoved, others, disturbed, lost>>

\* Another refusal of the node is not retried.
Refused(r) ==
    /\ LossyNode /\ hotPc[r] = "submit"
    /\ Failed(r)
    /\ lost' = lost \cup {r}
    /\ UNCHANGED <<nonce, allowance, hotTx, seenNonce, tries, status, hotMoved, others, disturbed>>

\* What the chain does with an accepted transaction: approve sets the allowance,
\* a swap uses it or reverts.
Execute(r) ==
    LET ok == hotTx[r] = "swap" => allowance >= SellAmount[r] IN
    /\ status' = [status EXCEPT ![r] = IF ok THEN "success" ELSE "failure"]
    /\ allowance' = CASE hotTx[r] = "approve" -> Amplifier * SellAmount[r]
                      [] hotTx[r] = "swap" /\ ok -> allowance - SellAmount[r]
                      [] OTHER -> allowance
    /\ hotMoved' = [hotMoved EXCEPT ![r] = IF hotTx[r] # "approve" /\ ok THEN @ + 1 ELSE @]
    /\ disturbed' = IF allowance' = allowance THEN disturbed ELSE disturbed \cup (HotRequests \ {r})

Accepted(r) ==
    /\ hotPc[r] = "submit" /\ seenNonce[r] = nonce
    /\ nonce' = nonce + 1
    /\ Execute(r)
    /\ others' = [s \in HotRequests |-> IF s = r THEN others[s] ELSE others[s] + 1]
    /\ HotGoto(r, "receipt")
    /\ UNCHANGED <<hotTx, seenNonce, tries, result, lost>>

\* The receipt of a swap or a transfer says whether it took place.
Outcome(r) == FinishTx(r, IF status[r] = "success" THEN "executed" ELSE "reverted")

TxReceipt(r) ==
    /\ hotPc[r] = "receipt"
    /\ IF hotTx[r] = "approve" THEN SendTx(r, "swap") /\ UNCHANGED result
       ELSE Outcome(r) /\ UNCHANGED <<hotTx, tries, others>>
    /\ UNCHANGED <<nonce, allowance, seenNonce, status, hotMoved, disturbed, lost>>

\* The receipt cannot be fetched: an error, and the transaction is not sent again.
ReceiptLost(r) ==
    /\ LossyNode /\ hotPc[r] = "receipt"
    /\ Failed(r)
    /\ lost' = lost \cup {r}
    /\ UNCHANGED <<nonce, allowance, hotTx, seenNonce, tries, status, hotMoved, others, disturbed>>

HotStep(r) == CheckAllowance(r) \/ FetchNonce(r) \/ TooLow(r) \/ Refused(r)
             \/ Accepted(r) \/ TxReceipt(r) \/ ReceiptLost(r)

HotNext == \E r \in HotRequests : HotStep(r)

HotSpec == HotInit /\ [][HotNext]_hotVars

----------------------------------------------------------------------------

\* "Send a transaction, retrying on failure": whatever is refused or lost, a
\* request moves funds once at most, and nothing is sent twice.
MovedOnce == \A r \in HotRequests : hotMoved[r] <= 1

\* A transaction that the node did not refuse is given up on only when
\* TX_MAX_RETRIES transactions of other requests took the nonce it had fetched:
\* fewer cannot starve it.
GivenUpOnlyWhenCrowded ==
    \A r \in HotRequests \ lost : result[r] \in {"unsent", "error"} => others[r] >= TxMaxRetries

\* A swap whose receipt is not lost is reported as executed exactly if it took
\* place.
ReportedAsHappened ==
    \A r \in HotRequests \ lost : result[r] # "none" => (result[r] = "executed" <=> hotMoved[r] = 1)

\* A swap reverts for want of an allowance only if another request used the
\* allowance after it was checked; what the check let through is enough.
RevertsOnlyIfDisturbed == \A r \in HotRequests : result[r] = "reverted" => r \in disturbed

\* What the hot wallet's transactions are reported as is what happened: a request
\* moves funds once at most, whatever the node refuses or loses, and reverts only
\* if another one used its allowance; and unless the node refused it or lost its
\* receipt, it is executed exactly if it took place, and is given up only when
\* others took its nonce TX_MAX_RETRIES times.
SwapTxAsReported ==
    MovedOnce /\ GivenUpOnlyWhenCrowded /\ ReportedAsHappened /\ RevertsOnlyIfDisturbed
====
