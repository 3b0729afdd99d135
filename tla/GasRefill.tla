---- MODULE GasRefill ----
(***************************************************************************)
(* Refilling the gas wallets of the relayers from the gas hot wallet       *)
(* (funds-manager, custody_client/gas_wallets.rs): the hot wallet's and    *)
(* every gas wallet's balance are read, a target is chosen, and each       *)
(* wallet's balance is read again before ether is sent to it.  Requests    *)
(* share the wallets and no lock; relayers spend gas at any time.  The     *)
(* history variable raced holds the wallets that two requests were         *)
(* refilling at once.                                                      *)
(*                                                                         *)
(* Ether is counted in indivisible units, as the code's conversion to wei  *)
(* truncates.  Every transfer costs the hot wallet Fee units of gas.       *)
(***************************************************************************)
EXTENDS Integers, Sequences

CONSTANTS
  Jobs,        \* requests: /refill-gas, a registration's top-up, a quoter top-up
  Wallets,     \* the addresses a job of each kind refills, in order
  FillTo,      \* the amount each job fills to
  MaxRefill,   \* max_gas_refill_amount
  Tolerance,   \* gas_refill_tolerance, in tenths
  Fee,         \* the gas of one transfer
  HotBalances, \* initial balances of the hot wallet
  Balances,    \* initial balances of a gas wallet
  MaxSpends,   \* bound on what the relayers spend
  RefillFaults \* TRUE: a balance read or a transfer may fail

AddressesOf(j) == {Wallets[j][i] : i \in 1..Len(Wallets[j])}

(* The tolerance is documented as a fraction between 0 and 1. *)
ASSUME GasRefillAssumption ==
  /\ \A j \in Jobs : Wallets[j] \in Seq(AddressesOf(j))
  /\ FillTo \in [Jobs -> Nat] /\ Tolerance \in 0..10 /\ Fee \in Nat
  /\ HotBalances \subseteq Nat /\ Balances \subseteq Nat /\ MaxSpends \in Nat

VARIABLES
  hot,     \* ether of the gas hot wallet
  gasBal,  \* ether of each gas wallet
  jobPc,   \* how far each request is
  place,   \* the wallet of its list it is at
  mine,    \* the balance of the hot wallet it read
  total,   \* what the wallets it surveyed need
  target,  \* what it fills every wallet to
  seenGas, \* the balance it read of the wallet it is about to fill
  sent,    \* history: what it sent
  since,   \* history: what the relayers had spent when it began
  after,   \* history: the requests that had ended well when it began
  spends,  \* units spent by the relayers
  topped,  \* history: the largest balance a wallet started with or was meant to reach
  raced    \* history: wallets that two requests were refilling at once

jobVars == <<jobPc, place, mine, total, target, seenGas, sent, since, after>>
refillVars == <<hot, gasBal, jobVars, spends, topped, raced>>

Addresses == UNION {AddressesOf(j) : j \in Jobs}

RefillInit ==
  /\ hot \in HotBalances
  /\ gasBal \in [Addresses -> Balances]
  /\ jobPc = [j \in Jobs |-> "idle"]
  /\ place = [j \in Jobs |-> 0] /\ mine = [j \in Jobs |-> 0] /\ total = [j \in Jobs |-> 0]
  /\ target = [j \in Jobs |-> 0] /\ seenGas = [j \in Jobs |-> 0] /\ sent = [j \in Jobs |-> 0]
  /\ since = [j \in Jobs |-> 0] /\ after = [j \in Jobs |-> {}]
  /\ spends = 0
  /\ topped = gasBal
  /\ raced = {}

RefillEnded(j) == jobPc[j] \in {"ok", "err"}
RefillRunning(j) == jobPc[j] \notin {"idle", "ok", "err"}
JobStep(j, l) == jobPc' = [jobPc EXCEPT ![j] = l]
Last(j) == place[j] = Len(Wallets[j])
Current(j) == Wallets[j][place[j]]
Positive(n) == IF n > 0 THEN n ELSE 0

-----------------------------------------------------------------------------
(* Mutated forms of the definitions below. *)

WithinToleranceNonZero(balance, goal) == balance > 0

NeedsAlways(goal, held) == goal

-----------------------------------------------------------------------------
(* Requests *)

(* refill_gas_handler: a request beyond the maximum is rejected, otherwise   *)
(* refill_gas_wallets loads the wallets.                                     *)
StartRefill(j) ==
  /\ jobPc[j] = "idle"
  /\ JobStep(j, IF FillTo[j] > MaxRefill THEN "err" ELSE "mine")
  /\ since' = [since EXCEPT ![j] = spends]
  /\ after' = [after EXCEPT ![j] = {k \in Jobs : jobPc[k] = "ok"}]
  /\ raced' = raced \cup UNION {AddressesOf(j) \cap AddressesOf(k) : k \in {k \in Jobs : RefillRunning(k)}}
  /\ UNCHANGED <<hot, gasBal, place, mine, total, target, seenGas, sent, spends, topped>>

(* The hot wallet's balance.  Without a wallet to refill there is no more   *)
(* to do.                                                                   *)
ReadMine(j) ==
  /\ jobPc[j] = "mine"
  /\ JobStep(j, IF Len(Wallets[j]) = 0 THEN "ok" ELSE "survey")
  /\ mine' = [mine EXCEPT ![j] = hot]
  /\ place' = [place EXCEPT ![j] = 1]
  /\ UNCHANGED <<hot, gasBal, total, target, seenGas, sent, since, after, spends, topped, raced>>

(* The target: the amount asked for, or an equal share of a hot wallet that *)
(* cannot cover what the wallets need.                                      *)
Target(held, wanted, fill, n) == IF held < wanted THEN held \div n ELSE fill

(* One turn of the loop that adds up what the wallets need; after the last  *)
(* the target is fixed.                                                     *)
Survey(j) ==
  /\ jobPc[j] = "survey"
  /\ total' = [total EXCEPT ![j] = @ + Positive(FillTo[j] - gasBal[Current(j)])]
  /\ \/ /\ Last(j)
        /\ target' = [target EXCEPT ![j] = Target(mine[j], total'[j], FillTo[j], Len(Wallets[j]))]
        /\ place' = [place EXCEPT ![j] = 1]
        /\ JobStep(j, "check")
     \/ /\ ~Last(j)
        /\ place' = [place EXCEPT ![j] = @ + 1]
        /\ UNCHANGED <<target, jobPc>>
  /\ UNCHANGED <<hot, gasBal, mine, seenGas, sent, since, after, spends, topped, raced>>

WithinTolerance(balance, goal) == balance * 10 > goal * Tolerance

(* top_up_gas_with_tolerance reads the wallet again and skips it when it    *)
(* holds enough.                                                            *)
CheckGas(j) ==
  /\ jobPc[j] = "check"
  /\ LET w == Current(j)
     IN \/ /\ WithinTolerance(gasBal[w], target[j])
           /\ place' = [place EXCEPT ![j] = @ + 1]
           /\ JobStep(j, IF Last(j) THEN "ok" ELSE "check")
           /\ UNCHANGED <<seenGas, topped>>
        \/ /\ ~WithinTolerance(gasBal[w], target[j])
           /\ seenGas' = [seenGas EXCEPT ![j] = gasBal[w]]
           /\ topped' = [topped EXCEPT ![w] = IF @ < target[j] THEN target[j] ELSE @]
           /\ JobStep(j, "send")
           /\ UNCHANGED place
  /\ UNCHANGED <<hot, gasBal, mine, total, target, sent, since, after, spends, raced>>

Needs(goal, held) == goal - held

(* transfer_ether: what the balance read lacks.  A hot wallet that cannot   *)
(* pay the value and the fee makes the transfer, and the request, fail.     *)
SendGas(j) ==
  /\ jobPc[j] = "send"
  /\ LET needs == Needs(target[j], seenGas[j])
     IN \/ /\ hot >= needs + Fee
           /\ hot' = hot - needs - Fee
           /\ gasBal' = [gasBal EXCEPT ![Current(j)] = @ + needs]
           /\ sent' = [sent EXCEPT ![j] = @ + needs]
           /\ place' = [place EXCEPT ![j] = @ + 1]
           /\ JobStep(j, IF Last(j) THEN "ok" ELSE "check")
        \/ /\ hot < needs + Fee
           /\ JobStep(j, "err")
           /\ UNCHANGED <<hot, gasBal, sent, place>>
  /\ UNCHANGED <<mine, total, target, seenGas, since, after, spends, topped, raced>>

(* A balance read or a transfer that fails ends the request. *)
FailRefill(j) ==
  /\ RefillFaults
  /\ RefillRunning(j)
  /\ JobStep(j, "err")
  /\ UNCHANGED <<hot, gasBal, place, mine, total, target, seenGas, sent, since, after, spends, topped, raced>>

(* A relayer pays for a transaction. *)
Spend(w) ==
  /\ spends < MaxSpends
  /\ gasBal[w] > 0
  /\ gasBal' = [gasBal EXCEPT ![w] = @ - 1]
  /\ spends' = spends + 1
  /\ UNCHANGED <<hot, jobVars, topped, raced>>

Advance(j) == ReadMine(j) \/ Survey(j) \/ CheckGas(j) \/ SendGas(j)

RefillNext ==
  \/ \E j \in Jobs : StartRefill(j) \/ Advance(j) \/ FailRefill(j)
  \/ \E w \in Addresses : Spend(w)

RefillSpec == RefillInit /\ [][RefillNext]_refillVars /\ \A j \in Jobs : WF_refillVars(Advance(j))

-----------------------------------------------------------------------------
(* The types of the variables. *)
RefillTypeOK ==
  /\ hot \in Nat /\ spends \in Nat
  /\ gasBal \in [Addresses -> Nat] /\ topped \in [Addresses -> Nat]
  /\ raced \subseteq Addresses
  /\ jobPc \in [Jobs -> {"idle", "mine", "survey", "check", "send", "ok", "err"}]
  /\ place \in [Jobs -> Nat] /\ mine \in [Jobs -> Nat] /\ total \in [Jobs -> Nat]
  /\ target \in [Jobs -> Nat] /\ seenGas \in [Jobs -> Nat] /\ sent \in [Jobs -> Nat]
  /\ since \in [Jobs -> Nat] /\ after \in [Jobs -> SUBSET Jobs]

(* "Refill gas for a wallet up to a given amount": top_up_gas sends what a   *)
(* wallet lacks, so a wallet that no two requests refilled at once never     *)
(* holds more than the larger of what it started with and what some request  *)
(* meant it to have.                                                         *)
NotOverfilled == \A w \in Addresses \ raced : gasBal[w] <= topped[w]

(* A refill that ended well, while the relayers spent nothing, left every    *)
(* wallet with the tolerated part of its target, whether it filled to the    *)
(* amount asked for or shared out a hot wallet that was short.               *)
LeavesEnough ==
  \A j \in Jobs :
    (jobPc[j] = "ok" /\ spends = since[j])
      => \A i \in 1..Len(Wallets[j]) : gasBal[Wallets[j][i]] * 10 >= target[j] * Tolerance

(* A refill fills to its target: it overfills no wallet that no two requests *)
(* refilled at once, and leaves every wallet with the tolerated part of the  *)
(* target when it ends well and nothing was spent.                           *)
GasRefilledToTarget == NotOverfilled /\ LeavesEnough

(* Asking again is harmless: a refill that starts after one of the same      *)
(* wallets to the same amount ended well, with nothing spent since that one  *)
(* began, sends nothing, also when the hot wallet was short.                 *)
RepeatSendsNothing ==
  \A j, k \in Jobs :
    (j \in after[k] /\ Wallets[j] = Wallets[k] /\ FillTo[j] = FillTo[k] /\ since[j] = spends)
      => sent[k] = 0
====
